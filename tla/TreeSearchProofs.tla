-------------------------- MODULE TreeSearchProofs --------------------------
(***************************************************************************)
(* What TreeSearch promises for every tree, every set of requests, file    *)
(* contents and ignore files, and any number of workers.                   *)
(***************************************************************************)
EXTENDS TreeSearch, PrefixesProofs

---------------------------------------------------------------------------
(* Types *)

LEMMA NewListerType ==
    ASSUME NEW onDisk \in [Dirs -> IgnoreFile]
    PROVE  NewLister(onDisk) \in Lister
BY DEF NewLister, Lister, IgnoreFile, NoPatterns, Verdict

LEMMA ConsultedType ==
    ASSUME NEW l \in Lister, NEW onDisk \in [Dirs -> IgnoreFile], NEW p
    PROVE  Consulted(l, onDisk, p) \in Lister
<1>1. \A d \in Dirs : VerdictOn(l, onDisk, d) \in Verdict
  BY DEF VerdictOn, Lister, Verdict
<1> QED BY <1>1 DEF Consulted, Lister

\* What the loops over the sorted files and over the slots leave.
LEMMA PickedType ==
    ASSUME NEW E, NEW seq \in Seq(E), NEW S
    PROVE  Picked(seq, S) \in Seq(E)
<1>1. Len(seq) \in 0 .. Len(seq)
  OBVIOUS
<1> QED BY <1>1, PickedPlaces DEF Picked

LEMMA NoPatternsType == [d \in Dirs |-> NoPatterns] \in [Dirs -> IgnoreFile]
BY DEF NoPatterns, IgnoreFile

\* Outside its phases a search holds no directories, files or jobs.
PhaseFits ==
    /\ phase # "walk" => toRead = {} /\ toVisit = {} /\ found = {}
    /\ phase # "scan" => list = <<>> /\ slot = <<>> /\ next = 1
    /\ phase # "idle" => request \in Requests

LEMMA TypeInit == Init => TypeOK /\ PhaseFits
<1> SUFFICES ASSUME Init PROVE TypeOK /\ PhaseFits
  OBVIOUS
<1>1. lister \in Lister
  BY NewListerType, NoPatternsType DEF Init
<1>2. present \subseteq Paths /\ data \in [Files -> Data] /\ patterns \in [Dirs -> IgnoreFile]
  BY SearchAssumption DEF Init
<1>3. /\ <<>> \in Seq(Files) /\ Len(<<>>) = 0 /\ DOMAIN <<>> = {}
      /\ 1 \in 1 .. Len(<<>>) + 1 /\ [w \in Worker |-> 0] \in [Worker -> 0 .. Len(<<>>)]
  OBVIOUS
<1>4. 0 \in 0 .. MaxEdits
  BY SearchAssumption
<1> QED BY <1>1, <1>2, <1>3, <1>4 DEF Init, TypeOK, PhaseFits

LEMMA TypeStep ==
    ASSUME TypeOK, PhaseFits, [Next]_vars
    PROVE  TypeOK' /\ PhaseFits'
<1>1. ASSUME NEW r \in Requests, Start(r)
      PROVE  TypeOK' /\ PhaseFits'
  <2>1. NewLister(patterns) \in Lister
    BY NewListerType DEF TypeOK
  <2>2. CASE phase' = "walk"
    <3>1. /\ request' = r /\ lister' = NewLister(patterns)
          /\ toRead' \subseteq Dirs /\ toVisit' \subseteq Files /\ touched' = {} /\ wasThere' = AsAsked'
          /\ phase = "idle" /\ UNCHANGED <<disk, found, scan>>
      BY <1>1, <2>2 DEF Start, Fail
    <3>2. AsAsked' \subseteq Files
      BY <3>1, RequestAssumption DEF AsAsked
    <3> QED BY <2>1, <2>2, <3>1, <3>2 DEF TypeOK, PhaseFits, disk, scan, Paths
  <2>3. CASE phase' # "walk"
    BY <1>1, <2>3 DEF Start, Fail, TypeOK, PhaseFits, disk, walk, scan, observed
  <2> QED BY <2>2, <2>3
<1>2. ASSUME NEW d \in Dirs, ReadDirectory(d)
      PROVE  TypeOK' /\ PhaseFits'
  BY <1>2 DEF ReadDirectory, TypeOK, PhaseFits, disk, scan, observed
<1>3. ASSUME NEW p \in Paths, Visit(p)
      PROVE  TypeOK' /\ PhaseFits'
  <2>1. Consulted(lister, patterns, p) \in Lister
    BY ConsultedType DEF TypeOK
  <2> QED BY <1>3, <2>1 DEF Visit, TypeOK, PhaseFits, disk, scan, observed, Paths
<1>4. ASSUME Collect
      PROVE  TypeOK' /\ PhaseFits'
  <2>1. list' \in Seq(Files)
    BY <1>4, PickedType, OrderAssumption DEF Collect
  <2>2. lister' \in Lister
    BY <1>4, NewListerType, NoPatternsType DEF Collect
  <2>3. job' = job /\ job \in [Worker -> {0}]
    BY <1>4 DEF Collect, TypeOK, PhaseFits
  <2>4. next' \in 1 .. Len(list') + 1 /\ job' \in [Worker -> 0 .. Len(list')]
    BY <1>4, <2>1, <2>3 DEF Collect
  <2> QED BY <1>4, <2>1, <2>2, <2>4 DEF Collect, TypeOK, PhaseFits, disk, observed
<1>5. ASSUME NEW w \in Worker, Take(w)
      PROVE  TypeOK' /\ PhaseFits'
  <2>1. Len(list) \in Nat
    BY DEF TypeOK
  <2>2. next \in 0 .. Len(list) /\ next + 1 \in 1 .. Len(list) + 1
    BY <1>5, <2>1 DEF Take, TypeOK
  <2>3. job' \in [Worker -> 0 .. Len(list)]
    BY <1>5, <2>2 DEF Take, TypeOK
  <2> QED BY <1>5, <2>2, <2>3 DEF Take, TypeOK, PhaseFits, disk, walk, observed
<1>6. ASSUME NEW w \in Worker, Scan(w)
      PROVE  TypeOK' /\ PhaseFits'
  <2>1. list[job[w]] \in Files
    <3>1. list \in Seq(Files) /\ job[w] \in 1 .. Len(list)
      BY <1>6 DEF Scan, TypeOK
    <3> QED BY <3>1, ElementOfSeq
  <2>2. touched' \subseteq Files
    BY <1>6, <2>1 DEF Scan, TypeOK
  <2> QED BY <1>6, <2>2 DEF Scan, TypeOK, PhaseFits, disk, walk
<1>7. ASSUME Answer
      PROVE  TypeOK' /\ PhaseFits'
  <2>1. /\ <<>> \in Seq(Files) /\ Len(<<>>) = 0 /\ 1 \in 1 .. Len(<<>>) + 1
    OBVIOUS
  <2>2. job' \in [Worker -> 0 .. Len(<<>>)]
    BY <1>7, <2>1 DEF Answer, TypeOK
  <2>3. /\ list' = <<>> /\ slot' = <<>> /\ next' = 1 /\ phase' = "idle"
        /\ UNCHANGED <<disk, request, walk, observed>>
        /\ toRead = {} /\ toVisit = {} /\ found = {}
    BY <1>7 DEF Answer, PhaseFits
  <2> QED BY <2>1, <2>2, <2>3 DEF TypeOK, PhaseFits, disk, walk, observed
<1>0. ASSUME NEW p \in Paths, Edit(p)
      PROVE  touched' \subseteq Files /\ wasThere' \subseteq Files /\ edits' \in 0 .. MaxEdits
  <2>1. phase # "idle" => AsAsked' \subseteq Files
    BY <1>0, RequestAssumption DEF Edit, AsAsked, PhaseFits
  <2> QED BY <1>0, <2>1, SearchAssumption DEF Edit, TypeOK
<1>8. ASSUME NEW f \in Files, EditFile(f)
      PROVE  TypeOK' /\ PhaseFits'
  <2>1. data' \in [Files -> Data]
    BY <1>8 DEF EditFile, TypeOK
  <2> QED BY <1>0, <1>8, <2>1 DEF EditFile, Edit, TypeOK, PhaseFits, walk, scan, Paths
<1>9. ASSUME NEW d \in Dirs, EditIgnoreFile(d)
      PROVE  TypeOK' /\ PhaseFits'
  <2>1. patterns' \in [Dirs -> IgnoreFile]
    <3>1. PICK i \in PatternsOf[d] : patterns' = [patterns EXCEPT ![d] = i]
      BY <1>9 DEF EditIgnoreFile
    <3>2. i \in IgnoreFile
      BY SearchAssumption
    <3> QED BY <3>1, <3>2 DEF TypeOK
  <2> QED BY <1>0, <1>9, <2>1 DEF EditIgnoreFile, Edit, TypeOK, PhaseFits, walk, scan, Paths
<1>10. ASSUME NEW p \in Paths, Remove(p) \/ Create(p)
       PROVE  TypeOK' /\ PhaseFits'
  <2>1. present' \subseteq Paths
    BY <1>10 DEF Remove, Create, TypeOK
  <2> QED BY <1>0, <1>10, <2>1 DEF Remove, Create, Edit, TypeOK, PhaseFits, walk, scan
<1>11. CASE UNCHANGED vars
  BY <1>11 DEF vars, disk, walk, scan, observed, TypeOK, PhaseFits
<1> QED
  BY <1>1, <1>2, <1>3, <1>4, <1>5, <1>6, <1>7, <1>8, <1>9, <1>10, <1>11 DEF Next, SearchStep

\* Every variable stays in its type, whoever edits the tree meanwhile: what
\* the callbacks collect are files, and no index given to a worker is past
\* the candidates.
THEOREM TypeCorrect == Spec => []TypeOK
<1>1. TypeOK /\ PhaseFits /\ [Next]_vars => (TypeOK /\ PhaseFits)'
  BY TypeStep
<1> QED BY TypeInit, <1>1, PTL DEF Spec

---------------------------------------------------------------------------
(* The slots of the worker pool *)

\* What scanning file f can leave in its slot.
Fits(r, f) ==
    /\ r.out = TRUE /\ r.inc \in BOOLEAN /\ r.path = f
    /\ r.inc => IsFiniteSet(r.matches) /\ IsFiniteSet(r.metadataMatches)

LEMMA ResultFits ==
    ASSUME NEW f, NEW matches, NEW metadataMatches, NEW metadata,
           IsFiniteSet(matches), IsFiniteSet(metadataMatches)
    PROVE  Fits(Result(f, matches, metadataMatches, metadata), f)
BY DEF Fits, Result

LEMMA ScanBytesInLines ==
    ASSUME NEW lines, NEW m
    PROVE  ScanBytes(lines, m) \subseteq DOMAIN lines
BY DEF ScanBytes, ScanWholeRegex

\* Every read of a file is a beginning of it.
LEMMA ReadsAreBeginnings ==
    ASSUME TypeOK, NEW f \in Files, NEW cap \in Nat, NEW lines \in ReadsOf(f, cap)
    PROVE  \E n \in Nat : /\ n <= Len(data[f].lines) /\ n <= cap
                          /\ lines = SubSeq(data[f].lines, 1, n)
                          /\ lines \in Seq(Line) /\ Len(lines) = n /\ DOMAIN lines = 1 .. n
<1>1. data[f].lines \in Seq(Line) /\ Len(data[f].lines) \in Nat
  BY DataAssumption DEF TypeOK
<1>2. PICK n \in Nat : /\ n <= Len(data[f].lines) /\ n <= cap
                       /\ lines = SubSeq(data[f].lines, 1, n)
  BY <1>1 DEF ReadsOf
<1>3. \A i \in 1 .. n : data[f].lines[i] \in Line
  BY <1>1, <1>2, ElementOfSeq
<1>4. lines \in Seq(Line) /\ Len(lines) = n
  BY <1>2, <1>3, SubSeqProperties
<1> QED BY <1>2, <1>4

LEMMA ScanContentFits ==
    ASSUME NEW f, NEW lines, IsFiniteSet(DOMAIN lines)
    PROVE  Fits(ScanContent(f, lines), f)
<1> DEFINE byLine == IF request.matches
                     THEN UNION {ScanBytes(lines, CompileMatcher(request.where[k])) : k \in DOMAIN request.where}
                     ELSE {}
           fenced == {l \in byLine : l > 1 /\ l < FenceEnd(lines)}
<1>1. byLine \subseteq DOMAIN lines /\ byLine \ fenced \subseteq DOMAIN lines /\ fenced \subseteq DOMAIN lines
  BY ScanBytesInLines
<1>2. IsFiniteSet(byLine \ fenced) /\ IsFiniteSet(fenced)
  <2> HIDE DEF byLine, fenced
  <2> QED BY <1>1, FS_Subset
<1>3. \A m : Fits(Result(f, byLine \ fenced, fenced, m), f)
  <2> HIDE DEF byLine, fenced
  <2> QED BY <1>2, ResultFits
<1>4. Fits(Excluded(f), f)
  BY DEF Fits, Excluded
<1> QED BY <1>3, <1>4 DEF ScanContent

LEMMA OutcomeFits ==
    ASSUME TypeOK, NEW f \in Files, NEW outcome \in ScanOne(f)
    PROVE  Fits(outcome[1], f)
<1>1. \A lines : Fits(ScanMetadata(f, lines), f)
  BY ResultFits, FS_EmptySet DEF ScanMetadata
<1>2. ASSUME NEW lines \in ReadsOf(f, ReadCap)
      PROVE  Fits(ScanContent(f, lines), f)
  <2>1. PICK n \in Nat : DOMAIN lines = 1 .. n
    BY ReadsAreBeginnings, SearchAssumption
  <2>2. IsFiniteSet(DOMAIN lines)
    BY <2>1, FS_Interval
  <2> QED BY <2>2, ScanContentFits
<1>3. Fits(Excluded(f), f)
  BY DEF Fits, Excluded
<1>4. \/ \E lines : outcome[1] = ScanMetadata(f, lines)
      \/ outcome[1] = Excluded(f)
      \/ \E lines \in ReadsOf(f, ReadCap) : outcome[1] = ScanContent(f, lines)
  <2> HIDE DEF Excluded
  <2>1. CASE request.where = <<>>
    <3> DEFINE cap == IF ReadCap < ProbeCap THEN ReadCap ELSE ProbeCap
    <3>1. \/ outcome = <<ScanMetadata(f, <<>>), FALSE>>
          \/ outcome \in {<<ScanMetadata(f, r), r # Seen(f, cap)>> : r \in ReadsOf(f, cap)}
      BY <2>1, Zenon DEF ScanOne
    <3>2. \E r, b : outcome = <<ScanMetadata(f, r), b>>
      BY <3>1, Zenon
    <3>3. PICK r, b : outcome = <<ScanMetadata(f, r), b>>
      BY <3>2
    <3>4. outcome[1] = ScanMetadata(f, r)
      BY ONLY <3>3
    <3> QED BY <3>4
  <2>2. CASE request.where # <<>>
    <3>1. \/ outcome = <<Excluded(f), FALSE>>
          \/ outcome \in {<<ScanContent(f, r), r # Seen(f, ReadCap)>> : r \in ReadsOf(f, ReadCap)}
      BY <2>2, Zenon DEF ScanOne
    <3>2. \/ \E b : outcome = <<Excluded(f), b>>
          \/ \E r \in ReadsOf(f, ReadCap) : \E b : outcome = <<ScanContent(f, r), b>>
      BY <3>1, Zenon
    <3>3. \A a, b : outcome = <<a, b>> => outcome[1] = a
      OBVIOUS
    <3> QED BY <3>2, <3>3, Zenon
  <2> QED BY <2>1, <2>2
<1> QED BY <1>1, <1>2, <1>3, <1>4

SlotsFit ==
    /\ slot = [k \in DOMAIN list |-> slot[k]]
    /\ \A k \in DOMAIN list : slot[k] = Empty \/ Fits(slot[k], list[k])

\* The slots are Empty until their one worker fills them.
LEMMA SlotsStep ==
    ASSUME TypeOK, PhaseFits, SlotsFit, SlotsHaveOneWriter, [Next]_vars
    PROVE  SlotsFit' /\ SlotsHaveOneWriter'
<1>1. CASE UNCHANGED <<scan, disk>> \/ UNCHANGED scan
  BY <1>1 DEF scan, SlotsFit, SlotsHaveOneWriter
<1>2. CASE Collect
  <2>1. /\ slot' = [k \in DOMAIN list' |-> Empty] /\ next' = 1
        /\ job' = job /\ \A w \in Worker : job[w] = 0
    BY <1>2 DEF Collect, TypeOK, PhaseFits
  <2>2. list' \in Seq(Files)
    BY <1>2, PickedType, OrderAssumption DEF Collect
  <2>3. SlotsFit'
    BY <2>1 DEF SlotsFit
  <2>4. \A k \in DOMAIN slot' : ~ slot'[k].out /\ ~ (k < next')
    BY <2>1, <2>2 DEF Empty
  <2> QED BY <2>1, <2>3, <2>4 DEF SlotsHaveOneWriter
<1>3. ASSUME NEW w \in Worker, Take(w)
      PROVE  SlotsFit' /\ SlotsHaveOneWriter'
  <2>1. /\ job' = [job EXCEPT ![w] = next] /\ next' = next + 1 /\ UNCHANGED <<list, slot>>
        /\ next \in DOMAIN list /\ next \in DOMAIN slot /\ next \in Nat \ {0}
        /\ job \in [Worker -> Nat] /\ DOMAIN slot \subseteq Nat \ {0}
    BY <1>3 DEF Take, TypeOK
  <2>2. SlotsFit'
    BY <2>1 DEF SlotsFit
  <2>3. ~ slot[next].out /\ \A v \in Worker : job[v] # next
    BY <2>1 DEF SlotsHaveOneWriter
  <2>4. \A v \in Worker : job'[v] = IF v = w THEN next ELSE job[v]
    BY <2>1
  <2>5. \A u, v \in Worker : job'[u] = job'[v] => u = v \/ job'[u] = 0
    BY <2>1, <2>3, <2>4 DEF SlotsHaveOneWriter
  <2>6. \A v \in Worker : job'[v] # 0 => job'[v] < next' /\ ~ slot'[job'[v]].out
    BY <2>1, <2>3, <2>4 DEF SlotsHaveOneWriter
  <2>7. \A k \in DOMAIN slot' : slot'[k].out <=> k < next' /\ \A v \in Worker : job'[v] # k
    <3> TAKE k \in DOMAIN slot'
    <3>1. slot[k].out <=> k < next /\ \A v \in Worker : job[v] # k
      BY <2>1 DEF SlotsHaveOneWriter
    <3>2. CASE k = next
      BY <2>1, <2>3, <2>4, <3>2
    <3>3. CASE k # next
      <4>1. k < next <=> k < next + 1
        BY <2>1, <3>3
      <4>2. (\A v \in Worker : job[v] # k) <=> job[w] # k /\ (\A v \in Worker : job'[v] # k)
        BY <2>4, <3>3
      <4>3. job[w] = 0 /\ k # 0
        BY <1>3, <2>1 DEF Take
      <4> QED BY <2>1, <3>1, <4>1, <4>2, <4>3
    <3> QED BY <3>2, <3>3
  <2> QED BY <2>2, <2>5, <2>6, <2>7 DEF SlotsHaveOneWriter
<1>4. ASSUME NEW w \in Worker, Scan(w)
      PROVE  SlotsFit' /\ SlotsHaveOneWriter'
  <2>1. /\ job[w] \in DOMAIN list /\ job[w] # 0 /\ list[job[w]] \in Files
        /\ job' = [job EXCEPT ![w] = 0] /\ UNCHANGED <<list, next>>
        /\ job \in [Worker -> Nat] /\ DOMAIN slot = DOMAIN list /\ DOMAIN slot \subseteq Nat \ {0}
    <3>1. list \in Seq(Files) /\ DOMAIN list = 1 .. Len(list) /\ Len(list) \in Nat
      BY DEF TypeOK
    <3>2. job[w] \in 0 .. Len(list) /\ job[w] # 0
      BY <1>4 DEF Scan, TypeOK
    <3>3. list[job[w]] \in Files
      BY <3>1, <3>2, ElementOfSeq
    <3> QED BY <1>4, <3>1, <3>2, <3>3 DEF Scan, TypeOK
  <2>2. PICK outcome \in ScanOne(list[job[w]]) : slot' = [slot EXCEPT ![job[w]] = outcome[1]]
    BY <1>4 DEF Scan
  <2>3. Fits(outcome[1], list[job[w]])
    BY <2>1, OutcomeFits
  <2>4. SlotsFit'
    BY <2>1, <2>2, <2>3 DEF SlotsFit
  <2>5. outcome[1].out
    BY <2>3 DEF Fits
  <2>6. slot'[job[w]].out /\ \A k \in DOMAIN slot \ {job[w]} : slot'[k] = slot[k]
    BY <2>1, <2>2, <2>5
  <2>7. DOMAIN slot' = DOMAIN slot
    BY <2>2
  <2>8. \A v \in Worker : job'[v] = IF v = w THEN 0 ELSE job[v]
    BY <2>1
  <2>9. \A v \in Worker : job[v] = job[w] => v = w
    BY <2>1 DEF SlotsHaveOneWriter
  <2>10. \A u, v \in Worker : job'[u] = job'[v] => u = v \/ job'[u] = 0
    BY <2>8 DEF SlotsHaveOneWriter
  <2>11. \A v \in Worker : job'[v] # 0 => job'[v] < next' /\ ~ slot'[job'[v]].out
    <3> TAKE v \in Worker
    <3> HAVE job'[v] # 0
    <3>1. v # w /\ job'[v] = job[v] /\ job[v] # job[w] /\ job[v] < next /\ ~ slot[job[v]].out
      BY <2>8, <2>9 DEF SlotsHaveOneWriter
    <3>2. job[v] \in DOMAIN slot
      BY <2>1, <3>1, <2>8 DEF TypeOK
    <3> QED BY <2>1, <2>6, <3>1, <3>2
  <2>12. \A k \in DOMAIN slot' : slot'[k].out <=> k < next' /\ \A v \in Worker : job'[v] # k
    <3> TAKE k \in DOMAIN slot'
    <3>1. CASE k = job[w]
      <4>1. \A v \in Worker : job'[v] # k
        BY <2>1, <2>8, <2>9, <3>1
      <4>2. k < next'
        BY <2>1, <3>1 DEF SlotsHaveOneWriter
      <4> QED BY <2>6, <3>1, <4>1, <4>2
    <3>2. CASE k # job[w]
      <4>1. slot'[k] = slot[k] /\ k # 0
        BY <2>1, <2>6, <2>7, <3>2
      <4>2. (\A v \in Worker : job[v] # k) <=> \A v \in Worker : job'[v] # k
        BY <2>8, <3>2, <4>1
      <4> QED BY <2>1, <2>7, <4>1, <4>2 DEF SlotsHaveOneWriter
    <3> QED BY <3>1, <3>2
  <2> QED BY <2>4, <2>10, <2>11, <2>12 DEF SlotsHaveOneWriter
<1>5. CASE Answer
  BY <1>5 DEF Answer, SlotsFit, SlotsHaveOneWriter
<1>6. ASSUME NEW r \in Requests, Start(r) PROVE UNCHANGED scan
  BY <1>6 DEF Start, Fail, scan
<1> QED
  BY <1>1, <1>2, <1>3, <1>4, <1>5, <1>6
     DEF Next, SearchStep, vars, ReadDirectory, Visit, EditFile, EditIgnoreFile, Remove, Create, Edit

---------------------------------------------------------------------------
(* The order of the answer and its cap *)

Place(f) == CHOOSE i \in DOMAIN Order : Order[i] = f

\* Order has every file once.
LEMMA OrderPlaces ==
    /\ Len(Order) \in Nat /\ DOMAIN Order = 1 .. Len(Order)
    /\ \A f \in Files : Place(f) \in 1 .. Len(Order) /\ Order[Place(f)] = f
    /\ \A i \in 1 .. Len(Order) : Order[i] \in Files /\ Place(Order[i]) = i
<1>1. /\ Len(Order) \in Nat /\ DOMAIN Order = 1 .. Len(Order) /\ Order \in [1 .. Len(Order) -> Files]
      /\ \A i \in 1 .. Len(Order) : Order[i] \in Files
  BY OrderAssumption, ElementOfSeq
<1>2. \A f \in Files : Place(f) \in 1 .. Len(Order) /\ Order[Place(f)] = f
  BY <1>1, OrderAssumption DEF Place
<1>3. Order \in Surjection(1 .. Len(Order), Files)
  BY <1>1, <1>2 DEF Surjection
<1>4. IsFiniteSet(1 .. Len(Order)) /\ Cardinality(1 .. Len(Order)) = Len(Order)
  BY <1>1, FS_Interval
<1>5. Order \in Injection(1 .. Len(Order), Files)
  BY <1>3, <1>4, OrderAssumption, FS_Surjection
<1>6. \A i, j \in 1 .. Len(Order) : Order[i] = Order[j] => i = j
  BY <1>5 DEF Injection, IsInjective
<1> QED BY <1>1, <1>2, <1>6

LEMMA PickedInOrder ==
    ASSUME NEW E, NEW seq \in Seq(E), NEW S
    PROVE  /\ Picked(seq, S) \in Seq(E)
           /\ \E place : PlacedBy(place, Len(Picked(seq, S)), Picked(seq, S), seq, Len(seq), S)
<1>1. Len(seq) \in 0 .. Len(seq)
  OBVIOUS
<1>2. /\ Picked(seq, S) \in Seq(E)
      /\ \E m \in 0 .. Len(seq) : \E place : PlacedBy(place, m, Picked(seq, S), seq, Len(seq), S)
  BY <1>1, PickedPlaces DEF Picked
<1>3. PICK m, place : PlacedBy(place, m, Picked(seq, S), seq, Len(seq), S)
  BY <1>2
<1>4. Len(Picked(seq, S)) = m
  BY <1>3 DEF PlacedBy
<1> QED BY <1>2, <1>3, <1>4

Costs(results) == [n \in 1 .. Len(results) |-> Cost(results[n])]
Countable(r) == IsFiniteSet(r.matches) /\ IsFiniteSet(r.metadataMatches)

LEMMA CostIsPositive ==
    ASSUME NEW r, Countable(r)
    PROVE  Cost(r) \in Nat \ {0}
<1>1. Cardinality(r.matches) \in Nat /\ Cardinality(r.metadataMatches) \in Nat
  BY FS_CardinalityType DEF Countable
<1> QED BY <1>1 DEF Cost

LEMMA EmittedTotals ==
    ASSUME NEW E, NEW results \in Seq(E), \A n \in 1 .. Len(results) : Countable(results[n])
    PROVE  /\ Costs(results) \in [1 .. Len(results) -> Nat]
           /\ Totals(Emitted(results), Len(results), Costs(results))
<1>1. Costs(results) \in [1 .. Len(results) -> Nat]
  BY CostIsPositive DEF Costs
<1>2. \A g : g = [n \in 0 .. Len(results) |-> IF n = 0 THEN 0 ELSE g[n - 1] + Cost(results[n])]
             <=> Totals(g, Len(results), Costs(results))
  <2> TAKE g
  <2>1. [n \in 0 .. Len(results) |-> IF n = 0 THEN 0 ELSE g[n - 1] + Cost(results[n])]
        = [n \in 0 .. Len(results) |-> IF n = 0 THEN 0 ELSE g[n - 1] + Costs(results)[n]]
    BY DEF Costs
  <2> QED BY <2>1 DEF Totals
<1>3. \E g : Totals(g, Len(results), Costs(results))
  BY <1>1, TotalsExist
<1>4. Emitted(results) =
        CHOOSE g : g = [n \in 0 .. Len(results) |-> IF n = 0 THEN 0 ELSE g[n - 1] + Cost(results[n])]
  BY DEF Emitted
<1>5. Totals(Emitted(results), Len(results), Costs(results))
  <2> DEFINE F(g) == [n \in 0 .. Len(results) |-> IF n = 0 THEN 0 ELSE g[n - 1] + Cost(results[n])]
  <2>1. \E g : g = F(g)
    BY <1>2, <1>3
  <2>2. Emitted(results) = CHOOSE g : g = F(g)
    BY <1>4
  <2>3. Emitted(results) = F(Emitted(results))
    <3> HIDE DEF F
    <3> QED BY <2>1, <2>2
  <2> QED BY <2>3, <1>2
<1> QED BY <1>1, <1>5

\* The answer stops with the result that reaches the cap.
LEMMA CutKeepsCap ==
    ASSUME NEW E, NEW results \in Seq(E), \A n \in 1 .. Len(results) : Countable(results[n])
    PROVE  LET files == Cut(results).files
               n == Len(files)
           IN /\ n \in 0 .. Len(results) /\ \A k \in 1 .. n : files[k] = results[k]
              /\ files \in Seq(E)
              /\ n > 0 => Emitted(files)[n - 1] < MaxMatches
              /\ Cut(results).truncated <=> n < Len(results)
              /\ Cut(results).truncated => Emitted(files)[n] >= MaxMatches
<1> DEFINE N == Len(results)
           e == Emitted(results)
           A == {n \in DOMAIN results : e[n - 1] < MaxMatches}
           s == Shown(results)
           files == SubSeq(results, 1, s)
<1>1. N \in Nat /\ DOMAIN results = 1 .. N
  OBVIOUS
<1>2. /\ e \in [0 .. N -> Nat]
      /\ \A n \in 0 .. N : \A m \in 0 .. n : e[m] <= e[n]
  BY EmittedTotals, TotalsRise, <1>1
<1>3. A = 1 .. s /\ s \in 0 .. N
  <2>1. \A n \in A : \A m \in 1 .. n : m \in A
    <3> TAKE n \in A
    <3> TAKE m \in 1 .. n
    <3>1. n - 1 \in 0 .. N /\ m - 1 \in 0 .. n - 1 /\ m \in 1 .. N
      BY <1>1
    <3>2. e[m - 1] <= e[n - 1] /\ e[m - 1] \in Nat /\ e[n - 1] \in Nat /\ e[n - 1] < MaxMatches
      <4> HIDE DEF e
      <4> QED BY <1>2, <3>1
    <3> QED BY <3>1, <3>2, <1>1, SearchAssumption
  <2>2. A \subseteq 1 .. N
    BY <1>1
  <2>3. Cardinality(A) = s
    BY DEF Shown
  <2> HIDE DEF A, s
  <2> QED BY <1>1, <2>1, <2>2, <2>3, InitialSegment
<1> HIDE DEF s
<1>4. /\ files \in Seq(E) /\ Len(files) = s
      /\ \A k \in 1 .. s : files[k] = results[k]
  <2>1. \A i \in 1 .. s : results[i] \in E
    BY <1>1, <1>3, ElementOfSeq
  <2> QED BY <1>3, <2>1, SubSeqProperties
<1> HIDE DEF files
<1>5. \A n \in 0 .. s : Emitted(files)[n] = e[n]
  <2>1. \A n \in 1 .. s : Countable(files[n]) /\ Costs(results)[n] = Costs(files)[n]
    BY <1>3, <1>4 DEF Costs
  <2>2. /\ Costs(files) \in [1 .. s -> Nat] /\ Totals(Emitted(files), s, Costs(files))
        /\ Costs(results) \in [1 .. N -> Nat] /\ Totals(e, N, Costs(results))
    BY <1>4, <2>1, EmittedTotals
  <2> DEFINE g == Emitted(files)
             c == Costs(results)
             p == Costs(files)
  <2>3. /\ c \in [1 .. N -> Nat] /\ Totals(e, N, c) /\ p \in [1 .. s -> Nat] /\ Totals(g, s, p)
        /\ \A n \in 1 .. s : c[n] = p[n]
    BY <2>1, <2>2
  <2> HIDE DEF e, g, c, p, N
  <2>4. \A n \in 0 .. s : e[n] = g[n]
    <3>1. N \in Nat /\ s \in 0 .. N BY <1>1, <1>3
    <3>2. Totals(e, N, c) /\ Totals(g, s, p) /\ \A n \in 1 .. s : c[n] = p[n]
      BY <2>3
    <3> QED BY <3>1, <3>2, TotalsAgree
  <2> QED BY <2>4 DEF g
<1>6. ASSUME s > 0 PROVE Emitted(files)[s - 1] < MaxMatches
  <2>1. s \in A /\ s - 1 \in 0 .. s
    BY <1>3, <1>6
  <2> QED BY <1>5, <2>1
<1>7. ASSUME s < N PROVE Emitted(files)[s] >= MaxMatches
  <2>1. s + 1 \in 1 .. N /\ s + 1 \notin A /\ s + 1 - 1 = s
    BY <1>3, <1>7
  <2>2. ~ (e[s] < MaxMatches) /\ e[s] \in Nat
    BY <1>1, <1>2, <1>3, <2>1
  <2> QED BY <1>3, <1>5, <2>2, SearchAssumption
<1>8. Cut(results).files = files /\ (Cut(results).truncated <=> s < N)
  BY DEF Cut, files, s
<1> QED BY <1>3, <1>4, <1>6, <1>7, <1>8

\* The candidates are in path order.
ListOrdered == \A k \in 1 .. Len(list) : \A j \in 1 .. k - 1 : Place(list[j]) < Place(list[k])

LEMMA CollectOrders ==
    ASSUME TypeOK, Collect
    PROVE  ListOrdered'
<1> DEFINE S == found \cap request.glob
<1>1. PICK place : PlacedBy(place, Len(list'), list', Order, Len(Order), S)
  BY PickedInOrder, OrderAssumption DEF Collect
<1>2. list' \in Seq(Files) /\ Len(list') \in Nat
  BY PickedType, OrderAssumption DEF Collect
<1> HIDE DEF S
<1>3. \A k \in 1 .. Len(list') : Place(list'[k]) = place[k]
  BY <1>1, OrderPlaces DEF PlacedBy
<1>4. \A k \in 1 .. Len(list') : \A j \in 1 .. k - 1 : j \in 1 .. Len(list')
  BY <1>2
<1> QED BY <1>1, <1>3, <1>4 DEF PlacedBy, ListOrdered

\* When the answer is made every slot holds the result of its file, and the
\* answer has the first of those that are included, in the order of the
\* slots.
LEMMA AnswerFromSlots ==
    ASSUME TypeOK, SlotsFit, SlotsHaveOneWriter, Answer
    PROVE  LET results == Picked(slot, {r \in Range(slot) : r.inc})
               files == reply'.files
           IN /\ reply' = Cut(results)
              /\ \A k \in 1 .. Len(list) : Fits(slot[k], list[k]) /\ list[k] \in Files
              /\ files \in Seq(Range(slot)) /\ Len(results) \in Nat
              /\ Len(files) \in 0 .. Len(results)
              /\ reply'.truncated <=> Len(files) < Len(results)
              /\ Len(files) > 0 => Emitted(files)[Len(files) - 1] < MaxMatches
              /\ reply'.truncated => Emitted(files)[Len(files)] >= MaxMatches
              /\ \E place :
                   /\ place \in [1 .. Len(results) -> 1 .. Len(list)]
                   /\ \A k \in 1 .. Len(results) : slot[place[k]].inc
                   /\ \A k \in 1 .. Len(results) : \A j \in 1 .. k - 1 : place[j] < place[k]
                   /\ \A i \in 1 .. Len(list) : slot[i].inc => \E k \in 1 .. Len(results) : place[k] = i
                   /\ \A k \in 1 .. Len(files) : files[k] = slot[place[k]]
<1> DEFINE N == Len(list)
           S == {r \in Range(slot) : r.inc}
           results == Picked(slot, S)
           files == reply'.files
<1>1. N \in Nat /\ DOMAIN slot = 1 .. N /\ DOMAIN list = 1 .. N /\ \A k \in 1 .. N : list[k] \in Files
  BY ElementOfSeq DEF TypeOK
<1>2. \A k \in 1 .. N : slot[k].out
  <2> TAKE k \in 1 .. N
  <2>1. k < next /\ \A w \in Worker : job[w] # k
    BY <1>1 DEF Answer, TypeOK
  <2> QED BY <1>1, <2>1 DEF SlotsHaveOneWriter
<1>3. \A k \in 1 .. N : Fits(slot[k], list[k])
  <2>1. ~ Empty.out
    BY DEF Empty
  <2> QED BY <1>1, <1>2, <2>1 DEF SlotsFit
<1>4. slot \in Seq(Range(slot)) /\ Len(slot) = N
  <2>1. slot \in [1 .. N -> Range(slot)]
    BY <1>1 DEF SlotsFit, Range
  <2> HIDE DEF N
  <2> QED BY <1>1, <2>1
<1>5. PICK place : PlacedBy(place, Len(results), results, slot, N, S)
  BY <1>4, PickedInOrder
<1>6. results \in Seq(Range(slot)) /\ Len(results) \in Nat
  BY <1>4, PickedInOrder
<1> HIDE DEF results
<1>7. /\ place \in [1 .. Len(results) -> 1 .. N]
      /\ \A k \in 1 .. Len(results) : results[k] = slot[place[k]] /\ slot[place[k]].inc
      /\ \A k \in 1 .. Len(results) : \A j \in 1 .. k - 1 : place[j] < place[k]
      /\ \A i \in 1 .. N : slot[i].inc => \E k \in 1 .. Len(results) : place[k] = i
  <2>1. \A i \in 1 .. N : slot[i].inc => slot[i] \in S
    BY <1>1 DEF Range
  <2> QED BY <1>5, <2>1 DEF PlacedBy
<1>8. \A n \in 1 .. Len(results) : Countable(results[n])
  BY <1>3, <1>7 DEF Fits, Countable
<1>9. reply' = Cut(results)
  BY DEF Answer, results
<1>10. LET n == Len(files)
       IN /\ n \in 0 .. Len(results) /\ \A k \in 1 .. n : files[k] = results[k]
          /\ files \in Seq(Range(slot))
          /\ n > 0 => Emitted(files)[n - 1] < MaxMatches
          /\ reply'.truncated <=> n < Len(results)
          /\ reply'.truncated => Emitted(files)[n] >= MaxMatches
  BY <1>6, <1>8, <1>9, CutKeepsCap
<1>11. \A k \in 1 .. Len(files) : files[k] = slot[place[k]]
  BY <1>6, <1>7, <1>10
<1> QED BY <1>1, <1>3, <1>6, <1>7, <1>9, <1>10, <1>11 DEF results

\* An answer is in path order and stops at the cap.
ReplyKeepsCap ==
    reply.code = "ok" =>
        LET n == Len(reply.files)
        IN /\ \A k \in 1 .. n : \A j \in 1 .. k - 1 :
                 Place(reply.files[j].path) < Place(reply.files[k].path)
           /\ n \in Nat
           /\ n > 0 => Emitted(reply.files)[n - 1] < MaxMatches
           /\ reply.truncated => Emitted(reply.files)[n] >= MaxMatches

LEMMA CapStep ==
    ASSUME TypeOK, PhaseFits, SlotsFit, SlotsHaveOneWriter, ListOrdered, ReplyKeepsCap, [Next]_vars
    PROVE  ListOrdered' /\ ReplyKeepsCap'
<1>1. CASE UNCHANGED <<list, reply>>
  BY <1>1 DEF ListOrdered, ReplyKeepsCap
<1>2. CASE Collect
  BY <1>2, CollectOrders DEF Collect, ReplyKeepsCap
<1>3. CASE Answer
  <2>1. ListOrdered'
    BY <1>3 DEF Answer, ListOrdered
  <2> DEFINE files == reply'.files
             results == Picked(slot, {r \in Range(slot) : r.inc})
  <2>2. PICK place :
          /\ Len(files) \in Nat /\ Len(files) <= Len(results) /\ Len(results) \in Nat
          /\ place \in [1 .. Len(results) -> 1 .. Len(list)]
          /\ \A k \in 1 .. Len(results) : \A j \in 1 .. k - 1 : place[j] < place[k]
          /\ \A k \in 1 .. Len(files) : files[k] = slot[place[k]]
    <3>1. Len(results) \in Nat
      BY <1>3, AnswerFromSlots, Zenon
    <3>2. /\ Len(files) \in 0 .. Len(results)
          /\ \E place :
               /\ place \in [1 .. Len(results) -> 1 .. Len(list)]
               /\ \A k \in 1 .. Len(results) : slot[place[k]].inc
               /\ \A k \in 1 .. Len(results) : \A j \in 1 .. k - 1 : place[j] < place[k]
               /\ \A i \in 1 .. Len(list) : slot[i].inc => \E k \in 1 .. Len(results) : place[k] = i
               /\ \A k \in 1 .. Len(files) : files[k] = slot[place[k]]
      BY <1>3, AnswerFromSlots, Zenon
    <3>3. Len(files) \in Nat /\ Len(files) <= Len(results)
      <4> HIDE DEF results, files
      <4> QED BY <3>1, <3>2
    <3> HIDE DEF results, files
    <3> QED BY <3>1, <3>2, <3>3
  <2>3. \A k \in 1 .. Len(list) : slot[k].path = list[k]
    BY <1>3, AnswerFromSlots DEF Fits
  <2>4. \A k \in 1 .. Len(files) : \A j \in 1 .. k - 1 : Place(files[j].path) < Place(files[k].path)
    <3> TAKE k \in 1 .. Len(files)
    <3> TAKE j \in 1 .. k - 1
    <3> HIDE DEF files, results
    <3>1. j \in 1 .. Len(files) /\ k \in 1 .. Len(results) /\ j \in 1 .. Len(results)
      BY <2>2
    <3>2. place[j] \in 1 .. place[k] - 1 /\ place[k] \in 1 .. Len(list) /\ place[j] \in 1 .. Len(list)
      <4>1. place[j] < place[k] /\ place[k] \in 1 .. Len(list) /\ place[j] \in 1 .. Len(list)
        BY <2>2, <3>1
      <4> QED BY <4>1
    <3>3. files[j].path = list[place[j]] /\ files[k].path = list[place[k]]
      BY <2>2, <2>3, <3>1, <3>2
    <3> QED BY <3>2, <3>3 DEF ListOrdered
  <2>5. ReplyKeepsCap'
    BY <1>3, <2>2, <2>4, AnswerFromSlots DEF ReplyKeepsCap
  <2> QED BY <2>1, <2>5
<1>4. ASSUME NEW r \in Requests, Start(r)
      PROVE  ListOrdered' /\ ReplyKeepsCap'
  <2>1. reply'.code # "ok" /\ list' = list
    BY <1>4 DEF Start, Fail, NoReply, scan
  <2> QED BY <2>1 DEF ListOrdered, ReplyKeepsCap
<1> QED
  BY <1>1, <1>2, <1>3, <1>4
     DEF Next, SearchStep, vars, scan, ReadDirectory, Visit, Take, Scan, EditFile, EditIgnoreFile,
         Remove, Create, Edit

SlotInv == SlotsFit /\ SlotsHaveOneWriter /\ ListOrdered /\ ReplyKeepsCap

LEMMA SlotInit == Init => SlotInv
BY DEF Init, SlotInv, SlotsFit, SlotsHaveOneWriter, ListOrdered, ReplyKeepsCap, NoReply

LEMMA SlotInductive == Spec => [](TypeOK /\ PhaseFits /\ SlotInv)
<1>1. TypeOK /\ PhaseFits /\ SlotInv /\ [Next]_vars => (TypeOK /\ PhaseFits /\ SlotInv)'
  BY TypeStep, SlotsStep, CapStep DEF SlotInv
<1> QED BY TypeInit, SlotInit, <1>1, PTL DEF Spec

\* However many workers share the channel of indices: no two of them fill
\* one slot, none is filled twice and none is skipped.
THEOREM OneWriterPerSlot == Spec => []SlotsHaveOneWriter
<1>1. SlotInv => SlotsHaveOneWriter
  BY DEF SlotInv
<1> QED BY SlotInductive, <1>1, PTL

\* Every answer is in path order and ends with the file that reaches the
\* cap, whatever the tree and the workers did.
THEOREM AnswersStopAtTheCap == Spec => []StopsAtTheCap
<1>1. SlotInv => StopsAtTheCap
  <2> SUFFICES ASSUME SlotInv, Answered PROVE StopsAtTheCap
    BY DEF StopsAtTheCap
  <2>1. /\ \A k \in 1 .. Len(reply.files) : \A j \in 1 .. k - 1 :
                 Place(reply.files[j].path) < Place(reply.files[k].path)
        /\ Len(reply.files) > 0 => Emitted(reply.files)[Len(reply.files) - 1] < MaxMatches
        /\ reply.truncated => Emitted(reply.files)[Len(reply.files)] >= MaxMatches
        /\ Len(reply.files) \in Nat
    BY DEF SlotInv, ReplyKeepsCap, Answered
  <2>2. \A j, k \in 1 .. Len(reply.files) : j < k => j \in 1 .. k - 1
    BY <2>1
  <2> QED BY <2>1, <2>2 DEF StopsAtTheCap, Place
<1> QED BY SlotInductive, <1>1, PTL

---------------------------------------------------------------------------
(* The Lister *)

LEMMA AboveAreDirs ==
    /\ \A p \in Paths : Above[p] \subseteq Dirs /\ \A d \in Above[p] : Above[d] \subseteq Above[p]
    /\ Dirs \subseteq Paths /\ Files \subseteq Paths
BY TreeAssumption DEF Paths

\* Whether a path is ignored is a matter of the directories it is in.
LEMMA IgnoredDepends ==
    ASSUME NEW a, NEW b, NEW p, \A d \in Above[p] : a[d] = b[d]
    PROVE  Ignored(a, p) <=> Ignored(b, p)
BY DEF Ignored

\* A Lister has come to a directory only through kept ones, and its verdicts
\* follow from what it has read.
Consistent(l) ==
    \A d \in Dirs \ {Root} :
        /\ l.seen[d] # "unknown" => \A e \in Above[d] \ {Root} : l.seen[e] = "kept"
        /\ l.seen[d] = "kept" => ~ Ignored(l.read, d)
        /\ l.seen[d] = "ignored" => Ignored(l.read, d)

LEMMA NewListerConsistent ==
    ASSUME NEW onDisk
    PROVE  Consistent(NewLister(onDisk))
BY DEF Consistent, NewLister

\* What a Lister knows of a directory it has been through is never changed.
LEMMA ConsultedKeeps ==
    ASSUME NEW l \in Lister, NEW onDisk, NEW p, NEW d \in Dirs, d = Root \/ l.seen[d] # "unknown"
    PROVE  /\ Consulted(l, onDisk, p).seen[d] = l.seen[d]
           /\ Consulted(l, onDisk, p).read[d] = l.read[d]
BY DEF Consulted, Reached, VerdictOn

\* After a consultation about p the Lister has been through the directories
\* above q, if q is p or above it and they are all kept, and has read what it
\* went by.
LEMMA ConsultedReads ==
    ASSUME NEW l \in Lister, NEW onDisk, NEW p \in Paths, NEW q \in Paths,
           Above[q] \subseteq Above[p],
           \A e \in Above[q] \ {Root} : VerdictOn(l, onDisk, e) = "kept",
           NEW d \in Above[q]
    PROVE  /\ d # Root => Consulted(l, onDisk, p).seen[d] = "kept"
           /\ Consulted(l, onDisk, p).read[d] = Known(l, onDisk)[d]
<1>1. d \in Dirs /\ Above[d] \subseteq Above[q]
  BY AboveAreDirs
<1>2. CASE d = Root
  BY <1>1, <1>2, ConsultedKeeps DEF Known
<1>3. CASE d # Root
  <2>1. d \in Reached(l, onDisk, p)
    BY <1>1, <1>3 DEF Reached
  <2>2. VerdictOn(l, onDisk, d) = "kept"
    BY <1>3
  <2> QED BY <1>1, <1>3, <2>1, <2>2 DEF Consulted, Known
<1> QED BY <1>2, <1>3

LEMMA ConsultedConsistent ==
    ASSUME NEW l \in Lister, Consistent(l), NEW onDisk, NEW p \in Paths
    PROVE  Consistent(Consulted(l, onDisk, p))
<1> DEFINE m == Consulted(l, onDisk, p)
<1> SUFFICES ASSUME NEW d \in Dirs \ {Root}
             PROVE  /\ m.seen[d] # "unknown" => \A e \in Above[d] \ {Root} : m.seen[e] = "kept"
                    /\ m.seen[d] = "kept" => ~ Ignored(m.read, d)
                    /\ m.seen[d] = "ignored" => Ignored(m.read, d)
  BY DEF Consistent
<1>1. d \in Paths /\ Above[d] \subseteq Dirs
  BY AboveAreDirs
<1>2. CASE l.seen[d] # "unknown"
  <2>1. \A e \in Above[d] : e = Root \/ l.seen[e] = "kept"
    BY <1>2 DEF Consistent
  <2>2. \A e \in Above[d] : m.read[e] = l.read[e] /\ m.seen[e] = l.seen[e]
    BY <1>1, <2>1, ConsultedKeeps
  <2>3. m.seen[d] = l.seen[d]
    BY <1>2, ConsultedKeeps
  <2>4. Ignored(m.read, d) <=> Ignored(l.read, d)
    <3> HIDE DEF m
    <3> QED BY <2>2, IgnoredDepends
  <2> HIDE DEF m
  <2> QED BY <1>2, <2>1, <2>2, <2>3, <2>4 DEF Consistent
<1>3. CASE l.seen[d] = "unknown" /\ d \in Reached(l, onDisk, p)
  <2>1. Above[d] \subseteq Above[p] /\ \A e \in Above[d] \ {Root} : VerdictOn(l, onDisk, e) = "kept"
    BY <1>3, AboveAreDirs DEF Reached
  <2>2. \A e \in Above[d] : m.read[e] = Known(l, onDisk)[e] /\ (e # Root => m.seen[e] = "kept")
    BY <1>1, <2>1, ConsultedReads
  <2>3. Ignored(m.read, d) <=> Ignored(Known(l, onDisk), d)
    <3> HIDE DEF m
    <3> QED BY <2>2, IgnoredDepends
  <2>4. m.seen[d] = IF Ignored(Known(l, onDisk), d) THEN "ignored" ELSE "kept"
    BY <1>3 DEF Consulted, VerdictOn
  <2> HIDE DEF m
  <2> QED BY <2>2, <2>3, <2>4
<1>4. CASE l.seen[d] = "unknown" /\ d \notin Reached(l, onDisk, p)
  <2>1. m.seen[d] = "unknown"
    BY <1>4 DEF Consulted
  <2> QED BY <2>1
<1> QED BY <1>2, <1>3, <1>4

\* The lister of a search is consistent, and so are the files it let through.
ListerInv == Consistent(lister) /\ OneReadingOfIgnoreFiles

\* A file that a Lister let through stays one it would let through.
Passed(l, f) == (\A d \in Above[f] \ {Root} : l.seen[d] = "kept") /\ ~ Ignored(l.read, f)

LEMMA PassedStays ==
    ASSUME NEW l \in Lister, NEW onDisk, NEW p \in Paths, NEW f \in Paths, Passed(l, f)
    PROVE  Passed(Consulted(l, onDisk, p), f)
<1> DEFINE m == Consulted(l, onDisk, p)
<1>1. \A d \in Above[f] : m.seen[d] = l.seen[d] /\ m.read[d] = l.read[d]
  BY AboveAreDirs, ConsultedKeeps DEF Passed
<1> HIDE DEF m
<1>2. Ignored(m.read, f) <=> Ignored(l.read, f)
  BY <1>1, IgnoredDepends
<1>3. Passed(m, f)
  BY <1>1, <1>2 DEF Passed
<1> QED BY <1>3 DEF m

LEMMA ListedPasses ==
    ASSUME NEW l \in Lister, NEW onDisk, NEW p \in Paths, NotIgnored(l, onDisk, p)
    PROVE  Passed(Consulted(l, onDisk, p), p)
<1> DEFINE m == Consulted(l, onDisk, p)
<1>1. \A d \in Above[p] : m.read[d] = Known(l, onDisk)[d] /\ (d # Root => m.seen[d] = "kept")
  BY ConsultedReads DEF NotIgnored
<1> HIDE DEF m
<1>2. Ignored(m.read, p) <=> Ignored(Known(l, onDisk), p)
  BY <1>1, IgnoredDepends
<1>3. Passed(m, p)
  BY <1>1, <1>2 DEF Passed, NotIgnored
<1> QED BY <1>3 DEF m

LEMMA ListerStep ==
    ASSUME TypeOK, PhaseFits, ListerInv, [Next]_vars
    PROVE  ListerInv'
<1> USE DEF ListerInv
<1>0. OneReadingOfIgnoreFiles <=> (policy.gitignore => \A f \in found : Passed(lister, f))
  BY DEF OneReadingOfIgnoreFiles, Passed
<1>1. CASE UNCHANGED <<policy, lister, found>>
  BY <1>1 DEF OneReadingOfIgnoreFiles
<1>2. ASSUME NEW r \in Requests, Start(r)
      PROVE  ListerInv'
  <2>1. CASE UNCHANGED <<policy, lister, found>>
    BY <1>1, <2>1
  <2>2. CASE phase = "idle" /\ found' = found /\ lister' = NewLister(patterns)
    BY <2>2, NewListerConsistent DEF PhaseFits, OneReadingOfIgnoreFiles
  <2> QED BY <1>2, <2>1, <2>2 DEF Start, Fail, disk, walk
<1>3. ASSUME NEW p \in Paths, Visit(p)
      PROVE  ListerInv'
  <2>1. lister \in Lister /\ policy' = policy
    BY <1>3 DEF TypeOK, Visit, disk
  <2>2. CASE lister' = lister
    <3>1. policy.gitignore => \A f \in found' \ found : f = p /\ p \in Files /\ Listed(policy, lister, patterns, p, p \in Dirs)
      BY <1>3 DEF Visit
    <3>2. CASE policy.gitignore /\ found' # found
      <4>1. PICK f \in found' : f \notin found
        BY <1>3, <3>2 DEF Visit
      <4>2. p \in Files /\ Listed(policy, lister, patterns, p, p \in Dirs)
        BY <3>1, <3>2, <4>1
      <4>3. lister' = Consulted(lister, patterns, p)
        BY <1>3, <3>2, <4>2 DEF Visit, Listed
      <4>4. Passed(lister', p)
        BY <2>1, <3>2, <4>2, <4>3, ListedPasses DEF Listed
      <4>5. \A g \in found' : Passed(lister', g)
        BY <1>0, <2>2, <3>1, <3>2, <4>4
      <4> QED BY <2>1, <2>2, <4>5 DEF OneReadingOfIgnoreFiles, Passed
    <3>3. CASE ~ policy.gitignore \/ found' = found
      BY <2>1, <2>2, <3>3 DEF OneReadingOfIgnoreFiles
    <3> QED BY <3>2, <3>3
  <2>3. CASE lister' = Consulted(lister, patterns, p)
    <3>1. Consistent(lister')
      BY <2>1, <2>3, ConsultedConsistent
    <3>2. ASSUME policy.gitignore, NEW f \in found' PROVE Passed(lister', f)
      <4>1. CASE f \in found
        <5>1. f \in Paths /\ Passed(lister, f)
          BY <1>0, <3>2, <4>1, AboveAreDirs DEF TypeOK
        <5> QED BY <2>1, <2>3, <5>1, PassedStays
      <4>2. CASE f \notin found
        <5>1. f = p /\ NotIgnored(lister, patterns, p)
          BY <1>3, <3>2, <4>2 DEF Visit, Listed
        <5> QED BY <2>1, <2>3, <5>1, ListedPasses
      <4> QED BY <4>1, <4>2
    <3> QED BY <2>1, <3>1, <3>2 DEF OneReadingOfIgnoreFiles, Passed
  <2> QED BY <1>3, <2>2, <2>3 DEF Visit
<1>4. CASE Collect
  BY <1>4, NewListerConsistent DEF Collect, disk, OneReadingOfIgnoreFiles
<1> QED
  BY <1>1, <1>2, <1>3, <1>4
     DEF Next, SearchStep, vars, disk, walk, ReadDirectory, Take, Scan, Answer, EditFile, EditIgnoreFile,
         Remove, Create, Edit

LEMMA ListerInit == Init => ListerInv
BY NewListerConsistent DEF Init, ListerInv, OneReadingOfIgnoreFiles

\* One search goes by one reading of every ignore file, whoever edits them
\* and in whatever order its callbacks consult the Lister.
THEOREM OneReading == Spec => []OneReadingOfIgnoreFiles
<1>1. Init => ListerInv
  BY ListerInit
<1>2. TypeOK /\ PhaseFits /\ ListerInv /\ [Next]_vars => (TypeOK /\ PhaseFits /\ ListerInv)'
  BY TypeStep, ListerStep
<1>3. ListerInv => OneReadingOfIgnoreFiles
  BY DEF ListerInv
<1> QED BY TypeInit, <1>1, <1>2, <1>3, PTL DEF Spec

---------------------------------------------------------------------------
(* What the walk finds *)

\* A directory is on disk as long as something in it is.
PresentClosed == \A p \in present : Above[p] \subseteq present

\* On the way from the request's base down to p every directory is served.
OnWay(p) ==
    /\ request.base \in Above[p] \cup {p}
    /\ \A d \in Above[p] : request.base \in Above[d] => CheckDir(policy, d)

\* Whoever edits the tree, the walk is only where it may be.
WalkIsSound ==
    /\ \A d \in toRead : OnWay(d) /\ (d # request.base => CheckDir(policy, d))
    /\ \A p \in toVisit : OnWay(p) /\ (p \in Dirs => p # request.base)
    /\ \A f \in found : OnWay(f) /\ CheckFile(policy, f)

\* A visible file is collected, or the walk still has to do with it or with a
\* directory it is in.
Pending(f) ==
    \/ f \in found
    \/ \E q \in Above[f] \cup {f} : q \in toVisit
    \/ \E d \in Above[f] : d \in toRead

\* For one file: what the Lister has read of the ignore files above it is
\* what is on disk, and the file is found if it is visible and only then.
ReadsDisk(f) ==
    \A d \in Above[f] : d = Root \/ lister.seen[d] = "kept" => lister.read[d] = patterns[d]
Knows(f) ==
    /\ ReadsDisk(f)
    /\ f \in toVisit => f \in present
    /\ f \in found => Visible(f)
    /\ Visible(f) => Pending(f)

WalkTells == \A f \in Files \ touched : Knows(f)

\* What a step leaves of a file and the ignore files above it.
SameFor(f) ==
    /\ f \in present' <=> f \in present
    /\ data'[f] = data[f]
    /\ \A d \in Above[f] : patterns'[d] = patterns[d]

LEMMA SameDiskSame ==
    ASSUME UNCHANGED <<present, data, patterns>>
    PROVE  \A f : SameFor(f)
BY DEF SameFor

LEMMA VisibleStays ==
    ASSUME NEW f \in Files, UNCHANGED <<policy, request>>, SameFor(f)
    PROVE  Visible(f)' <=> Visible(f)
<1>1. \A p \in Above[f] \cup {f} : Ignored(patterns', p) <=> Ignored(patterns, p)
  <2> TAKE p \in Above[f] \cup {f}
  <2>1. Above[p] \subseteq Above[f]
    BY AboveAreDirs
  <2> QED BY <2>1, IgnoredDepends DEF SameFor
<1> QED BY <1>1 DEF Visible, Served, NotIgnoredOnDisk, SameFor

\* Somebody's edit changes nothing of the files it has nothing to do with.
LEMMA EditLeaves ==
    ASSUME NEW p \in Paths,
           \/ p \in Files /\ EditFile(p)
           \/ p \in Dirs /\ EditIgnoreFile(p)
           \/ Remove(p) \/ Create(p)
    PROVE  /\ UNCHANGED <<policy, phase, request, walk, scan, reply>>
           /\ \A f \in Files \ touched' : f \notin touched /\ SameFor(f)
<1>1. UNCHANGED <<policy, phase, request, walk, scan, reply>>
  BY DEF EditFile, EditIgnoreFile, Remove, Create, Edit
<1> SUFFICES ASSUME NEW f \in Files, f \notin touched' PROVE f \notin touched /\ SameFor(f)
  BY <1>1
<1>2. f \notin touched /\ p \notin Above[f] \cup {f}
  BY DEF EditFile, EditIgnoreFile, Remove, Create, Edit
<1>3. CASE p \in Files /\ EditFile(p)
  BY <1>2, <1>3 DEF EditFile, SameFor
<1>4. CASE p \in Dirs /\ EditIgnoreFile(p)
  BY <1>2, <1>4 DEF EditIgnoreFile, SameFor
<1>5. CASE Remove(p) \/ Create(p)
  BY <1>2, <1>5 DEF Remove, Create, SameFor
<1> QED BY <1>2, <1>3, <1>4, <1>5

LEMMA WalkSoundStep ==
    ASSUME TypeOK, PhaseFits, WalkIsSound, [Next]_vars
    PROVE  WalkIsSound'
<1>1. CASE UNCHANGED <<policy, request, toRead, toVisit, found>>
  BY <1>1 DEF WalkIsSound, OnWay
<1>2. ASSUME NEW r \in Requests, Start(r)
      PROVE  WalkIsSound'
  <2>1. CASE phase' = "walk"
    <3>1. /\ request' = r /\ r.base \in Dirs \cup Files /\ found' = {}
          /\ toRead' \subseteq {r.base} /\ toVisit' \subseteq {r.base} /\ policy' = policy
      BY <1>2, <2>1 DEF Start, Fail, PhaseFits, disk
    <3>2. (\A d \in Above[r.base] : r.base \notin Above[d]) /\ toVisit' \cap Dirs = {}
      BY <1>2, <2>1, <3>1, AboveAreDirs, TreeAssumption DEF Start, Fail, PhaseFits
    <3> QED BY <3>1, <3>2 DEF WalkIsSound, OnWay
  <2>2. CASE phase' # "walk"
    BY <1>1, <1>2, <2>2 DEF Start, Fail, disk, walk
  <2> QED BY <2>1, <2>2
<1>3. ASSUME NEW d \in Dirs, ReadDirectory(d)
      PROVE  WalkIsSound'
  <2>1. /\ d \in toRead /\ UNCHANGED <<policy, request, found>> /\ toRead' \subseteq toRead
        /\ \A p \in toVisit' : p \in toVisit \/ (p \in present /\ Above[p] = Above[d] \cup {d})
    BY <1>3 DEF ReadDirectory, disk
  <2>2. d \notin Above[d]
    BY AboveAreDirs, TreeAssumption
  <2>3. ASSUME NEW p \in Paths, Above[p] = Above[d] \cup {d} PROVE OnWay(p) /\ p # request.base
    <3>1. OnWay(p) /\ request.base \in Above[p]
      BY <2>1, <2>2, <2>3 DEF WalkIsSound, OnWay
    <3>2. p \notin Above[p]
      BY TreeAssumption
    <3> QED BY <3>1, <3>2
  <2>4. present \subseteq Paths
    BY DEF TypeOK
  <2> QED BY <2>1, <2>3, <2>4 DEF WalkIsSound, OnWay
<1>4. ASSUME NEW p \in Paths, Visit(p)
      PROVE  WalkIsSound'
  <2> DEFINE listed == Listed(policy, lister, patterns, p, p \in Dirs)
  <2>1. /\ p \in toVisit /\ toVisit' = toVisit \ {p}
        /\ toRead' = IF p \in Dirs /\ listed THEN toRead \cup {p} ELSE toRead
        /\ found' = IF p \in Files /\ listed THEN found \cup {p} ELSE found
        /\ UNCHANGED <<policy, request>>
    BY <1>4 DEF Visit, disk
  <2>2. (p \in Dirs /\ listed => CheckDir(policy, p)) /\ (p \in Files /\ listed => CheckFile(policy, p))
    BY TreeAssumption DEF Listed, Check
  <2> HIDE DEF listed
  <2> QED BY <2>1, <2>2 DEF WalkIsSound, OnWay
<1>5. CASE Collect
  BY <1>5 DEF Collect, disk, WalkIsSound, OnWay
<1> QED
  BY <1>1, <1>2, <1>3, <1>4, <1>5
     DEF Next, SearchStep, vars, disk, walk, Take, Scan, Answer, EditFile, EditIgnoreFile,
         Remove, Create, Edit


\* Between a directory and a path in it there is the path's next step down.
LEMMA NextStepDown ==
    ASSUME NEW f \in Paths, NEW d \in Above[f]
    PROVE  \E q \in Above[f] \cup {f} : Above[q] = Above[d] \cup {d}
<1> DEFINE C == {q \in Above[f] \cup {f} : d \in Above[q]}
           Sizes == {Cardinality(Above[q]) : q \in C}
<1>1. \A q \in C : q \in Paths /\ IsFiniteSet(Above[q]) /\ Cardinality(Above[q]) \in Nat
  BY AboveAreDirs, TreeAssumption, FS_CardinalityType
<1>2. PICK n \in Sizes : \A m \in Sizes : n <= m
  <2>1. Sizes \subseteq Nat /\ Sizes # {}
    BY <1>1
  <2> HIDE DEF Sizes
  <2> QED BY <2>1, LeastNumber
<1>3. PICK q \in C : n = Cardinality(Above[q])
  BY <1>2
<1>4. q \in Paths /\ d \in Above[q] /\ Above[d] \subseteq Above[q] /\ Above[q] \subseteq Above[f]
  BY <1>1, <1>3, AboveAreDirs
<1>5. ASSUME NEW x \in Above[q], x # d, x \notin Above[d] PROVE FALSE
  <2>1. d \in Above[x] /\ x \in Paths /\ Above[x] \subseteq Above[q]
    BY <1>4, <1>5, AboveAreDirs, TreeAssumption
  <2>2. x \in C /\ x \notin Above[x]
    BY <1>4, <2>1, TreeAssumption
  <2>3. Cardinality(Above[q]) <= Cardinality(Above[x])
    BY <1>2, <1>3, <2>2
  <2>4. /\ Cardinality(Above[x]) <= Cardinality(Above[q])
        /\ Cardinality(Above[q]) = Cardinality(Above[x]) => Above[q] = Above[x]
    BY <1>1, <1>3, <2>1, FS_Subset
  <2>5. Above[q] = Above[x]
    BY <1>1, <1>3, <2>2, <2>3, <2>4
  <2> QED BY <2>2, <2>5
<1> QED BY <1>3, <1>4, <1>5


\* As long as nobody edits the ignore files above f, the Lister's answer about
\* f or a directory it is in does not depend on what it was asked before.
LEMMA ListerTellsDisk ==
    ASSUME TypeOK, Consistent(lister), NEW f \in Files, ReadsDisk(f), NEW p \in Above[f] \cup {f}
    PROVE  NotIgnored(lister, patterns, p) <=> \A q \in Above[p] \cup {p} : ~ Ignored(patterns, q)
<1> DEFINE V(e) == VerdictOn(lister, patterns, e)
           K == Known(lister, patterns)
<1>0. p \in Paths /\ Above[p] \subseteq Above[f] /\ Above[f] \subseteq Dirs
  BY AboveAreDirs
<1>1. \A d \in Above[f] : lister.seen[d] # "ignored" => K[d] = patterns[d]
  BY <1>0 DEF Known, ReadsDisk, TypeOK, Lister, Verdict
<1>2. K[Root] = patterns[Root] /\ Above[Root] = {} /\ ~ Ignored(patterns, Root)
  <2>1. Root \in Above[f]
    BY TreeAssumption, AboveAreDirs
  <2> QED BY <2>1, TreeAssumption DEF Known, ReadsDisk, Ignored
<1>3. \A d \in Above[f] \ {Root} : lister.seen[d] # "unknown" => (Ignored(patterns, d) <=> Ignored(lister.read, d))
  <2> TAKE d \in Above[f] \ {Root}
  <2> HAVE lister.seen[d] # "unknown"
  <2>1. \A e \in Above[d] : lister.read[e] = patterns[e]
    BY AboveAreDirs DEF Consistent, ReadsDisk
  <2> QED BY <2>1, IgnoredDepends
<1>4. \A d \in Above[f] \ {Root} :
        /\ lister.seen[d] = "ignored" => Ignored(patterns, d)
        /\ lister.seen[d] = "kept" => ~ Ignored(patterns, d)
  BY <1>0, <1>3 DEF Consistent
<1>5. ASSUME NEW q \in Above[p] \cup {p}, \A e \in Above[q] \ {Root} : lister.seen[e] # "ignored"
      PROVE  Ignored(K, q) <=> Ignored(patterns, q)
  <2>1. Above[q] \subseteq Above[f]
    BY <1>0, AboveAreDirs
  <2>2. \A e \in Above[q] : K[e] = patterns[e]
    BY <1>1, <1>2, <1>5, <2>1
  <2> HIDE DEF K
  <2> QED BY <2>2, IgnoredDepends
<1>6. ASSUME NotIgnored(lister, patterns, p), NEW q \in Above[p] \cup {p}
      PROVE  ~ Ignored(patterns, q)
  <2>1. \A e \in Above[p] \ {Root} : V(e) = "kept" /\ lister.seen[e] # "ignored"
    BY <1>6 DEF NotIgnored, VerdictOn
  <2>2. Above[q] \subseteq Above[p]
    BY <1>0, AboveAreDirs
  <2>3. Ignored(K, q) <=> Ignored(patterns, q)
    BY <1>5, <2>1, <2>2
  <2>4. CASE q = p
    BY <1>6, <2>3, <2>4 DEF NotIgnored
  <2>5. CASE q = Root
    BY <1>2, <2>5
  <2>6. CASE q \in Above[p] \ {Root}
    <3>1. q \in Above[f] \ {Root}
      BY <1>0, <2>6
    <3>2. CASE lister.seen[q] = "unknown"
      BY <2>1, <2>3, <2>6, <3>2 DEF VerdictOn
    <3>3. CASE lister.seen[q] # "unknown"
      BY <1>4, <2>1, <2>6, <3>1, <3>3 DEF VerdictOn
    <3> QED BY <3>2, <3>3
  <2> QED BY <2>4, <2>5, <2>6
<1>7. ASSUME \A q \in Above[p] \cup {p} : ~ Ignored(patterns, q)
      PROVE  NotIgnored(lister, patterns, p)
  <2>1. \A e \in Above[p] \ {Root} : lister.seen[e] # "ignored"
    BY <1>0, <1>4, <1>7
  <2>2. \A e \in Above[p] \ {Root} : V(e) = "kept"
    <3> TAKE e \in Above[p] \ {Root}
    <3>1. e \in Dirs /\ Above[e] \subseteq Above[p]
      BY <1>0, AboveAreDirs
    <3>2. ~ Ignored(K, e)
      BY <1>5, <1>7, <2>1, <3>1
    <3>3. lister.seen[e] \in {"unknown", "kept"}
      BY <2>1, <3>1 DEF TypeOK, Lister, Verdict
    <3> QED BY <3>2, <3>3 DEF VerdictOn
  <2>3. ~ Ignored(K, p)
    BY <1>5, <1>7, <2>1
  <2> QED BY <2>2, <2>3 DEF NotIgnored
<1> QED BY <1>6, <1>7

\* Such a path is let through just when it is served and not ignored on disk.
LEMMA ListedTellsDisk ==
    ASSUME TypeOK, Consistent(lister), NEW f \in Files, ReadsDisk(f), NEW p \in Above[f] \cup {f}
    PROVE  Listed(policy, lister, patterns, p, p \in Dirs)
           <=> Check(policy, p, p \in Dirs) /\ NotIgnoredOnDisk(p)
BY ListerTellsDisk DEF Listed, NotIgnoredOnDisk

LEMMA StartWalks ==
    ASSUME TypeOK, PhaseFits, NEW r \in Requests, Start(r), phase' = "walk"
    PROVE  WalkTells'
<1>1. /\ request' = r /\ lister' = NewLister(patterns)
      /\ toRead' = {r.base} \cap Dirs /\ toVisit' = {r.base} \cap Files /\ found' = {}
      /\ UNCHANGED <<policy, present, data, patterns>> /\ r.base \in present
  BY DEF Start, Fail, PhaseFits, disk
<1> SUFFICES ASSUME NEW f \in Files PROVE Knows(f)'
  BY DEF WalkTells
<1>2. ReadsDisk(f)'
  BY <1>1, AboveAreDirs DEF ReadsDisk, NewLister
<1>3. Visible(f)' => Pending(f)'
  <2> HAVE Visible(f)'
  <2>1. r.base \in Above[f] \cup {f}
    BY <1>1 DEF Visible, Served
  <2>2. Above[f] \subseteq Dirs
    BY AboveAreDirs
  <2> QED BY <1>1, <2>1, <2>2 DEF Pending
<1> QED BY <1>1, <1>2, <1>3 DEF Knows

LEMMA ReadDirectoryWalks ==
    ASSUME TypeOK, PresentClosed, WalkTells, NEW d \in Dirs, ReadDirectory(d)
    PROVE  WalkTells'
<1> DEFINE new == {p \in present : Above[p] = Above[d] \cup {d}}
<1>1. /\ d \in toRead /\ toRead' = toRead \ {d} /\ toVisit' = toVisit \cup new
      /\ UNCHANGED <<policy, present, data, patterns, request, lister, found, touched>>
  BY DEF ReadDirectory, disk, observed
<1> SUFFICES ASSUME NEW f \in Files \ touched PROVE Knows(f)'
  BY <1>1 DEF WalkTells
<1>2. Knows(f)
  BY DEF WalkTells
<1>3. Visible(f)' <=> Visible(f)
  BY <1>1, SameDiskSame, VisibleStays
<1>4. Visible(f) => Pending(f)'
  <2> HAVE Visible(f)
  <2>1. f \in Paths /\ f \in present /\ Above[f] \subseteq present
    BY AboveAreDirs DEF Visible, Served, PresentClosed
  <2>2. CASE d \in Above[f]
    <3>1. PICK q \in Above[f] \cup {f} : Above[q] = Above[d] \cup {d}
      BY <2>1, <2>2, NextStepDown
    <3>2. q \in new
      BY <2>1, <3>1
    <3> QED BY <1>1, <3>1, <3>2 DEF Pending
  <2>3. CASE d \notin Above[f]
    BY <1>1, <1>2, <2>3 DEF Pending, Knows
  <2> QED BY <2>2, <2>3
<1> QED BY <1>1, <1>2, <1>3, <1>4 DEF Knows, ReadsDisk

LEMMA VisitWalks ==
    ASSUME TypeOK, Consistent(lister), WalkIsSound, WalkTells, NEW p \in Paths, Visit(p)
    PROVE  WalkTells'
<1> DEFINE listed == Listed(policy, lister, patterns, p, p \in Dirs)
<1>1. /\ p \in toVisit /\ toVisit' = toVisit \ {p}
      /\ toRead' = IF p \in Dirs /\ listed THEN toRead \cup {p} ELSE toRead
      /\ found' = IF p \in Files /\ listed THEN found \cup {p} ELSE found
      /\ lister' = lister \/ lister' = Consulted(lister, patterns, p)
      /\ UNCHANGED <<policy, present, data, patterns, request, touched>>
  BY DEF Visit, disk, observed
<1> SUFFICES ASSUME NEW f \in Files \ touched PROVE Knows(f)'
  BY <1>1 DEF WalkTells
<1>2. Knows(f) /\ ReadsDisk(f)
  BY DEF WalkTells, Knows
<1>3. p \in Above[f] \cup {f} => (listed <=> Check(policy, p, p \in Dirs) /\ NotIgnoredOnDisk(p))
  BY <1>2, ListedTellsDisk
<1> HIDE DEF listed
<1>4. ReadsDisk(f)'
  <2>1. CASE lister' = lister
    BY <1>1, <1>2, <2>1 DEF ReadsDisk
  <2>2. CASE lister' = Consulted(lister, patterns, p)
    <3> SUFFICES ASSUME NEW d \in Above[f], d = Root \/ lister'.seen[d] = "kept"
                 PROVE  lister'.read[d] = patterns[d]
      BY <1>1 DEF ReadsDisk
    <3>0. d \in Dirs
      BY AboveAreDirs
    <3>1. CASE d = Root \/ lister.seen[d] # "unknown"
      <4>1. lister'.seen[d] = lister.seen[d] /\ lister'.read[d] = lister.read[d]
        BY <2>2, <3>0, <3>1, ConsultedKeeps DEF TypeOK
      <4> QED BY <1>2, <4>1 DEF ReadsDisk
    <3>2. CASE d # Root /\ lister.seen[d] = "unknown"
      BY <2>2, <3>0, <3>2 DEF Consulted
    <3> QED BY <3>1, <3>2
  <2> QED BY <1>1, <2>1, <2>2
<1>5. Visible(f)' <=> Visible(f)
  BY <1>1, SameDiskSame, VisibleStays
<1>6. f \notin Dirs
  BY TreeAssumption
<1>7. f \in found' => Visible(f)
  <2>1. CASE f \in found
    BY <1>2, <2>1 DEF Knows
  <2>2. CASE f = p /\ listed
    <3>1. f \in present /\ OnWay(f)
      BY <1>1, <1>2, <2>2 DEF Knows, WalkIsSound
    <3> QED BY <1>3, <1>6, <2>2, <3>1 DEF Check, Visible, Served, OnWay
  <2> QED BY <1>1, <2>1, <2>2
<1>8. Visible(f) => Pending(f)'
  <2> HAVE Visible(f)
  <2>1. Pending(f)
    BY <1>2 DEF Knows
  <2>2. CASE p = f
    <3>1. listed
      BY <1>3, <1>6, <2>2 DEF Check, Visible, Served
    <3> QED BY <1>1, <2>2, <3>1 DEF Pending
  <2>3. CASE p \in Above[f]
    <3>1. p \in Dirs /\ Above[p] \subseteq Above[f] /\ p # f
      BY <1>6, <2>3, AboveAreDirs
    <3>2. request.base \in Above[p] \cup {p}
      BY <1>1 DEF WalkIsSound, OnWay
    <3>3. CASE request.base \in Above[p]
      <4>1. CheckDir(policy, p) /\ NotIgnoredOnDisk(p)
        BY <2>3, <3>1, <3>3 DEF Visible, Served, NotIgnoredOnDisk
      <4>2. p \in toRead'
        BY <1>1, <1>3, <2>3, <3>1, <4>1 DEF Check
      <4> QED BY <2>3, <4>2 DEF Pending
    <3>4. request.base # p
      BY <1>1, <3>1 DEF WalkIsSound
    <3> QED BY <3>2, <3>3, <3>4
  <2>4. CASE p \notin Above[f] \cup {f}
    BY <1>1, <2>1, <2>4 DEF Pending
  <2> QED BY <2>2, <2>3, <2>4
<1> QED BY <1>1, <1>2, <1>4, <1>5, <1>7, <1>8 DEF Knows

\* In the scan, of one file: it is a candidate just when it is visible and
\* matches the glob, and its slot, once filled, tells the truth about it.
TellsMatches(r, f) ==
    /\ r.matches \cup r.metadataMatches = IF request.matches THEN HitLines(f) ELSE {}
    /\ r.metadataMatches = {l \in HitLines(f) \cap r.metadataMatches : InFence(f, l)}
    /\ \A l \in r.matches : ~ InFence(f, l)

TellsTruth(r, f) == (r.inc <=> Satisfies(f)) /\ (r.inc => TellsMatches(r, f))

ScanTells(f) ==
    /\ (\E k \in DOMAIN list : list[k] = f) <=> f \in request.glob /\ Visible(f)
    /\ \A k \in DOMAIN list : list[k] = f /\ slot[k].out => TellsTruth(slot[k], f)

ScanInv ==
    /\ \A k \in DOMAIN list : list[k] \in request.glob
    /\ \A f \in Files \ touched : ScanTells(f)

\* The candidates are what was found of the glob.
LEMMA CollectPicks ==
    ASSUME TypeOK, Collect
    PROVE  \A f \in Files : (\E k \in DOMAIN list' : list'[k] = f) <=> f \in found \cap request.glob
<1> DEFINE S == found \cap request.glob
<1>1. PICK place : PlacedBy(place, Len(list'), list', Order, Len(Order), S)
  BY PickedInOrder, OrderAssumption DEF Collect
<1>2. list' \in Seq(Files) /\ DOMAIN list' = 1 .. Len(list')
  BY PickedType, OrderAssumption DEF Collect
<1> HIDE DEF S
<1> SUFFICES ASSUME NEW f \in Files
             PROVE  (\E k \in DOMAIN list' : list'[k] = f) <=> f \in S
  BY DEF S
<1>3. ASSUME f \in S PROVE \E k \in DOMAIN list' : list'[k] = f
  <2>1. Place(f) \in 1 .. Len(Order) /\ Order[Place(f)] = f
    BY OrderPlaces
  <2>2. PICK k \in 1 .. Len(list') : place[k] = Place(f)
    BY <1>1, <1>3, <2>1 DEF PlacedBy
  <2>3. list'[k] = f
    BY <1>1, <2>1, <2>2 DEF PlacedBy
  <2> QED BY <1>2, <2>3
<1>4. \A k \in DOMAIN list' : list'[k] \in S
  BY <1>1, <1>2 DEF PlacedBy
<1> QED BY <1>3, <1>4

LEMMA CollectLists ==
    ASSUME TypeOK, PhaseFits, WalkTells, Collect
    PROVE  ScanInv'
<1>1. /\ UNCHANGED <<policy, present, data, patterns, request, touched>>
      /\ toVisit = {} /\ toRead = {} /\ \A k \in DOMAIN list' : ~ slot'[k].out
  BY DEF Collect, disk, observed, Empty
<1>2. ASSUME NEW f \in Files \ touched PROVE ScanTells(f)'
  <2>1. f \in found <=> Visible(f)
    BY <1>1 DEF WalkTells, Knows, Pending
  <2>2. Visible(f)' <=> Visible(f)
    BY <1>1, SameDiskSame, VisibleStays
  <2>3. (\E k \in DOMAIN list' : list'[k] = f) <=> f \in found \cap request.glob
    BY CollectPicks
  <2> QED BY <1>1, <2>1, <2>2, <2>3 DEF ScanTells
<1>3. \A k \in DOMAIN list' : list'[k] \in request.glob
  <2>1. list' \in Seq(Files)
    BY PickedType, OrderAssumption DEF Collect
  <2>2. \A k \in DOMAIN list' : list'[k] \in Files
    BY <2>1, ElementOfSeq
  <2> QED BY <2>2, CollectPicks
<1> QED BY <1>1, <1>2, <1>3 DEF ScanInv

---------------------------------------------------------------------------
(* One scan *)

\* Predicates for which the compiler's choices cannot matter: a plain text;
\* an expression that is its own literal; and one that is run as an
\* expression on each line, either after a filter for a token that all its
\* matches have, or, on the whole body, without an anchor.
PlainPredicate(p) ==
    \/ p.fixed /\ p.exact
    \/ /\ p.exact /\ p.rune # NoToken /\ p.source = p.rune
       /\ p.lang = {p.rune} /\ p.anchor = "none"
    \/ /\ ~ (p.exact /\ (p.fixed \/ p.rune # NoToken))
       /\ IF p.fold \/ p.need = NoToken THEN p.anchor = "none" ELSE p.lang \subseteq {p.need}

\* The two ways to look for a matcher on one line after another.
LEMMA ScanByLine ==
    ASSUME NEW m, NEW lines
    PROVE  /\ ~ m.regexp => ScanBytes(lines, m) = {k \in DOMAIN lines : HasToken(lines[k], m.literal)}
           /\ m.regexp /\ m.literal # NoToken =>
                ScanBytes(lines, m) = {k \in DOMAIN lines : HasToken(lines[k], m.literal) /\ ExpressionMatches(m, lines[k])}
           /\ m.regexp /\ m.literal = NoToken /\ m.anchor = "none" =>
                ScanBytes(lines, m) = {k \in DOMAIN lines : ExpressionMatches(m, lines[k])}
<1>1. ASSUME ~ m.regexp
      PROVE  ScanBytes(lines, m) = {k \in DOMAIN lines : HasToken(lines[k], m.literal)}
  BY <1>1, Zenon DEF ScanBytes
<1>2. ASSUME m.regexp, m.literal # NoToken
      PROVE  ScanBytes(lines, m) = {k \in DOMAIN lines : HasToken(lines[k], m.literal) /\ ExpressionMatches(m, lines[k])}
  BY <1>2, Zenon DEF ScanBytes
<1>3. ASSUME m.regexp, m.literal = NoToken, m.anchor = "none"
      PROVE  ScanBytes(lines, m) = {k \in DOMAIN lines : ExpressionMatches(m, lines[k])}
  <2>1. ScanBytes(lines, m) = ScanWholeRegex(lines, m)
    BY <1>3, Zenon DEF ScanBytes
  <2>2. m.anchor # "start" /\ m.anchor # "end"
    BY <1>3
  <2> QED BY <2>1, <2>2, Zenon DEF ScanWholeRegex
<1> QED BY <1>1, <1>2, <1>3, Zenon

\* Such a predicate finds the lines it holds of.
LEMMA PlainPredicatesFind ==
    ASSUME NEW p \in Predicate, PlainPredicate(p), NEW lines
    PROVE  ScanBytes(lines, CompileMatcher(p)) = {k \in DOMAIN lines : Holds(p, lines[k])}
<1> DEFINE m == CompileMatcher(p)
<1>0. p.fixed \in BOOLEAN /\ p.exact \in BOOLEAN /\ p.fold \in BOOLEAN
  BY DEF Predicate
<1>1. CASE p.fixed /\ p.exact
  <2>1. m = [regexp |-> FALSE, lang |-> {}, anchor |-> "none", literal |-> p.source]
    BY <1>0, <1>1 DEF CompileMatcher
  <2>2. ~ m.regexp /\ m.literal = p.source
    BY <2>1
  <2>3. \A line : HasToken(line, p.source) <=> Holds(p, line)
    BY <1>1, Zenon DEF Holds
  <2> HIDE DEF m
  <2>4. ScanBytes(lines, m) = {k \in DOMAIN lines : HasToken(lines[k], p.source)}
    BY <2>2, ScanByLine
  <2> QED BY <2>3, <2>4, Zenon DEF m
<1>2. CASE p.exact /\ ~ p.fixed /\ p.rune # NoToken /\ p.source = p.rune /\ p.lang = {p.rune} /\ p.anchor = "none"
  <2>1. ~ m.regexp /\ m.literal = p.source
    BY <1>0, <1>2 DEF CompileMatcher
  <2>2. \A line : HasToken(line, p.source) <=> Holds(p, line)
    BY <1>2 DEF HasToken, Holds, ExpressionMatches, At
  <2> HIDE DEF m
  <2>3. ScanBytes(lines, m) = {k \in DOMAIN lines : HasToken(lines[k], p.source)}
    BY <2>1, ScanByLine
  <2> QED BY <2>2, <2>3, Zenon DEF m
<1>3. CASE ~ (p.exact /\ (p.fixed \/ p.rune # NoToken))
           /\ IF p.fold \/ p.need = NoToken THEN p.anchor = "none" ELSE p.lang \subseteq {p.need}
  <2>1. m = [regexp |-> TRUE, lang |-> p.lang, anchor |-> p.anchor,
             literal |-> IF p.fold THEN NoToken ELSE p.need]
    BY <1>0, <1>3 DEF CompileMatcher
  <2>2. \A line : Holds(p, line) <=> ExpressionMatches(m, line)
    BY <1>3, <2>1 DEF Holds, ExpressionMatches
  <2>3. CASE p.fold \/ p.need = NoToken
    <3>1. m.regexp /\ m.literal = NoToken /\ m.anchor = "none"
      BY <1>3, <2>1, <2>3
    <3> HIDE DEF m
    <3>2. ScanBytes(lines, m) = {k \in DOMAIN lines : ExpressionMatches(m, lines[k])}
      BY <3>1, ScanByLine
    <3> QED BY <2>2, <3>2, Zenon DEF m
  <2>4. CASE ~ (p.fold \/ p.need = NoToken)
    <3>1. m.regexp /\ m.literal # NoToken /\ m.literal = p.need /\ m.lang = p.lang /\ m.anchor = p.anchor
      BY <2>1, <2>4
    <3>2. \A line : ExpressionMatches(m, line) => HasToken(line, m.literal)
      <4> TAKE line
      <4> HAVE ExpressionMatches(m, line)
      <4>1. PICK k \in At(line, m.anchor) : line[k] \in m.lang
        BY DEF ExpressionMatches
      <4>2. k \in DOMAIN line
        BY DEF At
      <4>3. line[k] = p.need
        BY <1>3, <2>4, <3>1, <4>1
      <4> QED BY <3>1, <4>2, <4>3 DEF HasToken
    <3> HIDE DEF m
    <3>3. ScanBytes(lines, m) = {k \in DOMAIN lines : HasToken(lines[k], m.literal) /\ ExpressionMatches(m, lines[k])}
      BY <3>1, ScanByLine
    <3> QED BY <2>2, <3>2, <3>3, Zenon DEF m
  <2> QED BY <2>3, <2>4
<1> QED BY <1>1, <1>2, <1>3 DEF PlainPredicate

\* The lines between the fences.
LEMMA FenceEncloses ==
    ASSUME NEW lines \in Seq(Line), NEW l \in DOMAIN lines
    PROVE  (l > 1 /\ l < FenceEnd(lines))
           <=> /\ l > 1 /\ IsFence(lines[1])
               /\ \E e \in DOMAIN lines : e > l /\ IsFence(lines[e])
               /\ \A e \in 2 .. l : ~ IsFence(lines[e])
<1> DEFINE Closing == {k \in 2 .. Len(lines) : IsFence(lines[k])}
<1>1. DOMAIN lines = 1 .. Len(lines) /\ Len(lines) \in Nat /\ l \in 1 .. Len(lines) /\ lines # <<>>
  OBVIOUS
<1>2. FenceEnd(lines) = IF IsFence(lines[1]) /\ Closing # {} THEN Least(Closing) ELSE 0
  BY <1>1 DEF FenceEnd
<1>3. ASSUME Closing # {}
      PROVE  Least(Closing) \in Closing /\ \A m \in Closing : Least(Closing) <= m
  <2>1. Closing \subseteq Nat
    BY <1>1
  <2>2. \E n \in Closing : \A m \in Closing : n <= m
    <3> HIDE DEF Closing
    <3> QED BY <1>3, <2>1, LeastNumber
  <2> HIDE DEF Closing
  <2> QED BY <2>2 DEF Least
<1>4. ASSUME l > 1, l < FenceEnd(lines)
      PROVE  /\ IsFence(lines[1]) /\ \E e \in DOMAIN lines : e > l /\ IsFence(lines[e])
             /\ \A e \in 2 .. l : ~ IsFence(lines[e])
  <2>1. IsFence(lines[1]) /\ Closing # {} /\ FenceEnd(lines) = Least(Closing)
    BY <1>1, <1>2, <1>4
  <2>2. FenceEnd(lines) \in Closing /\ \A m \in Closing : FenceEnd(lines) <= m
    BY <1>3, <2>1
  <2>3. \A e \in 2 .. l : ~ IsFence(lines[e])
    <3> SUFFICES ASSUME NEW e \in 2 .. l, IsFence(lines[e]) PROVE FALSE
      OBVIOUS
    <3>1. e \in Closing
      BY <1>1
    <3> QED BY <1>1, <1>4, <2>2, <3>1
  <2>4. FenceEnd(lines) \in DOMAIN lines /\ IsFence(lines[FenceEnd(lines)])
    BY <1>1, <2>2
  <2> QED BY <1>4, <2>1, <2>3, <2>4
<1>5. ASSUME l > 1, IsFence(lines[1]), NEW e \in DOMAIN lines, e > l, IsFence(lines[e]),
             \A d \in 2 .. l : ~ IsFence(lines[d])
      PROVE  l < FenceEnd(lines)
  <2>1. e \in Closing
    BY <1>1, <1>5
  <2>2. FenceEnd(lines) \in Closing
    BY <1>2, <1>3, <1>5, <2>1
  <2>3. FenceEnd(lines) \notin 2 .. l
    BY <1>5, <2>2
  <2> QED BY <1>1, <2>2, <2>3
<1> QED BY <1>4, <1>5

\* All predicates of all requests are such.
PlainRequests == \A r \in Requests : \A k \in DOMAIN r.where : PlainPredicate(r.where[k])

\* What a read that did not stop short of a file that is there leaves in its slot.
LEMMA ScanTellsTruth ==
    ASSUME TypeOK, PlainRequests, request \in Requests, NEW f \in Files, f \in present,
           NEW outcome \in ScanOne(f), ~ outcome[2]
    PROVE  TellsTruth(outcome[1], f)
<1> DEFINE lines == Seen(f, ReadCap)
           whole == data[f].lines
           where == request.where
<1>1. /\ where \in Seq(Predicate) /\ (where # <<>> => DOMAIN where # {})
      /\ \A k \in DOMAIN where : where[k] \in Predicate /\ PlainPredicate(where[k])
  <2>1. where \in Seq(Predicate)
    BY RequestAssumption
  <2>2. \A k \in DOMAIN where : where[k] \in Predicate
    BY <2>1, ElementOfSeq
  <2> QED BY <2>1, <2>2 DEF PlainRequests
<1>2. lines \in Seq(Line) /\ \A k \in DOMAIN lines : lines[k] = whole[k]
  <2>1. whole \in Seq(Line) /\ Len(whole) \in Nat
    BY DataAssumption DEF TypeOK
  <2>2. PICK n \in Nat : n <= Len(whole) /\ lines = SubSeq(whole, 1, n)
    BY <2>1, SearchAssumption DEF Seen
  <2>3. \A i \in 1 .. n : whole[i] \in Line
    BY <2>1, <2>2, ElementOfSeq
  <2>4. /\ lines \in Seq(Line) /\ Len(lines) = n
        /\ \A i \in 1 .. n : lines[i] = whole[1 + i - 1]
    <3>1. /\ SubSeq(whole, 1, n) \in Seq(Line) /\ Len(SubSeq(whole, 1, n)) = IF 1 <= n THEN n - 1 + 1 ELSE 0
          /\ \A i \in 1 .. n - 1 + 1 : SubSeq(whole, 1, n)[i] = whole[1 + i - 1]
      BY <2>3, SubSeqProperties
    <3>2. n - 1 + 1 = n /\ (IF 1 <= n THEN n - 1 + 1 ELSE 0) = n
      OBVIOUS
    <3> HIDE DEF lines, whole
    <3> QED BY <2>2, <3>1, <3>2
  <2>5. \A i \in 1 .. n : 1 + i - 1 = i
    OBVIOUS
  <2> HIDE DEF lines, whole
  <2> QED BY <2>4, <2>5
<1> DEFINE hits(k) == ScanBytes(lines, CompileMatcher(where[k]))
<1>3. \A k \in DOMAIN where : hits(k) = {l \in DOMAIN lines : Holds(where[k], whole[l])}
  <2> TAKE k \in DOMAIN where
  <2>1. hits(k) = {l \in DOMAIN lines : Holds(where[k], lines[l])}
    BY <1>1, PlainPredicatesFind
  <2> QED BY <1>2, <2>1
<1>4. Satisfies(f) <=> \A k \in DOMAIN where : ~ data[f].binary /\ hits(k) # {}
  BY <1>3 DEF Satisfies
<1>5. HitLines(f) = UNION {hits(k) : k \in DOMAIN where}
  BY <1>3 DEF HitLines
<1>6. CASE where = <<>>
  <2>1. DOMAIN where = {}
    BY <1>6
  <2>2. HitLines(f) = {} /\ Satisfies(f)
    BY <1>4, <1>5, <2>1
  <2>3. \E r, b : outcome = <<ScanMetadata(f, r), b>>
    BY <1>6, Zenon DEF ScanOne
  <2>4. PICK r, b : outcome = <<ScanMetadata(f, r), b>>
    BY <2>3
  <2>5. outcome[1] = ScanMetadata(f, r)
    BY ONLY <2>4
  <2>6. outcome[1].inc = TRUE /\ outcome[1].matches = {} /\ outcome[1].metadataMatches = {}
    BY <2>5 DEF ScanMetadata, Result
  <2> HIDE DEF lines, whole, where
  <2> QED BY <2>2, <2>6 DEF TellsTruth, TellsMatches
<1>7. CASE where # <<>> /\ data[f].binary
  <2>1. outcome = <<Excluded(f), FALSE>>
    BY <1>7, Zenon DEF ScanOne
  <2>2. outcome[1].inc = FALSE
    BY <2>1 DEF Excluded
  <2>3. ~ Satisfies(f)
    BY <1>1, <1>4, <1>7
  <2> QED BY <2>2, <2>3 DEF TellsTruth
<1>8. CASE where # <<>> /\ ~ data[f].binary
  <2>1. \E r : outcome = <<ScanContent(f, r), r # lines>>
    BY <1>8, Zenon DEF ScanOne
  <2>2. PICK r : outcome = <<ScanContent(f, r), r # lines>>
    BY <2>1
  <2>3. outcome[1] = ScanContent(f, r) /\ (outcome[2] <=> r # lines)
    <3>1. \A a, b : outcome = <<a, b>> => outcome[1] = a /\ outcome[2] = b
      OBVIOUS
    <3>2. outcome[1] = ScanContent(f, r) /\ outcome[2] = (r # lines)
      BY <2>2, <3>1, Zenon
    <3> QED BY <3>2, Zenon
  <2>4. outcome[1] = ScanContent(f, lines)
    BY <2>3, Zenon
  <2> DEFINE byLine == IF request.matches THEN UNION {hits(k) : k \in DOMAIN where} ELSE {}
             fenced == {l \in byLine : l > 1 /\ l < FenceEnd(lines)}
             fence == IF request.meta THEN Frontmatter(lines) ELSE <<>>
  <2>5. outcome[1] = IF \E k \in DOMAIN where : hits(k) = {} THEN Excluded(f)
                     ELSE Result(f, byLine \ fenced, fenced, fence)
    BY <2>4, Zenon DEF ScanContent
  <2>6. Satisfies(f) <=> ~ \E k \in DOMAIN where : hits(k) = {}
    BY <1>4, <1>8
  <2>7. CASE ~ Satisfies(f)
    <3>1. outcome[1] = Excluded(f)
      BY <2>5, <2>6, <2>7
    <3>2. outcome[1].inc = FALSE
      BY <3>1 DEF Excluded
    <3> QED BY <2>7, <3>2 DEF TellsTruth
  <2>8. CASE Satisfies(f)
    <3>1. outcome[1] = Result(f, byLine \ fenced, fenced, fence)
      BY <2>5, <2>6, <2>8
    <3>2. outcome[1].inc = TRUE /\ outcome[1].matches = byLine \ fenced /\ outcome[1].metadataMatches = fenced
      <4> HIDE DEF byLine, fenced, fence
      <4> QED BY <3>1 DEF Result
    <3>3. byLine = IF request.matches THEN HitLines(f) ELSE {}
      BY <1>5
    <3>4. \A l \in byLine : l \in DOMAIN lines /\ l \in HitLines(f)
      BY <3>3 DEF HitLines
    <3>5. \A l \in DOMAIN lines : (l > 1 /\ l < FenceEnd(lines)) <=> InFence(f, l)
      BY <1>2, FenceEncloses DEF InFence
    <3>6. fenced = {l \in byLine : InFence(f, l)}
      BY <3>4, <3>5
    <3> HIDE DEF byLine, fenced
    <3>7. TellsMatches(outcome[1], f)
      BY <3>2, <3>3, <3>4, <3>6 DEF TellsMatches
    <3> QED BY <2>8, <3>2, <3>7 DEF TellsTruth
  <2> QED BY <2>7, <2>8
<1> QED BY <1>6, <1>7, <1>8


\* The truth about a file is a matter of the request and of what is on disk
\* about it.
LEMMA TruthStays ==
    ASSUME NEW f \in Files, UNCHANGED <<policy, request>>, SameFor(f)
    PROVE  /\ Visible(f)' <=> Visible(f)
           /\ Satisfies(f)' <=> Satisfies(f)
           /\ HitLines(f)' = HitLines(f)
           /\ \A l : InFence(f, l)' <=> InFence(f, l)
           /\ \A r : TellsMatches(r, f)' <=> TellsMatches(r, f)
           /\ \A r : TellsTruth(r, f)' <=> TellsTruth(r, f)
<1>1. Seen(f, ReadCap)' = Seen(f, ReadCap) /\ data'[f] = data[f]
  BY DEF Seen, SameFor
<1>2. Satisfies(f)' <=> Satisfies(f)
  BY <1>1 DEF Satisfies
<1>3. HitLines(f)' = HitLines(f)
  BY <1>1 DEF HitLines
<1>4. \A l : InFence(f, l)' <=> InFence(f, l)
  BY <1>1 DEF InFence
<1>5. \A r : TellsMatches(r, f)' <=> TellsMatches(r, f)
  BY <1>3, <1>4 DEF TellsMatches
<1>6. \A r : TellsTruth(r, f)' <=> TellsTruth(r, f)
  BY <1>2, <1>5 DEF TellsTruth
<1> QED BY <1>2, <1>3, <1>4, <1>5, <1>6, VisibleStays

\* A worker fills a slot: with the truth, unless its file was touched.
LEMMA ScanAdds ==
    ASSUME TypeOK, PhaseFits, SlotInv, PlainRequests, ScanInv, NEW w \in Worker, Scan(w), phase = "scan"
    PROVE  ScanInv'
<1>1. /\ UNCHANGED <<policy, present, data, patterns, request, list>>
      /\ request \in Requests /\ DOMAIN slot = DOMAIN list
      /\ job[w] \in DOMAIN list /\ list[job[w]] \in Files
  <2>1. list \in Seq(Files) /\ DOMAIN list = 1 .. Len(list) /\ Len(list) \in Nat
    BY DEF TypeOK
  <2>2. job[w] \in 0 .. Len(list) /\ job[w] # 0
    BY DEF Scan, TypeOK
  <2>3. list[job[w]] \in Files
    BY <2>1, <2>2, ElementOfSeq
  <2> QED BY <2>1, <2>2, <2>3 DEF Scan, disk, PhaseFits, TypeOK
<1>2. PICK outcome \in ScanOne(list[job[w]]) :
        /\ slot' = [slot EXCEPT ![job[w]] = outcome[1]]
        /\ touched' = IF outcome[2] THEN touched \cup {list[job[w]]} ELSE touched
  BY DEF Scan
<1>3. \A k \in DOMAIN list : slot'[k] = IF k = job[w] THEN outcome[1] ELSE slot[k]
  BY <1>1, <1>2
<1>4. ASSUME NEW f \in Files \ touched' PROVE ScanTells(f)'
  <2>1. f \in Files \ touched /\ ScanTells(f)
    BY <1>2 DEF ScanInv
  <2>2. /\ Visible(f)' <=> Visible(f)
        /\ \A r : TellsTruth(r, f)' <=> TellsTruth(r, f)
    BY <1>1, SameDiskSame, TruthStays
  <2>3. list[job[w]] = f => TellsTruth(outcome[1], f)
    <3> HAVE list[job[w]] = f
    <3>1. ~ outcome[2] /\ f \in present
      BY <1>1, <1>2, <1>4, <2>1 DEF ScanTells, Visible, Served
    <3> QED BY <1>1, <1>2, <3>1, ScanTellsTruth
  <2>4. \A k \in DOMAIN list : list[k] = f /\ slot'[k].out => TellsTruth(slot'[k], f)
    BY <1>3, <2>1, <2>3 DEF ScanTells
  <2> QED BY <1>1, <2>1, <2>2, <2>4 DEF ScanTells
<1> QED BY <1>1, <1>4 DEF ScanInv

\* The answer is made of the slots.
LEMMA AnswerSays ==
    ASSUME TypeOK, PhaseFits, SlotInv, ScanInv, Answer
    PROVE  SaysWhatIsThere'
<1> DEFINE files == reply'.files
           results == Picked(slot, {r \in Range(slot) : r.inc})
           Due == {f \in request.glob : Visible(f) /\ Satisfies(f)}
           Named == {files[k].path : k \in DOMAIN files}
<1> USE DEF SlotInv
<1>1. UNCHANGED <<policy, present, data, patterns, request, touched>> /\ request \in Requests
  BY DEF Answer, disk, observed, PhaseFits
<1>2. Len(results) \in Nat /\ files \in Seq(Range(slot))
  BY AnswerFromSlots, Zenon
<1>3. PICK place :
        /\ place \in [1 .. Len(results) -> 1 .. Len(list)]
        /\ \A k \in 1 .. Len(results) : slot[place[k]].inc
        /\ \A k \in 1 .. Len(results) : \A j \in 1 .. k - 1 : place[j] < place[k]
        /\ \A i \in 1 .. Len(list) : slot[i].inc => \E k \in 1 .. Len(results) : place[k] = i
        /\ \A k \in 1 .. Len(files) : files[k] = slot[place[k]]
  BY AnswerFromSlots, Zenon
<1>4. Len(files) \in 0 .. Len(results) /\ (reply'.truncated <=> Len(files) < Len(results))
  BY AnswerFromSlots, Zenon
<1>5. \A k \in 1 .. Len(list) : Fits(slot[k], list[k]) /\ list[k] \in Files
  BY AnswerFromSlots, Zenon
<1>6. DOMAIN files = 1 .. Len(files) /\ Len(files) \in Nat
  <2> HIDE DEF files
  <2> QED BY <1>2
<1>7. \A k \in 1 .. Len(list) :
        /\ slot[k].out /\ slot[k].path = list[k] /\ list[k] \in Files /\ list[k] \in request.glob
        /\ list[k] \notin touched => Visible(list[k]) /\ TellsTruth(slot[k], list[k])
  <2>1. DOMAIN list = 1 .. Len(list)
    BY DEF TypeOK
  <2> QED BY <1>5, <2>1 DEF Fits, ScanInv, ScanTells
<1> HIDE DEF files, results
<1>8. \A k \in 1 .. Len(files) :
        /\ k \in 1 .. Len(results) /\ place[k] \in 1 .. Len(list) /\ files[k].path = list[place[k]]
        /\ files[k].path \notin touched => files[k].path \in Due /\ TellsMatches(files[k], files[k].path)
  <2> TAKE k \in 1 .. Len(files)
  <2>1. k \in 1 .. Len(results)
    BY <1>2, <1>4
  <2>2. place[k] \in 1 .. Len(list) /\ files[k] = slot[place[k]] /\ slot[place[k]].inc
    BY <1>3, <2>1
  <2> QED BY <1>7, <2>1, <2>2 DEF TellsTruth
<1>9. Named \ touched \subseteq Due
  BY <1>6, <1>8
\* A result that was cut off comes after all that are given.
<1>10. ASSUME NEW i \in 1 .. Len(results), i \notin 1 .. Len(files), NEW g \in Named
       PROVE  Before(g, list[place[i]]) /\ g # list[place[i]]
  <2>1. PICK j \in 1 .. Len(files) : g = list[place[j]] /\ j \in 1 .. Len(results)
    BY <1>6, <1>8
  <2>2. j \in 1 .. i - 1
    BY <1>2, <1>6, <1>10, <2>1
  <2>3. place[j] < place[i] /\ place[i] \in 1 .. Len(list) /\ place[j] \in 1 .. Len(list)
    BY <1>3, <2>1, <2>2
  <2>4. Place(list[place[j]]) < Place(list[place[i]])
    <3>1. place[j] \in 1 .. place[i] - 1
      BY <2>3
    <3> QED BY <2>3, <3>1 DEF ListOrdered
  <2>5. /\ Place(list[place[j]]) \in DOMAIN Order /\ Order[Place(list[place[j]])] = list[place[j]]
        /\ Place(list[place[i]]) \in DOMAIN Order /\ Order[Place(list[place[i]])] = list[place[i]]
        /\ Place(list[place[i]]) \in Nat
    <3>1. list[place[j]] \in Files /\ list[place[i]] \in Files
      BY <1>7, <2>3
    <3>2. \A f \in Files : Place(f) \in DOMAIN Order /\ Order[Place(f)] = f /\ Place(f) \in Nat
      BY OrderPlaces
    <3> QED BY <3>1, <3>2
  <2>6. Before(list[place[j]], list[place[i]])
    BY <2>4, <2>5 DEF Before
  <2>7. list[place[j]] # list[place[i]]
    BY <2>4, <2>5
  <2> QED BY <2>1, <2>6, <2>7
<1>11. ASSUME NEW f \in Due \ (Named \cup touched)
       PROVE  reply'.truncated /\ \A g \in Named : Before(g, f)
  <2>1. f \in Files
    BY <1>1, RequestAssumption
  <2>2. PICK i \in 1 .. Len(list) : list[i] = f
    <3>1. DOMAIN list = 1 .. Len(list)
      BY DEF TypeOK
    <3> QED BY <1>11, <2>1, <3>1 DEF ScanInv, ScanTells
  <2>3. slot[i].inc
    BY <1>7, <1>11, <2>2 DEF TellsTruth
  <2>4. PICK k \in 1 .. Len(results) : place[k] = i
    BY <1>3, <2>3
  <2>5. k \notin 1 .. Len(files)
    BY <1>6, <1>8, <1>11, <2>2, <2>4
  <2>6. Len(files) < Len(results)
    BY <1>2, <1>6, <2>4, <2>5
  <2> QED BY <1>4, <1>10, <2>2, <2>4, <2>5, <2>6
<1>12. ASSUME reply'.truncated
       PROVE  \E f \in request.glob \ Named : f \in Due \cup touched
  <2> DEFINE k == Len(files) + 1
             f == list[place[k]]
  <2>1. k \in 1 .. Len(results) /\ k \notin 1 .. Len(files)
    BY <1>2, <1>4, <1>6, <1>12
  <2> HIDE DEF k
  <2>2. place[k] \in 1 .. Len(list) /\ slot[place[k]].inc
    BY <1>3, <2>1
  <2>3. f \in request.glob /\ f \notin Named
    BY <1>7, <1>10, <2>1, <2>2
  <2>4. f \in Due \cup touched
    BY <1>7, <2>2, <2>3 DEF TellsTruth
  <2> QED BY <2>3, <2>4
<1>13. \A f \in Files : /\ Visible(f)' <=> Visible(f)
                        /\ Satisfies(f)' <=> Satisfies(f)
                        /\ \A r : TellsMatches(r, f)' <=> TellsMatches(r, f)
  BY <1>1, SameDiskSame, TruthStays
<1>14. {f \in request.glob : Visible(f) /\ Satisfies(f)}' = Due /\ Given' = Named
  <2>1. request.glob \subseteq Files
    BY <1>1, RequestAssumption
  <2> QED BY <1>1, <1>13, <2>1 DEF Given, files
<1>15. (\A k \in DOMAIN reply.files : reply.files[k].path \notin touched
            => TellsMatches(reply.files[k], reply.files[k].path))'
  <2>1. \A k \in DOMAIN files : /\ files[k].path \in Files
                                /\ files[k].path \notin touched => TellsMatches(files[k], files[k].path)
    BY <1>6, <1>7, <1>8
  <2> QED BY <1>1, <1>13, <2>1 DEF files
<1> HIDE DEF Due, Named
<1>16. /\ Given' \ touched' \subseteq Due
       /\ \A f \in Due \ (Given' \cup touched') : reply'.truncated /\ \A g \in Given' : Before(g, f)
       /\ reply'.truncated => \E f \in request'.glob \ Given' : f \in Due \cup touched'
  BY <1>1, <1>9, <1>11, <1>12, <1>14
<1> QED BY <1>14, <1>15, <1>16 DEF SaysWhatIsThere, TellsMatches, Before

\* What was said stays true of the files nobody touches.
LEMMA SaysStays ==
    ASSUME TypeOK, SaysWhatIsThere, request \in Requests \/ phase # "idle" \/ reply.code # "ok",
           UNCHANGED <<policy, request, reply, phase>>, touched \subseteq touched',
           \A f \in Files \ touched' : SameFor(f)
    PROVE  SaysWhatIsThere'
<1> SUFFICES ASSUME Answered' PROVE SaysWhatIsThere'
  BY DEF SaysWhatIsThere
<1> DEFINE Due == {f \in request.glob : Visible(f) /\ Satisfies(f)}
<1>1. Answered /\ Given' = Given /\ request \in Requests
  BY DEF Answered, Given
<1>2. request.glob \subseteq Files
  BY <1>1, RequestAssumption
<1>3. \A f \in Files \ touched' : /\ Visible(f)' <=> Visible(f)
                                  /\ Satisfies(f)' <=> Satisfies(f)
                                  /\ \A r : TellsMatches(r, f)' <=> TellsMatches(r, f)
  BY TruthStays
<1>4. \A f \in Files \ touched' : f \in Due' <=> f \in Due
  BY <1>3
<1>5. /\ Given \ touched \subseteq Due
      /\ \A f \in Due \ (Given \cup touched) : reply.truncated /\ \A g \in Given : Before(g, f)
      /\ reply.truncated => \E f \in request.glob \ Given : f \in Due \cup touched
      /\ \A k \in DOMAIN reply.files : reply.files[k].path \notin touched =>
            TellsMatches(reply.files[k], reply.files[k].path)
  BY <1>1 DEF SaysWhatIsThere, TellsMatches
<1>6. Given \ touched' \subseteq Due'
  BY <1>2, <1>4, <1>5
<1>7. \A f \in Due' \ (Given \cup touched') : reply.truncated /\ \A g \in Given : Before(g, f)
  <2>1. Due' \subseteq Files
    BY <1>2
  <2> QED BY <1>4, <1>5, <2>1
<1>8. reply.truncated => \E f \in request.glob \ Given : f \in Due' \cup touched'
  BY <1>2, <1>4, <1>5
<1>9. \A k \in DOMAIN reply.files : reply.files[k].path \notin touched' =>
            TellsMatches(reply.files[k], reply.files[k].path)'
  <2> TAKE k \in DOMAIN reply.files
  <2> HAVE reply.files[k].path \notin touched'
  <2>1. reply.files[k].path \in Files /\ TellsMatches(reply.files[k], reply.files[k].path)
    BY <1>2, <1>5 DEF Given
  <2> QED BY <1>3, <2>1
<1> HIDE DEF Due
<1>10. \A k \in DOMAIN reply'.files : reply'.files[k].path \notin touched' =>
            TellsMatches(reply.files[k], reply.files[k].path)'
  BY <1>9
<1> QED BY <1>1, <1>6, <1>7, <1>8, <1>10 DEF SaysWhatIsThere, TellsMatches, Before, Due

TellsInv ==
    /\ PresentClosed
    /\ WalkIsSound
    /\ phase = "walk" => WalkTells
    /\ phase = "scan" => ScanInv
    /\ SaysWhatIsThere
    /\ reply.code = "ok" => request \in Requests

LEMMA ClosedStep ==
    ASSUME TypeOK, PresentClosed, [Next]_vars
    PROVE  PresentClosed'
<1>1. CASE present' = present
  BY <1>1 DEF PresentClosed
<1>2. ASSUME NEW p \in Paths, Remove(p) PROVE PresentClosed'
  <2>1. \A q \in present : q \in Paths
    BY DEF TypeOK
  <2>2. \A q \in present' : \A d \in Above[q] : d \in present /\ d # p /\ p \notin Above[d]
    BY <1>2, <2>1, AboveAreDirs DEF Remove, PresentClosed
  <2> QED BY <1>2, <2>2 DEF Remove, PresentClosed
<1>3. ASSUME NEW p \in Paths, Create(p) PROVE PresentClosed'
  BY <1>3 DEF Create, PresentClosed
<1> QED
  BY <1>1, <1>2, <1>3
     DEF Next, SearchStep, vars, disk, Start, Fail, ReadDirectory, Visit, Collect, Take, Scan, Answer,
         EditFile, EditIgnoreFile

\* Nothing that the walk, the scan or the answer says of a file changes with
\* an edit that has nothing to do with it.
LEMMA TellsLeft ==
    ASSUME TypeOK, TellsInv,
           UNCHANGED <<policy, phase, request, walk, scan, reply>>,
           touched \subseteq touched', \A f \in Files \ touched' : SameFor(f)
    PROVE  /\ phase' = "walk" => WalkTells'
           /\ phase' = "scan" => ScanInv'
           /\ SaysWhatIsThere'
<1>1. UNCHANGED <<lister, toRead, toVisit, found, list, slot>>
  BY DEF walk, scan
<1>2. ASSUME phase = "walk", NEW f \in Files \ touched' PROVE Knows(f)'
  <2>1. Knows(f)
    BY <1>2 DEF TellsInv, WalkTells
  <2>2. SameFor(f)
    BY <1>2
  <2>3. Visible(f)' <=> Visible(f)
    BY <2>2, TruthStays
  <2> QED BY <1>1, <2>1, <2>2, <2>3 DEF Knows, ReadsDisk, Pending, SameFor
<1>3. ASSUME phase = "scan", NEW f \in Files \ touched' PROVE ScanTells(f)'
  <2>1. ScanTells(f)
    BY <1>3 DEF TellsInv, ScanInv
  <2>2. (Visible(f)' <=> Visible(f)) /\ \A r : TellsTruth(r, f)' <=> TellsTruth(r, f)
    BY <1>3, TruthStays
  <2> QED BY <1>1, <2>1, <2>2 DEF ScanTells
<1>4. phase = "scan" => \A k \in DOMAIN list' : list'[k] \in request'.glob
  BY <1>1 DEF TellsInv, ScanInv
<1>5. SaysWhatIsThere'
  BY SaysStays DEF TellsInv
<1> QED BY <1>2, <1>3, <1>4, <1>5 DEF WalkTells, ScanInv

LEMMA TellsStep ==
    ASSUME TypeOK, PhaseFits, SlotInv, ListerInv, PlainRequests, TellsInv, [Next]_vars
    PROVE  TellsInv'
<1>0. PresentClosed' /\ WalkIsSound'
  BY ClosedStep, WalkSoundStep DEF TellsInv
<1>1. ASSUME phase' # "idle", UNCHANGED <<request, reply>> \/ reply'.code # "ok"
      PROVE  SaysWhatIsThere' /\ (reply'.code = "ok" => request' \in Requests)
  BY <1>1 DEF TellsInv, SaysWhatIsThere, Answered
<1>2. ASSUME NEW r \in Requests, Start(r)
      PROVE  TellsInv'
  <2>1. phase = "idle" /\ reply'.code # "ok" /\ phase' # "scan"
    BY <1>2 DEF Start, Fail, NoReply
  <2>2. SaysWhatIsThere'
    BY <2>1 DEF SaysWhatIsThere, Answered
  <2>3. phase' = "walk" => WalkTells'
    BY <1>2, StartWalks
  <2> QED BY <1>0, <2>1, <2>2, <2>3 DEF TellsInv
<1>3. ASSUME NEW d \in Dirs, ReadDirectory(d)
      PROVE  TellsInv'
  <2>1. UNCHANGED <<request, reply>> /\ phase = "walk" /\ phase' = "walk"
    BY <1>3 DEF ReadDirectory, PhaseFits
  <2>2. WalkTells'
    BY <1>3, <2>1, ReadDirectoryWalks DEF TellsInv
  <2> QED BY <1>0, <1>1, <2>1, <2>2 DEF TellsInv
<1>4. ASSUME NEW p \in Paths, Visit(p)
      PROVE  TellsInv'
  <2>1. UNCHANGED <<request, reply>> /\ phase = "walk" /\ phase' = "walk"
    BY <1>4 DEF Visit, PhaseFits
  <2>2. WalkTells'
    BY <1>4, <2>1, VisitWalks DEF TellsInv, ListerInv
  <2> QED BY <1>0, <1>1, <2>1, <2>2 DEF TellsInv
<1>5. CASE Collect
  <2>1. UNCHANGED <<request, reply>> /\ phase = "walk" /\ phase' = "scan"
    BY <1>5 DEF Collect
  <2>2. ScanInv'
    BY <1>5, <2>1, CollectLists DEF TellsInv
  <2> QED BY <1>0, <1>1, <2>1, <2>2 DEF TellsInv
<1>6. ASSUME NEW w \in Worker, Take(w)
      PROVE  TellsInv'
  <2>1. UNCHANGED <<policy, request, reply, present, data, patterns, list, slot, touched>>
        /\ phase = "scan" /\ phase' = "scan"
    BY <1>6 DEF Take, disk, observed
  <2>2. ASSUME NEW f \in Files \ touched' PROVE ScanTells(f)'
    <3>1. ScanTells(f)
      BY <2>1, <2>2 DEF TellsInv, ScanInv
    <3>2. (Visible(f)' <=> Visible(f)) /\ \A r : TellsTruth(r, f)' <=> TellsTruth(r, f)
      BY <2>1, SameDiskSame, TruthStays
    <3> QED BY <2>1, <3>1, <3>2 DEF ScanTells
  <2>3. ScanInv'
    BY <2>1, <2>2 DEF TellsInv, ScanInv
  <2> QED BY <1>0, <1>1, <2>1, <2>3 DEF TellsInv
<1>7. ASSUME NEW w \in Worker, Scan(w)
      PROVE  TellsInv'
  <2>1. UNCHANGED <<request, reply>> /\ phase = "scan" /\ phase' = "scan"
    <3>1. job[w] # 0 /\ job[w] \in 0 .. Len(list)
      BY <1>7 DEF Scan, TypeOK
    <3>2. list # <<>>
      BY <3>1
    <3> QED BY <1>7, <3>2 DEF Scan, PhaseFits
  <2>2. ScanInv'
    BY <1>7, <2>1, ScanAdds DEF TellsInv
  <2> QED BY <1>0, <1>1, <2>1, <2>2 DEF TellsInv
<1>8. CASE Answer
  <2>1. phase = "scan" /\ phase' = "idle" /\ request' = request /\ request \in Requests
    BY <1>8 DEF Answer, PhaseFits
  <2>2. SaysWhatIsThere'
    BY <1>8, <2>1, AnswerSays DEF TellsInv
  <2> QED BY <1>0, <2>1, <2>2 DEF TellsInv
<1>9. ASSUME NEW p \in Paths,
             \/ p \in Files /\ EditFile(p)
             \/ p \in Dirs /\ EditIgnoreFile(p)
             \/ Remove(p) \/ Create(p)
      PROVE  TellsInv'
  <2>1. /\ UNCHANGED <<policy, phase, request, walk, scan, reply>>
        /\ \A f \in Files \ touched' : SameFor(f)
    BY <1>9, EditLeaves
  <2>2. touched \subseteq touched'
    BY <1>9 DEF EditFile, EditIgnoreFile, Remove, Create, Edit
  <2>3. (phase' = "walk" => WalkTells') /\ (phase' = "scan" => ScanInv') /\ SaysWhatIsThere'
    BY <2>1, <2>2, TellsLeft
  <2> QED BY <1>0, <2>1, <2>3 DEF TellsInv
<1>10. CASE UNCHANGED vars
  <2>1. UNCHANGED <<policy, phase, request, walk, scan, reply, touched, present, data, patterns>>
    BY <1>10 DEF vars, disk, observed
  <2>2. (phase' = "walk" => WalkTells') /\ (phase' = "scan" => ScanInv') /\ SaysWhatIsThere'
    BY <2>1, SameDiskSame, TellsLeft
  <2> QED BY <1>0, <2>1, <2>2 DEF TellsInv
<1>11. Dirs \subseteq Paths /\ Files \subseteq Paths
  BY AboveAreDirs
<1> QED
  BY <1>2, <1>3, <1>4, <1>5, <1>6, <1>7, <1>8, <1>9, <1>10, <1>11 DEF Next, SearchStep

LEMMA TellsInit == Init => TellsInv
<1> SUFFICES ASSUME Init PROVE TellsInv
  OBVIOUS
<1>1. PresentClosed
  BY SearchAssumption DEF Init, PresentClosed
<1>2. SaysWhatIsThere /\ reply.code # "ok"
  BY DEF Init, SaysWhatIsThere, Answered, NoReply
<1>3. phase = "idle" /\ WalkIsSound
  BY DEF Init, WalkIsSound
<1> QED BY <1>1, <1>2, <1>3 DEF TellsInv

\* A search says what is on disk of every file that nobody touched while it
\* ran: whatever the tree, the policy, the edits of other files, the workers
\* and the order of their steps, as long as the requests' predicates are plain
\* ones.  (SearchPatterns shows that it does not for an expression that parses
\* to a literal but spells it otherwise, and for an anchored one that is run
\* over the whole body.)
THEOREM SearchesSayWhatIsThere ==
    ASSUME PlainRequests
    PROVE  Spec => []SaysWhatIsThere
<1> DEFINE Inv == TypeOK /\ PhaseFits /\ SlotInv /\ ListerInv /\ TellsInv
<1>1. Init => Inv
  BY TypeInit, SlotInit, ListerInit, TellsInit
<1>2. Inv /\ [Next]_vars => Inv'
  <2>1. ASSUME Inv, [Next]_vars PROVE Inv'
    <3>1. TypeOK' /\ PhaseFits'
      BY <2>1, TypeStep
    <3>2. SlotInv'
      BY <2>1, SlotsStep, CapStep DEF SlotInv
    <3>3. ListerInv'
      BY <2>1, ListerStep
    <3>4. TellsInv'
      BY <2>1, TellsStep
    <3> QED BY <3>1, <3>2, <3>3, <3>4
  <2> QED BY <2>1
<1>3. Inv => SaysWhatIsThere
  BY DEF TellsInv
<1> HIDE DEF Inv
<1> QED BY <1>1, <1>2, <1>3, PTL DEF Spec

---------------------------------------------------------------------------
(* What is given was there *)

\* As long as a search runs, a file that it still may give was as asked for
\* at some moment: without predicates, since the walk came to it; with them,
\* since a worker read it.
WasThere ==
    phase # "idle" =>
        /\ AsAsked \subseteq wasThere
        /\ request.where = <<>> =>
            \A f \in request.glob : f \in toVisit \cup found /\ CheckFile(policy, f) => f \in wasThere
        /\ \A k \in DOMAIN list :
            /\ list[k] \in request.glob /\ OnWay(list[k]) /\ CheckFile(policy, list[k])
            /\ request.where = <<>> \/ (slot[k].out /\ slot[k].inc) => list[k] \in wasThere

\* A file is as asked for if the walk may come to it, it is there and its
\* content satisfies the predicates.
LEMMA AsAskedIf ==
    ASSUME NEW f \in request.glob, f \in present, OnWay(f), CheckFile(policy, f), Satisfies(f)
    PROVE  f \in AsAsked
BY DEF AsAsked, Served, OnWay

LEMMA AsAskedStays ==
    ASSUME UNCHANGED <<policy, present, data, request>>
    PROVE  AsAsked' = AsAsked
<1>1. \A f : (Served(f)' <=> Served(f)) /\ (Satisfies(f)' <=> Satisfies(f))
  BY DEF Served, Satisfies, Seen
<1> QED BY <1>1 DEF AsAsked

LEMMA NothingAsked ==
    ASSUME request.where = <<>>, NEW f
    PROVE  Satisfies(f)
<1>1. DOMAIN request.where = {}
  OBVIOUS
<1> QED BY <1>1 DEF Satisfies

\* A worker includes a file only if it opened it and what it read of it, were
\* it cut short, satisfies every predicate.
LEMMA ScanFinds ==
    ASSUME TypeOK, PlainRequests, request \in Requests, request.where # <<>>, NEW f \in Files,
           NEW outcome \in ScanOne(f), outcome[1].inc
    PROVE  f \in present /\ Satisfies(f)
<1> DEFINE whole == data[f].lines
           where == request.where
           hits(r, k) == ScanBytes(r, CompileMatcher(where[k]))
<1>1. PICK r \in ReadsOf(f, ReadCap) :
        outcome[1] = ScanContent(f, r) /\ f \in present /\ ~ data[f].binary
  <2>1. Excluded(f).inc = FALSE
    BY DEF Excluded
  <2>2. \/ outcome = <<Excluded(f), FALSE>>
        \/ /\ f \in present /\ ~ data[f].binary
           /\ outcome \in {<<ScanContent(f, r), r # Seen(f, ReadCap)>> : r \in ReadsOf(f, ReadCap)}
    BY Zenon DEF ScanOne
  <2>3. \A a, b : outcome = <<a, b>> => outcome[1] = a
    OBVIOUS
  <2>4. outcome # <<Excluded(f), FALSE>>
    <3> HIDE DEF Excluded
    <3> QED BY <2>1, <2>3
  <2>5. \E r \in ReadsOf(f, ReadCap) : outcome = <<ScanContent(f, r), r # Seen(f, ReadCap)>>
    BY <2>2, <2>4, Zenon
  <2> QED BY <2>2, <2>3, <2>4, <2>5, Zenon
<1>2. PICK n \in Nat : /\ n <= Len(whole) /\ n <= ReadCap /\ r = SubSeq(whole, 1, n)
                       /\ r \in Seq(Line) /\ DOMAIN r = 1 .. n
  BY ReadsAreBeginnings, SearchAssumption
<1>3. whole \in Seq(Line) /\ Len(whole) \in Nat /\ DOMAIN whole = 1 .. Len(whole)
  BY DataAssumption DEF TypeOK
<1>4. \A l \in DOMAIN r : r[l] = whole[l]
  <2>1. \A i \in 1 .. n : whole[i] \in Line
    BY <1>2, <1>3, ElementOfSeq
  <2>2. \A i \in 1 .. n - 1 + 1 : SubSeq(whole, 1, n)[i] = whole[1 + i - 1]
    BY <2>1, SubSeqProperties
  <2>3. n - 1 + 1 = n /\ \A i \in 1 .. n : 1 + i - 1 = i
    OBVIOUS
  <2> HIDE DEF whole
  <2> QED BY <1>2, <2>2, <2>3
<1>5. DOMAIN r \subseteq DOMAIN Seen(f, ReadCap)
  <2> DEFINE m == IF Len(whole) < ReadCap THEN Len(whole) ELSE ReadCap
  <2>1. m \in Nat /\ n <= m /\ m <= Len(whole)
    BY <1>2, <1>3, SearchAssumption
  <2>2. Seen(f, ReadCap) = SubSeq(whole, 1, m)
    BY DEF Seen
  <2> HIDE DEF m, whole
  <2>3. \A i \in 1 .. m : whole[i] \in Line
    BY <1>3, <2>1, ElementOfSeq
  <2>4. SubSeq(whole, 1, m) \in Seq(Line) /\ Len(SubSeq(whole, 1, m)) = m
    BY <2>1, <2>3, SubSeqProperties
  <2>5. DOMAIN Seen(f, ReadCap) = 1 .. m
    BY <2>2, <2>4
  <2> QED BY <1>2, <2>1, <2>5
<1>6. \A k \in DOMAIN where : hits(r, k) # {}
  <2>1. Excluded(f).inc = FALSE
    BY DEF Excluded
  <2>2. (\E k \in DOMAIN where : hits(r, k) = {}) => ScanContent(f, r) = Excluded(f)
    BY Zenon DEF ScanContent
  <2> HIDE DEF hits, where
  <2> QED BY <1>1, <2>1, <2>2
<1>7. ASSUME NEW k \in DOMAIN where
      PROVE  \E l \in DOMAIN Seen(f, ReadCap) : Holds(where[k], whole[l])
  <2>1. where[k] \in Predicate /\ PlainPredicate(where[k])
    <3>1. where \in Seq(Predicate)
      BY RequestAssumption
    <3> QED BY <1>7, <3>1, ElementOfSeq DEF PlainRequests
  <2>2. hits(r, k) = {l \in DOMAIN r : Holds(where[k], r[l])}
    BY <2>1, PlainPredicatesFind
  <2> HIDE DEF hits, where, whole
  <2>3. PICK l \in DOMAIN r : Holds(where[k], r[l])
    BY <1>6, <1>7, <2>2
  <2> QED BY <1>4, <1>5, <2>3
<1> QED BY <1>1, <1>7 DEF Satisfies

LEMMA StartWasThere ==
    ASSUME TypeOK, PhaseFits, WalkIsSound', NEW r \in Requests, Start(r), phase' = "walk"
    PROVE  WasThere'
<1>1. /\ request' = r /\ wasThere' = AsAsked' /\ found' = {} /\ list' = <<>>
      /\ toVisit' = {r.base} \cap Files /\ r.base \in present'
  BY DEF Start, Fail, PhaseFits, disk, scan
<1>2. DOMAIN list' = {}
  BY <1>1
<1>3. (\A f \in request.glob : f \in toVisit /\ CheckFile(policy, f) /\ request.where = <<>> => f \in AsAsked)'
  <2> SUFFICES ASSUME NEW f \in request'.glob, f \in toVisit', CheckFile(policy, f)',
                      request'.where = <<>>
               PROVE  f \in AsAsked'
    OBVIOUS
  <2>1. f \in present' /\ OnWay(f)'
    BY <1>1 DEF WalkIsSound
  <2>2. Satisfies(f)'
    <3>1. DOMAIN request'.where = {}
      OBVIOUS
    <3> QED BY <3>1 DEF Satisfies
  <2> QED BY <2>1, <2>2 DEF AsAsked, Served, OnWay
<1> QED BY <1>1, <1>2, <1>3 DEF WasThere

LEMMA WasThereStep ==
    ASSUME TypeOK, PhaseFits, SlotInv, WalkIsSound, PlainRequests, WasThere, GivesOnlyWhatWasThere,
           [Next]_vars, WalkIsSound'
    PROVE  WasThere' /\ GivesOnlyWhatWasThere'
<1>1. ASSUME NEW r \in Requests, Start(r)
      PROVE  WasThere' /\ GivesOnlyWhatWasThere'
  <2>1. phase = "idle" /\ reply'.code # "ok" /\ phase' \in {"idle", "walk"}
    BY <1>1 DEF Start, Fail, NoReply
  <2>2. phase' = "walk" => WasThere'
    BY <1>1, StartWasThere
  <2> QED BY <2>1, <2>2 DEF WasThere, GivesOnlyWhatWasThere, Answered
<1> DEFINE Runs == /\ UNCHANGED <<policy, present, data, request, wasThere>>
                   /\ phase # "idle" /\ phase' # "idle"
<1>2. ASSUME Runs PROVE AsAsked' = AsAsked /\ AsAsked \subseteq wasThere /\ GivesOnlyWhatWasThere'
  BY <1>2, AsAskedStays DEF WasThere, GivesOnlyWhatWasThere, Answered
<1>3. ASSUME NEW d \in Dirs, ReadDirectory(d)
      PROVE  WasThere' /\ GivesOnlyWhatWasThere'
  <2>1. Runs /\ UNCHANGED <<found, list, slot>>
        /\ \A p \in toVisit' : p \in toVisit \/ p \in present
    BY <1>3 DEF ReadDirectory, disk, scan, observed, PhaseFits
  <2>2. ASSUME NEW f \in request.glob, f \in toVisit', CheckFile(policy, f), request.where = <<>>
        PROVE  f \in wasThere
    <3>1. CASE f \in toVisit
      BY <2>1, <2>2, <3>1 DEF WasThere
    <3>2. CASE f \in present
      <4>1. OnWay(f)
        BY <2>1, <2>2 DEF WalkIsSound, OnWay
      <4> QED BY <1>2, <2>1, <2>2, <3>2, <4>1, NothingAsked, AsAskedIf
    <3> QED BY <2>1, <2>2, <3>1, <3>2
  <2> QED BY <1>2, <2>1, <2>2 DEF WasThere, OnWay
<1>4. ASSUME NEW p \in Paths, Visit(p)
      PROVE  WasThere' /\ GivesOnlyWhatWasThere'
  <2>1. Runs /\ UNCHANGED <<list, slot>> /\ toVisit' \cup found' \subseteq toVisit \cup found
    BY <1>4 DEF Visit, disk, scan, observed, PhaseFits
  <2> QED BY <1>2, <2>1 DEF WasThere, OnWay
<1>5. CASE Collect
  <2>1. Runs /\ toVisit' = {} /\ found' = {}
    BY <1>5 DEF Collect, disk, observed
  <2>2. \A k \in DOMAIN list' : list'[k] \in found \cap request.glob /\ ~ slot'[k].out
    <3>1. list' \in Seq(Files)
      BY <1>5, PickedType, OrderAssumption DEF Collect
    <3>2. \A k \in DOMAIN list' : list'[k] \in Files
      BY <3>1, ElementOfSeq
    <3> QED BY <1>5, <3>2, CollectPicks DEF Collect, Empty
  <2>3. (\A k \in DOMAIN list : OnWay(list[k]) /\ CheckFile(policy, list[k]))'
    BY <2>1, <2>2 DEF WalkIsSound, OnWay
  <2> QED BY <1>2, <2>1, <2>2, <2>3 DEF WasThere
<1>6. ASSUME NEW w \in Worker, Take(w)
      PROVE  WasThere' /\ GivesOnlyWhatWasThere'
  <2>1. Runs /\ UNCHANGED <<list, slot, toVisit, found>>
    BY <1>6 DEF Take, disk, walk, observed
  <2> QED BY <1>2, <2>1 DEF WasThere, OnWay
<1>7. ASSUME NEW w \in Worker, Scan(w)
      PROVE  WasThere' /\ GivesOnlyWhatWasThere'
  <2>1. list \in Seq(Files) /\ job[w] \in DOMAIN list /\ DOMAIN slot = DOMAIN list /\ list # <<>>
    <3>1. list \in Seq(Files) /\ DOMAIN list = 1 .. Len(list) /\ Len(list) \in Nat
      BY DEF TypeOK
    <3>2. job[w] \in 0 .. Len(list) /\ job[w] # 0 /\ DOMAIN slot = DOMAIN list
      BY <1>7 DEF Scan, TypeOK
    <3> QED BY <3>1, <3>2
  <2>2. Runs /\ UNCHANGED <<list, toVisit, found>> /\ request \in Requests /\ list[job[w]] \in Files
    BY <1>7, <2>1, ElementOfSeq DEF Scan, disk, walk, PhaseFits
  <2>3. PICK outcome \in ScanOne(list[job[w]]) : slot' = [slot EXCEPT ![job[w]] = outcome[1]]
    BY <1>7 DEF Scan
  <2>4. \A k \in DOMAIN list : slot'[k] = IF k = job[w] THEN outcome[1] ELSE slot[k]
    BY <2>1, <2>3
  <2>5. ASSUME request.where # <<>>, outcome[1].inc PROVE list[job[w]] \in wasThere
    <3>1. list[job[w]] \in present /\ Satisfies(list[job[w]])
      BY <2>2, <2>3, <2>5, ScanFinds
    <3>2. list[job[w]] \in request.glob /\ OnWay(list[job[w]]) /\ CheckFile(policy, list[job[w]])
      BY <2>1, <2>2 DEF WasThere
    <3> QED BY <1>2, <2>2, <3>1, <3>2, AsAskedIf
  <2>6. \A k \in DOMAIN list : request.where = <<>> \/ (slot'[k].out /\ slot'[k].inc) => list[k] \in wasThere
    BY <2>2, <2>4, <2>5 DEF WasThere
  <2> QED BY <1>2, <2>2, <2>6 DEF WasThere, OnWay
<1>8. CASE Answer
  <2> DEFINE files == reply'.files
             results == Picked(slot, {r \in Range(slot) : r.inc})
  <2>1. phase = "scan" /\ phase' = "idle" /\ wasThere' = wasThere
    BY <1>8 DEF Answer, observed
  <2>2. /\ Len(results) \in Nat /\ files \in Seq(Range(slot)) /\ Len(files) \in 0 .. Len(results)
        /\ \A k \in 1 .. Len(list) : Fits(slot[k], list[k])
    BY <1>8, AnswerFromSlots, Zenon DEF SlotInv
  <2>3. PICK place :
        /\ place \in [1 .. Len(results) -> 1 .. Len(list)]
        /\ \A k \in 1 .. Len(results) : slot[place[k]].inc
        /\ \A k \in 1 .. Len(results) : \A j \in 1 .. k - 1 : place[j] < place[k]
        /\ \A i \in 1 .. Len(list) : slot[i].inc => \E k \in 1 .. Len(results) : place[k] = i
        /\ \A k \in 1 .. Len(files) : files[k] = slot[place[k]]
    BY <1>8, AnswerFromSlots, Zenon DEF SlotInv
  <2> HIDE DEF files, results
  <2>4. DOMAIN files = 1 .. Len(files) /\ DOMAIN list = 1 .. Len(list)
    BY <2>2 DEF TypeOK
  <2>5. ASSUME NEW k \in DOMAIN files PROVE files[k].path \in wasThere
    <3>1. k \in 1 .. Len(files) /\ k \in 1 .. Len(results)
      BY <2>2, <2>4
    <3>2. place[k] \in DOMAIN list /\ files[k] = slot[place[k]] /\ slot[place[k]].inc
      BY <2>3, <2>4, <3>1
    <3>3. slot[place[k]].out /\ slot[place[k]].path = list[place[k]]
      BY <2>2, <2>4, <3>2 DEF Fits
    <3> QED BY <2>1, <3>2, <3>3 DEF WasThere
  <2> QED BY <2>1, <2>5 DEF WasThere, GivesOnlyWhatWasThere, Given, files
<1>9. ASSUME NEW p \in Paths, Edit(p)
      PROVE  WasThere' /\ GivesOnlyWhatWasThere'
  <2>1. /\ UNCHANGED <<policy, phase, request, walk, scan, reply>>
        /\ wasThere' = IF phase = "idle" THEN wasThere ELSE wasThere \cup AsAsked'
    BY <1>9 DEF Edit
  <2>2. GivesOnlyWhatWasThere'
    BY <2>1 DEF GivesOnlyWhatWasThere, Answered, Given
  <2>3. WasThere'
    BY <2>1 DEF WasThere, OnWay, walk, scan
  <2> QED BY <2>2, <2>3
<1>10. CASE UNCHANGED vars
  <2>1. UNCHANGED <<policy, present, data, phase, request, wasThere, toVisit, found, list, slot, reply>>
    BY <1>10 DEF vars, disk, walk, scan, observed
  <2>2. AsAsked' = AsAsked
    BY <2>1, AsAskedStays
  <2> QED BY <2>1, <2>2 DEF WasThere, OnWay, GivesOnlyWhatWasThere, Answered, Given
<1>11. Dirs \subseteq Paths /\ Files \subseteq Paths
  BY AboveAreDirs
<1> HIDE DEF Runs
<1> QED
  BY <1>1, <1>3, <1>4, <1>5, <1>6, <1>7, <1>8, <1>9, <1>10, <1>11
     DEF Next, SearchStep, EditFile, EditIgnoreFile, Remove, Create

\* Whatever others do to the tree while a search runs, each file it gives was,
\* at one moment of that time, there and served and satisfied every predicate;
\* again as long as the predicates are plain ones.
THEOREM SearchesGiveWhatWasThere ==
    ASSUME PlainRequests
    PROVE  Spec => []GivesOnlyWhatWasThere
<1> DEFINE Inv == /\ TypeOK /\ PhaseFits /\ SlotInv /\ WalkIsSound
                  /\ WasThere /\ GivesOnlyWhatWasThere
<1>1. Init => Inv
  <2>1. Init => WalkIsSound /\ WasThere /\ GivesOnlyWhatWasThere
    BY DEF Init, WalkIsSound, WasThere, GivesOnlyWhatWasThere, Answered, NoReply
  <2> QED BY <2>1, TypeInit, SlotInit
<1>2. Inv /\ [Next]_vars => Inv'
  <2>1. ASSUME Inv, [Next]_vars PROVE Inv'
    <3>1. TypeOK' /\ PhaseFits'
      BY <2>1, TypeStep
    <3>2. SlotInv'
      BY <2>1, SlotsStep, CapStep DEF SlotInv
    <3>3. WalkIsSound'
      BY <2>1, WalkSoundStep
    <3>4. WasThere' /\ GivesOnlyWhatWasThere'
      BY <2>1, <3>3, WasThereStep
    <3> QED BY <3>1, <3>2, <3>3, <3>4
  <2> QED BY <2>1
<1>3. Inv => GivesOnlyWhatWasThere
  OBVIOUS
<1> HIDE DEF Inv
<1> QED BY <1>1, <1>2, <1>3, PTL DEF Spec
=============================================================================
