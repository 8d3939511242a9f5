----------------------------- MODULE TreeSearch -----------------------------
(***************************************************************************)
(* tree_search (mcp/tools.go, search.go, walk.go): one search after        *)
(* another over a tree that somebody else edits meanwhile.                 *)
(*                                                                         *)
(* A search compiles its predicates, walks the tree with callbacks that    *)
(* run at the same time and share one Lister, sorts what they found, has   *)
(* workers scan the files, each result into the slot of its file, and cuts *)
(* the list off at maxMatches.                                             *)
(*                                                                         *)
(* A file's data is a sequence of lines (Matcher), the last one empty when *)
(* the file ends with a newline; caps on bytes are caps on lines.  Sizes,  *)
(* context lines and the text of notices are left out.                     *)
(***************************************************************************)
EXTENDS Matcher, Visibility, Prefixes, Integers, FiniteSets, Functions

CONSTANTS
    Order,         \* the files, sorted by path
    Policies,      \* policies of a workspace
    GrepEnabled, MaxMatches, ReadCap, ProbeCap,
    Worker,        \* goroutines of the scan
    Requests,      \* arguments of tree_search
    Data,          \* file contents
    PatternsOf,    \* PatternsOf[d]: what directory d's ignore files may say
    InitialTrees,  \* bound: the paths there at first, what the files hold
    InitialData,   \* and what the ignore files say
    InitialPatterns,
    MayFailRead,   \* whether a read may stop short
    MaxEdits       \* bound: edits of the tree in a run

ASSUME OrderAssumption ==
    /\ Order \in Seq(Files) /\ Len(Order) = Cardinality(Files)
    /\ \A f \in Files : \E k \in DOMAIN Order : Order[k] = f
ASSUME RequestAssumption ==
    \A r \in Requests :
        r.where \in Seq(Predicate) /\ r.glob \subseteq Files /\ r.base \notin Links
        /\ r.matches \in BOOLEAN /\ r.meta \in BOOLEAN
ASSUME DataAssumption == Data \subseteq [binary : BOOLEAN, lines : Seq(Line)]
ASSUME SearchAssumption ==
    /\ Policies \subseteq Policy
    /\ GrepEnabled \in BOOLEAN /\ MayFailRead \in BOOLEAN
    /\ MaxMatches \in Nat \ {0} /\ ReadCap \in Nat \ {0} /\ ProbeCap \in Nat \ {0}
    /\ MaxEdits \in Nat
    /\ Worker # {}
    /\ PatternsOf \in [Dirs -> SUBSET IgnoreFile]
    /\ \A T \in InitialTrees : T \subseteq Paths /\ \A p \in T : Above[p] \subseteq T
    /\ InitialData \subseteq [Files -> Data]
    /\ InitialPatterns \subseteq [Dirs -> IgnoreFile]

VARIABLES
    policy,        \* the workspace's configuration
    present,       \* the paths on disk
    data,          \* what the files hold
    patterns,      \* what the ignore files say
    edits,         \* edits so far
    phase,         \* of the search: "idle", "walk", "scan"
    request,       \* its arguments
    lister,        \* its Lister
    toRead,        \* directories the walk has entered and not read
    toVisit,       \* entries read, their callback still to come
    found,         \* files the callbacks have collected
    list,          \* files, sorted by path: the candidates
    next,          \* first index not handed to a worker
    job,           \* index a worker is scanning, 0 for none
    slot,          \* outRes and outInc by index
    reply,         \* answer of the last search
    touched,       \* observation: files that edits or short reads since the
                   \* search began have to do with
    wasThere       \* observation: files that were as asked for at some moment
                   \* of the search

disk == <<policy, present, data, patterns, edits>>
walk == <<lister, toRead, toVisit, found>>
scan == <<list, next, job, slot>>
observed == <<touched, wasThere>>
vars == <<disk, phase, request, walk, scan, reply, observed>>

NoRequest == [none |-> TRUE]
NoReply == [code |-> "none", files |-> <<>>, truncated |-> FALSE]
Empty == [out |-> FALSE]

\* FileResult: the numbers of the lines matched in the body and inside the
\* fence, and the lines of the fence if there is one and it was asked for.
Result(f, matches, metadataMatches, metadata) ==
    [out |-> TRUE, inc |-> TRUE, path |-> f, matches |-> matches,
     metadataMatches |-> metadataMatches, metadata |-> metadata]
Excluded(f) == [out |-> TRUE, inc |-> FALSE, path |-> f]

---------------------------------------------------------------------------
(* Scanning one file *)

Least(S) == CHOOSE n \in S : \A m \in S : n <= m

\* detectFence and readFrontmatter: the line of the closing fence, or 0.
IsFence(line) == line = <<"---">>
FenceEnd(lines) ==
    LET Closing == {k \in 2 .. Len(lines) : IsFence(lines[k])}
    IN IF lines # <<>> /\ IsFence(lines[1]) /\ Closing # {} THEN Least(Closing) ELSE 0

Frontmatter(lines) == SubSeq(lines, 2, FenceEnd(lines) - 1)

\* scanOne without predicates: a file that cannot be opened is still listed.
ScanMetadata(f, lines) ==
    Result(f, {}, {}, IF ~ request.meta THEN <<>> ELSE Frontmatter(lines))

\* scanOne with predicates, on what was read of the file.
ScanContent(f, lines) ==
    LET hits(p) == ScanBytes(lines, CompileMatcher(p))
        byLine == IF request.matches
                  THEN UNION {hits(request.where[k]) : k \in DOMAIN request.where} ELSE {}
        fenced == {l \in byLine : l > 1 /\ l < FenceEnd(lines)}
    IN IF \E k \in DOMAIN request.where : hits(request.where[k]) = {} THEN Excluded(f)
       ELSE Result(f, byLine \ fenced, fenced,
                   IF request.meta THEN Frontmatter(lines) ELSE <<>>)

\* A read of at most cap lines: fewer when it fails half way, which nobody
\* looks at.
ReadsOf(f, cap) ==
    LET whole == IF Len(data[f].lines) < cap THEN Len(data[f].lines) ELSE cap
    IN {SubSeq(data[f].lines, 1, n) :
            n \in IF MayFailRead THEN 0 .. whole ELSE {whole}}

\* The part of a file that a read without an error sees.
Seen(f, cap) ==
    SubSeq(data[f].lines, 1, IF Len(data[f].lines) < cap THEN Len(data[f].lines) ELSE cap)

\* Mutant: a file that cannot be opened is listed whatever was asked of it.
ScanOneListingGone(f) ==
    LET cap == IF request.where # <<>> \/ ReadCap < ProbeCap THEN ReadCap ELSE ProbeCap
        content(r) == IF request.where = <<>> THEN ScanMetadata(f, r) ELSE ScanContent(f, r)
    IN IF f \notin present THEN {<<ScanMetadata(f, <<>>), FALSE>>}
       ELSE IF data[f].binary /\ request.where # <<>> THEN {<<Excluded(f), FALSE>>}
       ELSE {<<content(r), r # Seen(f, cap)>> : r \in ReadsOf(f, cap)}

\* The outcomes of scanOne: <<result, whether a read stopped short>>.
ScanOne(f) ==
    IF request.where = <<>> THEN
        LET cap == IF ReadCap < ProbeCap THEN ReadCap ELSE ProbeCap
        IN IF ~ request.meta \/ f \notin present
           THEN {<<ScanMetadata(f, <<>>), FALSE>>}
           ELSE {<<ScanMetadata(f, r), r # Seen(f, cap)>> : r \in ReadsOf(f, cap)}
    ELSE IF f \notin present \/ data[f].binary THEN {<<Excluded(f), FALSE>>}
    ELSE {<<ScanContent(f, r), r # Seen(f, ReadCap)>> : r \in ReadsOf(f, ReadCap)}

---------------------------------------------------------------------------
(* Cutting the answer off *)

Cost(r) ==
    LET lines == Cardinality(r.matches) + Cardinality(r.metadataMatches)
    IN IF lines = 0 THEN 1 ELSE lines

\* What the first n of a sequence of results count for.
Emitted(results) ==
    LET spent[n \in 0 .. Len(results)] ==
            IF n = 0 THEN 0 ELSE spent[n - 1] + Cost(results[n])
    IN spent

\* Mutant: a result that would go past the cap is left out, the next one is
\* tried.
ShownStrictly(results) ==
    Cardinality({n \in DOMAIN results : Emitted(results)[n] < MaxMatches})

\* Results are taken while fewer than maxMatches have been emitted.
Shown(results) ==
    Cardinality({n \in DOMAIN results : Emitted(results)[n - 1] < MaxMatches})

Cut(results) ==
    [code |-> "ok", files |-> SubSeq(results, 1, Shown(results)),
     truncated |-> Shown(results) < Len(results)]

---------------------------------------------------------------------------
(* What a search is asked for *)

\* What a walk from the request's base comes to: the base itself or what is
\* below it, through directories that are served.
Served(f) ==
    /\ f \in present /\ request.base \in Above[f] \cup {f}
    /\ CheckFile(policy, f)
    /\ \A d \in Above[f] : request.base \in Above[d] => CheckDir(policy, d)

NotIgnoredOnDisk(f) ==
    policy.gitignore => \A p \in Above[f] \cup {f} : ~ Ignored(patterns, p)

\* What of that no ignore file hides.
Visible(f) == Served(f) /\ NotIgnoredOnDisk(f)

\* The lines of a file that satisfy some predicate, and the file that
\* satisfies all of them.
HitLines(f) ==
    {k \in DOMAIN Seen(f, ReadCap) :
        \E i \in DOMAIN request.where : Holds(request.where[i], data[f].lines[k])}
Satisfies(f) ==
    \A i \in DOMAIN request.where :
        /\ ~ data[f].binary
        /\ \E k \in DOMAIN Seen(f, ReadCap) : Holds(request.where[i], data[f].lines[k])

\* The files that are as asked for now, ignore files apart.
AsAsked == {f \in request.glob : Served(f) /\ Satisfies(f)}

---------------------------------------------------------------------------
(* Steps of a search *)

Fail(code) ==
    /\ reply' = [NoReply EXCEPT !.code = code]
    /\ UNCHANGED <<disk, phase, request, walk, scan, observed>>

\* treeSearch and Search up to the walk: the checks in their order, then a
\* new Lister and the base of the glob: a directory, which is entered without
\* being checked itself, or a file, which has its callback.
Start(r) ==
    /\ phase = "idle"
    /\ IF r.where # <<>> /\ ~ GrepEnabled THEN Fail("GREP_DISABLED")
       ELSE IF \E k \in DOMAIN r.where : r.where[k].source = NoToken THEN Fail("INVALID_ARGS")
       ELSE IF \E k \in DOMAIN r.where : ~ r.where[k].parses THEN Fail("INVALID_PATTERN")
       ELSE IF r.base \notin Dirs \cup Files THEN Fail("POLICY_DENIED")
       ELSE IF r.base \notin present THEN Fail("NOT_FOUND")
       ELSE /\ phase' = "walk"
            /\ request' = r
            /\ lister' = NewLister(patterns)
            /\ toRead' = {r.base} \cap Dirs
            /\ toVisit' = {r.base} \cap Files
            /\ reply' = NoReply
            /\ touched' = {}
            /\ UNCHANGED <<disk, found, scan>>
            /\ wasThere' = AsAsked'

\* fastwalk reads a directory it has entered; one that has gone is skipped.
ReadDirectory(d) ==
    /\ d \in toRead
    /\ toRead' = toRead \ {d}
    /\ toVisit' = toVisit \cup {p \in present : Above[p] = Above[d] \cup {d}}
    /\ UNCHANGED <<disk, phase, request, lister, found, scan, reply, observed>>

\* Mutant: the callback does not ask whether an entry is a regular file.
VisitAnything(p) ==
    LET listed == Listed(policy, lister, patterns, p, p \in Dirs)
    IN /\ p \in toVisit
       /\ toVisit' = toVisit \ {p}
       /\ toRead' = IF p \in Dirs /\ listed THEN toRead \cup {p} ELSE toRead
       /\ found' = IF p \notin Dirs /\ listed THEN found \cup {p} ELSE found
       /\ lister' = lister
       /\ UNCHANGED <<disk, phase, request, scan, reply, observed>>

\* The callback of collectFiles.
Visit(p) ==
    LET listed == Listed(policy, lister, patterns, p, p \in Dirs)
    IN /\ p \in toVisit
       /\ toVisit' = toVisit \ {p}
       /\ toRead' = IF p \in Dirs /\ listed THEN toRead \cup {p} ELSE toRead
       /\ found' = IF p \in Files /\ listed THEN found \cup {p} ELSE found
       /\ lister' = IF p \in Dirs \cup Files /\ policy.gitignore
                       /\ Check(policy, p, p \in Dirs)
                    THEN Consulted(lister, patterns, p) ELSE lister
       /\ UNCHANGED <<disk, phase, request, scan, reply, observed>>

\* The walk returns; its files are narrowed to the glob and sorted.
Collect ==
    /\ phase = "walk" /\ toRead = {} /\ toVisit = {}
    /\ phase' = "scan"
    /\ list' = Picked(Order, found \cap request.glob)
    /\ slot' = [k \in DOMAIN list' |-> Empty]
    /\ next' = 1
    /\ found' = {}
    /\ lister' = NewLister([d \in Dirs |-> NoPatterns])
    /\ UNCHANGED <<disk, request, toRead, toVisit, job, reply, observed>>

\* Mutant: the last index is never handed out.
TakeAllButLast(w) ==
    /\ phase = "scan" /\ job[w] = 0 /\ next < Len(list)
    /\ job' = [job EXCEPT ![w] = next]
    /\ next' = next + 1
    /\ UNCHANGED <<disk, phase, request, walk, list, slot, reply, observed>>

\* A worker receives an index from idxCh.
Take(w) ==
    /\ phase = "scan" /\ job[w] = 0 /\ next <= Len(list)
    /\ job' = [job EXCEPT ![w] = next]
    /\ next' = next + 1
    /\ UNCHANGED <<disk, phase, request, walk, list, slot, reply, observed>>

\* It scans the file and fills the slot.
Scan(w) ==
    /\ job[w] # 0
    /\ \E outcome \in ScanOne(list[job[w]]) :
        /\ slot' = [slot EXCEPT ![job[w]] = outcome[1]]
        /\ touched' = IF outcome[2] THEN touched \cup {list[job[w]]} ELSE touched
    /\ job' = [job EXCEPT ![w] = 0]
    /\ UNCHANGED <<disk, phase, request, walk, list, next, reply, wasThere>>

\* All workers are done: the answer.
Answer ==
    /\ phase = "scan" /\ next > Len(list) /\ \A w \in Worker : job[w] = 0
    /\ phase' = "idle"
    /\ reply' = Cut(Picked(slot, {r \in Range(slot) : r.inc}))
    /\ list' = <<>> /\ slot' = <<>> /\ next' = 1
    /\ UNCHANGED <<disk, request, walk, job, observed>>

---------------------------------------------------------------------------
(* Somebody else's edits of the tree *)

\* An edit at p has to do with p itself and with all below it.
Edit(p) ==
    /\ edits < MaxEdits
    /\ edits' = edits + 1
    /\ touched' = touched \cup {f \in Files : p \in Above[f] \cup {f}}
    /\ UNCHANGED <<policy, phase, request, walk, scan, reply>>
    /\ wasThere' = IF phase = "idle" THEN wasThere ELSE wasThere \cup AsAsked'

EditFile(f) ==
    /\ f \in present
    /\ \E c \in Data \ {data[f]} : data' = [data EXCEPT ![f] = c]
    /\ UNCHANGED <<present, patterns>>
    /\ Edit(f)

EditIgnoreFile(d) ==
    /\ d \in present
    /\ \E i \in PatternsOf[d] \ {patterns[d]} : patterns' = [patterns EXCEPT ![d] = i]
    /\ UNCHANGED <<present, data>>
    /\ Edit(d)

Remove(p) ==
    /\ p \in present \ {Root}
    /\ present' = {q \in present : q # p /\ p \notin Above[q]}
    /\ UNCHANGED <<data, patterns>>
    /\ Edit(p)

Create(p) ==
    /\ p \notin present /\ Above[p] \subseteq present
    /\ present' = present \cup {p}
    /\ UNCHANGED <<data, patterns>>
    /\ Edit(p)

---------------------------------------------------------------------------
Init ==
    /\ policy \in Policies
    /\ present \in InitialTrees
    /\ data \in InitialData
    /\ patterns \in InitialPatterns
    /\ edits = 0
    /\ phase = "idle" /\ request = NoRequest
    /\ lister = NewLister([d \in Dirs |-> NoPatterns])
    /\ toRead = {} /\ toVisit = {} /\ found = {}
    /\ list = <<>> /\ next = 1 /\ job = [w \in Worker |-> 0] /\ slot = <<>>
    /\ reply = NoReply /\ touched = {} /\ wasThere = {}

SearchStep ==
    \/ \E d \in Dirs : ReadDirectory(d)
    \/ \E p \in Paths : Visit(p)
    \/ Collect
    \/ \E w \in Worker : Take(w) \/ Scan(w)
    \/ Answer

Next ==
    \/ \E r \in Requests : Start(r)
    \/ SearchStep
    \/ \E f \in Files : EditFile(f)
    \/ \E d \in Dirs : EditIgnoreFile(d)
    \/ \E p \in Paths : Remove(p) \/ Create(p)

Spec == Init /\ [][Next]_vars

\* The goroutines of a search keep running; fastwalk and Search wait for all
\* of them.
FairSpec == Spec /\ WF_vars(SearchStep)
---------------------------------------------------------------------------
(* Properties *)

TypeOK ==
    /\ policy \in Policies
    /\ present \subseteq Paths
    /\ data \in [Files -> Data]
    /\ patterns \in [Dirs -> IgnoreFile]
    /\ edits \in 0 .. MaxEdits
    /\ phase \in {"idle", "walk", "scan"}
    /\ request \in Requests \cup {NoRequest}
    /\ lister \in Lister
    /\ toRead \subseteq Dirs /\ toVisit \subseteq Paths /\ found \subseteq Files
    /\ list \in Seq(Files)
    /\ next \in 1 .. Len(list) + 1
    /\ job \in [Worker -> 0 .. Len(list)]
    /\ DOMAIN slot = DOMAIN list
    /\ touched \subseteq Files /\ wasThere \subseteq Files

\* One search goes by one reading of every ignore file: whatever the order
\* of the callbacks and whoever edits the files meanwhile, a file that was
\* collected is in no directory the Lister calls ignored, and is not ignored
\* by the patterns the Lister read.  (Lister.Listed, mcp/policy.go)
OneReadingOfIgnoreFiles ==
    policy.gitignore =>
        \A f \in found :
            /\ \A d \in Above[f] \ {Root} : lister.seen[d] = "kept"
            /\ ~ Ignored(lister.read, f)

\* Two workers never fill one slot, no slot is filled twice and none is
\* skipped: an index below next is being scanned by one worker or its slot
\* is full.  (the worker pool of Search, mcp/search.go)
SlotsHaveOneWriter ==
    /\ \A v, w \in Worker : job[v] = job[w] => v = w \/ job[v] = 0
    /\ \A w \in Worker : job[w] # 0 => job[w] < next /\ ~ slot[job[w]].out
    /\ \A k \in DOMAIN slot :
        slot[k].out <=> k < next /\ \A w \in Worker : job[w] # k

\* A search has been answered with a list of files.
Answered == phase = "idle" /\ reply.code = "ok"

Given == {reply.files[k].path : k \in DOMAIN reply.files}

\* The order of paths.
Before(f, g) ==
    \E j, k \in DOMAIN Order : j < k /\ Order[j] = f /\ Order[k] = g

\* The list is in path order, stops with the file that reaches the cap and
\* is truncated only if the cap was reached.  (the loop at the end of Search)
StopsAtTheCap ==
    Answered =>
        LET n == Len(reply.files)
            place(k) == CHOOSE i \in DOMAIN Order : Order[i] = reply.files[k].path
        IN /\ \A j, k \in 1 .. n : j < k => place(j) < place(k)
           /\ n > 0 => Emitted(reply.files)[n - 1] < MaxMatches
           /\ reply.truncated => Emitted(reply.files)[n] >= MaxMatches

InFence(f, k) ==
    LET lines == Seen(f, ReadCap)
    IN /\ k > 1 /\ IsFence(lines[1])
       /\ \E e \in DOMAIN lines : e > k /\ IsFence(lines[e])
       /\ \A e \in 2 .. k : ~ IsFence(lines[e])

\* A search says what is on disk, however its callbacks and workers were
\* interleaved and whatever others did meanwhile to other files.  Of the files
\* that nobody edited, nor a directory they are in, nor an ignore file there:
\* the ones given are visible, match the glob and satisfy every predicate; all
\* such files are given, unless the answer says it is truncated and they come
\* after all it gives; and the lines are those that match, the ones inside the
\* frontmatter apart.  (Search, docs/design.md tree_search)
SaysWhatIsThere ==
    Answered =>
        LET Due == {f \in request.glob : Visible(f) /\ Satisfies(f)}
        IN /\ Given \ touched \subseteq Due
           /\ \A f \in Due \ (Given \cup touched) :
                reply.truncated /\ \A g \in Given : Before(g, f)
           /\ reply.truncated => \E f \in request.glob \ Given : f \in Due \cup touched
           /\ \A k \in DOMAIN reply.files : reply.files[k].path \notin touched =>
                LET r == reply.files[k]
                IN /\ r.matches \cup r.metadataMatches =
                          IF request.matches THEN HitLines(r.path) ELSE {}
                   /\ r.metadataMatches = {l \in HitLines(r.path) \cap r.metadataMatches : InFence(r.path, l)}
                   /\ \A l \in r.matches : ~ InFence(r.path, l)

\* Whatever others do meanwhile, a file that is given was, at one moment since
\* the search began, there and served, with a content that satisfied every
\* predicate.  (scanOne, which opens it after the walk has listed it)
GivesOnlyWhatWasThere == Answered => Given \subseteq wasThere

\* Every search ends with an answer.  (wg.Wait and fastwalk.Walk)
SearchEnds == phase # "idle" ~> phase = "idle"

\* What docs/design.md says of `where`: a file that is visible is given just
\* when every predicate holds of one of its lines, a `text` as a literal
\* substring and a `regex` as a Go regular expression.
PatternsMeanWhatTheySay ==
    Answered /\ touched = {} /\ ~ reply.truncated =>
        \A f \in request.glob : Visible(f) => (f \in Given <=> Satisfies(f))
============================================================================
