---------------------------- MODULE Orientation -----------------------------
(***************************************************************************)
(* How a workspace introduces itself (mcp/registry.go, and workspaceInfo   *)
(* of mcp/tools.go): the orientation files at its root, the description    *)
(* taken from the first of them that has one, and the preview of the       *)
(* foremost.                                                               *)
(*                                                                         *)
(* A name is its rank among the stems the server knows and its place in    *)
(* the order of names.  A file's text is its size and number of lines, the *)
(* place of its first NUL byte (0: none) and what firstSection makes of    *)
(* the part deriveDescription reads; the words themselves are left out.    *)
(***************************************************************************)
EXTENDS Visibility, Integers, FiniteSets

CONSTANTS
    StemRank,           \* of a path: place of its stem in orientationStems, or 0
    NameRank,           \* of a path: its place among the names in order
    MaxWellKnown,       \* maxWellKnownFiles
    DescriptionWindow,  \* bytes deriveDescription reads
    SniffWindow,        \* bytes of a preview searched for a NUL
    PreviewBytes, PreviewLines, MaxBytes,   \* previewMax..., read.maxBytes
    Sections, NoProse   \* what firstSection can return, "" among it as NoProse

ASSUME FilesAreFinite == IsFiniteSet(Files)
ASSUME NamesAssumption ==
    /\ StemRank \in [Paths -> Nat] /\ NameRank \in [Paths -> Nat]
    /\ \A p, q \in Paths : NameRank[p] = NameRank[q] => p = q
ASSUME PreviewAssumption ==
    /\ MaxWellKnown \in Nat \ {0} /\ MaxBytes \in Nat \ {0}
    /\ DescriptionWindow \in Nat /\ SniffWindow \in Nat
    /\ PreviewBytes \in Nat /\ PreviewLines \in Nat
    /\ NoProse \notin Sections

Text == [size : Nat, lines : Nat, nulAt : Nat, section : Sections \cup {NoProse}]

Smaller(m, n) == IF m < n THEN m ELSE n

\* What fs.ReadDir returns for the root.
Entries(present) == {p \in present : Above[p] = {Root}}

\* A file at the root comes before another: by stem, then by name.
Before(f, g) ==
    \/ StemRank[f] < StemRank[g]
    \/ StemRank[f] = StemRank[g] /\ NameRank[f] < NameRank[g]

\* The first so many of a set of files.
Foremost(S, n) ==
    [i \in 1 .. Smaller(Cardinality(S), n) |->
        CHOOSE f \in S : Cardinality({g \in S : Before(g, f)}) = i - 1]

\* Mutants: what is ignored counts; one file too many.
DetectUnlisted(policy, patterns, entries) ==
    Foremost({f \in entries \cap Files : StemRank[f] # 0 /\ CheckFile(policy, f)},
             MaxWellKnown)
DetectPastCap(policy, patterns, entries) ==
    Foremost({f \in entries \cap Files :
                 /\ StemRank[f] # 0
                 /\ Listed(policy, NewLister(patterns), patterns, f, FALSE)},
             MaxWellKnown + 1)

\* detectOrientation: of the entries that Root.ReadDir lists, the regular files
\* with a known stem.
DetectOrientation(policy, patterns, entries) ==
    Foremost({f \in entries \cap Files :
                 /\ StemRank[f] # 0
                 /\ Listed(policy, NewLister(patterns), patterns, f, FALSE)}, MaxWellKnown)

\* Root.Open: the access rules, then the file.
Opens(policy, present, f) == CheckFile(policy, f) /\ f \in present

\* deriveDescription of one file that opened.
Section(t) == IF t.nulAt \in 1 .. DescriptionWindow THEN NoProse ELSE t.section

\* readOrientationPreview of a file that opened, as a sequence of at most one.
\* totalLines is 0 where it is left out.
PreviewOf(f, t) ==
    LET limit == Smaller(PreviewBytes, MaxBytes)
        whole == t.size <= limit
    IN IF t.nulAt \in 1 .. Smaller(limit, SniffWindow) THEN <<>>
       ELSE << [path |-> f, text |-> t,
                truncated |-> ~ whole \/ t.lines > PreviewLines,
                totalLines |-> IF whole THEN t.lines ELSE 0] >>
============================================================================
