------------------------------ MODULE GitTools ------------------------------
(***************************************************************************)
(* git_diff and git_status (mcp/tools.go, gitaware): a call reads the      *)
(* status, the index, HEAD and then one worktree file after another, while *)
(* somebody else edits, stages and commits.                                *)
(*                                                                         *)
(* A content is a model value; Large and Binary are the contents past the  *)
(* read limit and the ones with a NUL, Weight is the length of a content   *)
(* in patch text.  What a patch says is abstracted to its two sides.       *)
(***************************************************************************)
EXTENDS Visibility, Upstream, Prefixes, Integers, Sequences

CONSTANTS
    Order,          \* the regular files, sorted by path
    Content, Large, Binary, Weight,
    Policies,
    DiffCap,        \* Read.MaxBytes as the cap of the whole diff text
    InitialRepos,   \* bound: records of worktree, index and head
    Histories,      \* bound: records of parents, local and remote tips
    Scopes,         \* bound: paths given to git_diff, NoScope among them
    MaxEdits        \* bound: edits of the repository in a run

Absent == "absent"
Symlink == "symlink"
NoScope == "no scope"
InWorktree == Content \cup {Absent, Symlink}
InGit == Content \cup {Absent}

ASSUME GitAssumption ==
    /\ {Absent, Symlink} \cap Content = {}
    /\ Large \subseteq Content /\ Binary \subseteq Content
    /\ Weight \in [Content -> Nat \ {0}] /\ DiffCap \in Nat \ {0}
    /\ Policies \subseteq Policy
    /\ NoScope \in Scopes /\ Scopes \ {NoScope} \subseteq Paths \ {Root}
    /\ \A r \in InitialRepos :
        /\ r.worktree \in [Files -> InWorktree]
        /\ r.index \in [Files -> InGit] /\ r.head \in [Files -> InGit]
    /\ MaxEdits \in Nat
\* A history is finite and no commit is an ancestor of its own ancestors.
ASSUME HistoryAssumption ==
    \A h \in Histories :
        /\ IsFiniteSet(DOMAIN h.parents)
        /\ \A c \in DOMAIN h.parents : h.parents[c] \subseteq DOMAIN h.parents
        /\ h.local \in DOMAIN h.parents /\ h.remote \in DOMAIN h.parents
        /\ \A c, d \in DOMAIN h.parents :
            c \in Ancestors(h.parents, d) /\ d \in Ancestors(h.parents, c) => c = d
ASSUME OrderAssumption ==
    /\ Order \in Seq(Files) /\ Len(Order) = Cardinality(Files)
    /\ \A f \in Files : \E k \in DOMAIN Order : Order[k] = f

VARIABLES
    policy,
    worktree,     \* files on disk
    index, head,  \* blobs of the index and of the HEAD tree
    edits,
    step,         \* of git_diff: "idle", "index", "head", "files", "stat", "known", "committed"
    request,      \* its scope and whether it is staged
    status,       \* Worktree().Status(), as it was read
    idx, tree,    \* the index and HEAD, as they were read
    at,           \* place in Order of the next file
    diffs,        \* its FileDiffs so far
    reply,        \* of the last git_diff
    counts,       \* upstream in the answer of a git_status, with the history
    touched       \* observation: the files edited, staged or committed since it began

repo == <<policy, worktree, index, head, edits>>
call == <<step, request, status, idx, tree, at, diffs>>
vars == <<repo, call, reply, counts, touched>>

NoReply == [code |-> "none", files |-> <<>>, shown |-> 0, truncated |-> FALSE]
NoCounts == [none |-> TRUE]
Nothing == [f \in Files |-> Absent]
Unread == [f \in Files |-> [staging |-> "unmodified", worktree |-> "unmodified"]]

---------------------------------------------------------------------------
(* go-git's status.  A file that is not in the index is untracked on both  *)
(* sides, even if HEAD has it.                                             *)

StatusOf(f) ==
    [worktree |-> IF worktree[f] = index[f] THEN "unmodified"
                  ELSE IF index[f] = Absent THEN "untracked"
                  ELSE IF worktree[f] = Absent THEN "deleted" ELSE "modified",
     staging |-> IF index[f] = Absent /\ worktree[f] # Absent THEN "untracked"
                 ELSE IF index[f] = head[f] THEN "unmodified"
                 ELSE IF head[f] = Absent THEN "added"
                 ELSE IF index[f] = Absent THEN "deleted" ELSE "modified"]

---------------------------------------------------------------------------
(* One file's diff: its two sides and what assemble makes of them *)

Sides(f, change, old, new) == [path |-> f, change |-> change, old |-> old, new |-> new]

\* assemble: symlinks, then content past the limit, then binary content.
Kind(d) ==
    IF d.new = Symlink THEN "symlink"
    ELSE IF {d.old, d.new} \cap Large # {} THEN "large"
    ELSE IF {d.old, d.new} \cap Binary # {} THEN "binary" ELSE "text"

\* unstagedSides: nothing if only staged, else <<FileDiff>>; the worktree is
\* read now.
UnstagedSides(f) ==
    LET change == status[f].worktree
    IN IF change = "unmodified" THEN <<>>
       ELSE << Sides(f, change,
                     IF change = "untracked" THEN Absent ELSE idx[f],
                     IF change = "deleted" THEN Absent ELSE worktree[f]) >>

\* A file the status does not call deleted has gone since.
ReadFails(f) ==
    ~ request.staged /\ status[f].worktree \notin {"unmodified", "deleted"} /\ worktree[f] = Absent

\* stagedSides
StagedSides(f) ==
    LET old == tree[f]
        new == IF status[f].staging = "deleted" THEN Absent ELSE idx[f]
    IN IF status[f].staging \in {"unmodified", "untracked"} THEN <<>>
       ELSE << Sides(f, IF old = Absent /\ new # Absent THEN "added"
                        ELSE IF old # Absent /\ new = Absent THEN "deleted" ELSE "modified",
                     old, new) >>

\* scopeMatches: the path itself or a directory it is in.
ScopeMatches(scope, f) == scope = NoScope \/ f = scope \/ scope \in Above[f]

\* Mutant: only the path itself.
FilterExact(f) == CheckFile(policy, f) /\ request.scope \in {NoScope, f}

\* The filter that gitDiff passes to Diff.
PathFilter(f) == CheckFile(policy, f) /\ ScopeMatches(request.scope, f)

---------------------------------------------------------------------------
(* The answer *)

\* diffPiece: its length.
PieceLen(d) ==
    IF Kind(d) # "text" THEN 1
    ELSE IF d.old = d.new THEN 0
    ELSE (IF d.old = Absent THEN 0 ELSE Weight[d.old]) + (IF d.new = Absent THEN 0 ELSE Weight[d.new])

\* Length of the first n pieces together.
TextLen(ds) ==
    LET len[n \in 0 .. Len(ds)] == IF n = 0 THEN 0 ELSE len[n - 1] + PieceLen(ds[n])
    IN len

\* Mutant: a first piece past the cap is left out like any other.
CutAnywhere(ds) ==
    {n \in DOMAIN ds : TextLen(ds)[n] > DiffCap}

\* The pieces at which the text stops: the cap would be passed and there is
\* text already.
Cuts(ds) == {n \in DOMAIN ds : TextLen(ds)[n] > DiffCap /\ TextLen(ds)[n - 1] > 0}

Shown(ds) == IF Cuts(ds) = {} THEN Len(ds) ELSE (CHOOSE n \in Cuts(ds) : \A m \in Cuts(ds) : n <= m) - 1

Finish(r) ==
    /\ reply' = r
    /\ step' = "idle"
    /\ request' = request
    /\ status' = Unread /\ idx' = Nothing /\ tree' = Nothing /\ at' = 1 /\ diffs' = <<>>
    /\ UNCHANGED <<repo, counts, touched>>

Fail(code) == Finish([NoReply EXCEPT !.code = code])

Deliver ==
    Finish([code |-> "ok", files |-> diffs, shown |-> Shown(diffs),
            truncated |-> Shown(diffs) < Len(diffs)])

---------------------------------------------------------------------------
(* git_diff, one look at the repository per step *)

\* gitDiff: a scope is judged as a file; then Diff reads the status.
Begin(scope, staged) ==
    /\ step = "idle"
    /\ touched' = {}
    /\ request' = [scope |-> scope, staged |-> staged]
    /\ IF scope # NoScope /\ ~ CheckFile(policy, scope)
       THEN /\ reply' = [NoReply EXCEPT !.code = "POLICY_DENIED"]
            /\ UNCHANGED <<step, status>>
       ELSE /\ reply' = NoReply
            /\ step' = "index"
            /\ status' = [f \in Files |-> StatusOf(f)]
    /\ counts' = NoCounts
    /\ UNCHANGED <<repo, idx, tree, at, diffs>>

ReadIndex ==
    /\ step = "index"
    /\ idx' = index
    /\ step' = "head"
    /\ UNCHANGED <<repo, request, status, tree, at, diffs, reply, counts, touched>>

ReadHead ==
    /\ step = "head"
    /\ tree' = head
    /\ step' = "files"
    /\ UNCHANGED <<repo, request, status, idx, at, diffs, reply, counts, touched>>

\* One round of Diff's loop; a worktree file that cannot be read fails the
\* whole call.
DiffFile ==
    /\ step = "files" /\ at <= Len(Order)
    /\ LET f == Order[at]
       IN IF ~ PathFilter(f)
          THEN /\ at' = at + 1
               /\ UNCHANGED <<repo, step, request, status, idx, tree, diffs, reply, counts, touched>>
          ELSE IF ReadFails(f) THEN Fail("NOT_FOUND")
          ELSE /\ diffs' = diffs \o (IF request.staged THEN StagedSides(f) ELSE UnstagedSides(f))
               /\ at' = at + 1
               /\ UNCHANGED <<repo, step, request, status, idx, tree, reply, counts, touched>>

\* Mutant: the loop runs on past the last file.
AfterDiffAgain ==
    /\ step = "files" /\ at > Len(Order)
    /\ at' = at + 1
    /\ UNCHANGED <<repo, step, request, status, idx, tree, diffs, reply, counts, touched>>

\* After the loop: a scoped diff without files asks whether the path exists.
AfterDiff ==
    /\ step = "files" /\ at > Len(Order)
    /\ IF request.scope # NoScope /\ diffs = <<>>
       THEN /\ step' = "stat"
            /\ UNCHANGED <<repo, request, status, idx, tree, at, diffs, reply, counts, touched>>
       ELSE Deliver

\* Directories are there as long as a file is in them.
In(where, path) == \E f \in Files : where[f] # Absent /\ ScopeMatches(path, f)

\* Root.Stat of the scope.  Its own check of the policy passes: the scope has
\* passed CheckFile in Begin, and CheckDir allows what that allows.
StatScope ==
    /\ step = "stat"
    /\ IF In(worktree, request.scope) THEN Deliver
       ELSE /\ step' = "known"
            /\ UNCHANGED <<repo, request, status, idx, tree, at, diffs, reply, counts, touched>>

\* Mutant: only the index is asked.
AskIndexOnly ==
    /\ step = "known"
    /\ IF In(index, request.scope) THEN Deliver ELSE Fail("NOT_FOUND")

\* PathInRepo: the index, then HEAD.
AskIndex ==
    /\ step = "known"
    /\ IF In(index, request.scope) THEN Deliver
       ELSE /\ step' = "committed"
            /\ UNCHANGED <<repo, request, status, idx, tree, at, diffs, reply, counts, touched>>

AskHead ==
    /\ step = "committed"
    /\ IF In(head, request.scope) THEN Deliver ELSE Fail("NOT_FOUND")

---------------------------------------------------------------------------
(* git_status: its upstream counts *)

\* Commits, pulls and fetches may have brought the branch and its tracking
\* ref anywhere.
StatusAnswers ==
    UNION {{[of |-> h, upstream |-> c] : c \in Counts(h.parents, h.local, h.remote)} :
           h \in Histories}

GitStatus ==
    /\ step = "idle"
    /\ counts' \in StatusAnswers
    /\ UNCHANGED <<repo, call, reply, touched>>

---------------------------------------------------------------------------
(* Somebody else at work in the repository *)

Edit(files) ==
    /\ edits < MaxEdits
    /\ edits' = edits + 1
    /\ touched' = touched \cup files
    /\ UNCHANGED <<policy, call, reply, counts>>

WriteFile(f) ==
    /\ Edit({f})
    /\ \E c \in InWorktree \ {worktree[f]} : worktree' = [worktree EXCEPT ![f] = c]
    /\ UNCHANGED <<index, head>>

\* git add, git rm; a symlink is left to the worktree.
Stage(f) ==
    /\ Edit({f}) /\ worktree[f] \notin {Symlink, index[f]}
    /\ index' = [index EXCEPT ![f] = worktree[f]]
    /\ UNCHANGED <<worktree, head>>

Commit ==
    /\ Edit({f \in Files : head[f] # index[f]}) /\ head # index
    /\ head' = index
    /\ UNCHANGED <<worktree, index>>

---------------------------------------------------------------------------
Init ==
    /\ policy \in Policies
    /\ \E r \in InitialRepos : worktree = r.worktree /\ index = r.index /\ head = r.head
    /\ edits = 0
    /\ step = "idle" /\ request = [scope |-> NoScope, staged |-> FALSE]
    /\ status = Unread /\ idx = Nothing /\ tree = Nothing /\ at = 1 /\ diffs = <<>>
    /\ reply = NoReply /\ counts = NoCounts /\ touched = {}

Next ==
    \/ \E scope \in Scopes, staged \in BOOLEAN : Begin(scope, staged)
    \/ ReadIndex \/ ReadHead \/ DiffFile \/ AfterDiff \/ StatScope \/ AskIndex \/ AskHead
    \/ GitStatus
    \/ \E f \in Files : WriteFile(f) \/ Stage(f)
    \/ Commit

Spec == Init /\ [][Next]_vars
---------------------------------------------------------------------------
(* Properties *)

FileDiff == [path : Files, change : {"added", "modified", "deleted", "untracked"},
             old : InGit, new : InWorktree]

TypeOK ==
    /\ policy \in Policies
    /\ worktree \in [Files -> InWorktree]
    /\ index \in [Files -> InGit] /\ head \in [Files -> InGit]
    /\ edits \in 0 .. MaxEdits
    /\ step \in {"idle", "index", "head", "files", "stat", "known", "committed"}
    /\ request \in [scope : Scopes, staged : BOOLEAN]
    /\ idx \in [Files -> InGit] /\ tree \in [Files -> InGit]
    /\ at \in 1 .. Len(Order) + 1
    /\ diffs \in Seq(FileDiff)
    /\ Len(diffs) < at
    /\ touched \subseteq Files

\* The sides of a file that the request compares.
OldSide(f) == IF request.staged THEN head[f] ELSE index[f]
NewSide(f) == IF request.staged THEN index[f] ELSE worktree[f]

\* What git calls the change.  A file removed from the index that is still
\* in the worktree is not among the staged changes: go-git calls it untracked.
Changed(f) ==
    /\ OldSide(f) # NewSide(f)
    /\ request.staged => ~ (index[f] = Absent /\ worktree[f] # Absent)
ChangeName(f) ==
    IF OldSide(f) = Absent THEN IF request.staged THEN "added" ELSE "untracked"
    ELSE IF NewSide(f) = Absent THEN "deleted" ELSE "modified"

Answered(code) == step = "idle" /\ reply.code = code

\* Files an answer may list.
Wanted(f) ==
    CheckFile(policy, f) /\ (request.scope = NoScope \/ request.scope \in Above[f] \cup {f})

\* However many moments of the repository a diff mixes: it lists allowed
\* files in scope only, each once and in path order, and of the files that
\* nobody touched meanwhile exactly the changed ones, with the two contents
\* they have and the name of their change, even when the text is cut.
\* (Diff, gitDiff)
TellsTheChanges ==
    Answered("ok") =>
        LET told == DOMAIN reply.files
            Path(k) == reply.files[k].path
        IN /\ \A k \in told : Wanted(Path(k))
           /\ \A k, l \in told : \A i, j \in DOMAIN Order :
                Path(k) = Order[i] /\ Path(l) = Order[j] /\ k < l => i < j
           /\ \A f \in Files \ touched :
                /\ Changed(f) /\ Wanted(f) => \E k \in told : Path(k) = f
                /\ \A k \in told : Path(k) = f =>
                    /\ Changed(f)
                    /\ reply.files[k] = Sides(f, ChangeName(f), OldSide(f), NewSide(f))

\* NOT_FOUND is told from "no changes": a diff during which nobody touched
\* the files in scope answers it just when the scope is in neither worktree,
\* index nor HEAD, and never without a scope, whatever was done to the other
\* files.  (gitDiff, mcp/tools.go)
NotFoundIsTrue ==
    (\A f \in touched : ~ ScopeMatches(request.scope, f)) =>
        LET Nowhere == /\ request.scope # NoScope
                       /\ \A where \in {worktree, index, head} : ~ In(where, request.scope)
        IN /\ Answered("NOT_FOUND") => Nowhere
           /\ Answered("ok") => ~ Nowhere

\* Whatever was edited meanwhile, the text keeps to the cap unless its first
\* piece alone passes it, and is cut only when there is some text and the
\* next piece does not fit.  (gitDiff, mcp/tools.go)
TextKeepsToTheCap ==
    step = "idle" /\ reply.code = "ok" =>
        LET len == TextLen(reply.files)
        IN /\ len[reply.shown] > DiffCap =>
                  \A n \in 1 .. reply.shown : len[n] \in {0, len[reply.shown]}
           /\ reply.truncated => len[reply.shown] > 0 /\ len[reply.shown + 1] > DiffCap

\* Counts that are not capped are exact, merges or not, and a branch is in
\* sync just when it is where its upstream is.  (resolveUpstream)
UncappedCountsAreExact ==
    counts # NoCounts =>
        LET Mine == Ancestors(counts.of.parents, counts.of.local)
            Theirs == Ancestors(counts.of.parents, counts.of.remote)
            said == counts.upstream
        IN /\ ~ said.capped => /\ said.ahead = Cardinality(Mine \ Theirs)
                               /\ said.behind = Cardinality(Theirs \ Mine)
           /\ said.inSync <=> counts.of.local = counts.of.remote

\* What upstream.go and docs/design.md say of capped counts: they are lower
\* bounds.
CappedCountsAreLowerBounds ==
    counts # NoCounts =>
        LET Mine == Ancestors(counts.of.parents, counts.of.local)
            Theirs == Ancestors(counts.of.parents, counts.of.remote)
            said == counts.upstream
        IN /\ said.ahead <= Cardinality(Mine \ Theirs)
           /\ said.behind <= Cardinality(Theirs \ Mine)
============================================================================
