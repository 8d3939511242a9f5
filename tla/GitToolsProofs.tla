--------------------------- MODULE GitToolsProofs ---------------------------
(***************************************************************************)
(* What GitTools promises for every set of files, every repository, policy *)
(* and cap, every history, and any number of edits.                        *)
(***************************************************************************)
EXTENDS GitTools, PrefixesProofs

---------------------------------------------------------------------------
(* Types *)

FileStatus == [worktree : {"unmodified", "untracked", "deleted", "modified"},
               staging : {"unmodified", "untracked", "added", "deleted", "modified"}]

\* What was read of the status is a status, and an answer with files was cut
\* where Shown says.
CallFits ==
    /\ status \in [Files -> FileStatus]
    /\ reply.code = "ok" =>
        /\ reply.files \in Seq(FileDiff)
        /\ reply.shown = Shown(reply.files)
        /\ reply.truncated <=> Shown(reply.files) < Len(reply.files)

LEMMA BlobsAreContents == InGit \subseteq InWorktree
BY DEF InGit, InWorktree

LEMMA OrderedFiles ==
    ASSUME NEW n \in 1 .. Len(Order)
    PROVE  Order[n] \in Files /\ Len(Order) \in Nat
BY OrderAssumption, ElementOfSeq

LEMMA IdleFits ==
    /\ Unread \in [Files -> FileStatus]
    /\ Nothing \in [Files -> InGit]
    /\ <<>> \in Seq(FileDiff) /\ Len(<<>>) = 0
    /\ 1 \in 1 .. Len(Order) + 1
<1>1. Len(Order) \in Nat
  BY OrderAssumption
<1> QED BY <1>1 DEF Unread, FileStatus, Nothing, InGit

LEMMA StatusType ==
    ASSUME NEW f \in Files
    PROVE  StatusOf(f) \in FileStatus
BY DEF StatusOf, FileStatus

\* The sides of one file: a sequence of at most one diff.
LEMMA SidesType ==
    ASSUME TypeOK, CallFits, NEW f \in Files
    PROVE  /\ UnstagedSides(f) \in Seq(FileDiff) /\ Len(UnstagedSides(f)) <= 1
           /\ StagedSides(f) \in Seq(FileDiff) /\ Len(StagedSides(f)) <= 1
           /\ UnstagedSides(f) = <<>> \/ \E d \in FileDiff : UnstagedSides(f) = <<d>> /\ d.path = f
           /\ StagedSides(f) = <<>> \/ \E d \in FileDiff : StagedSides(f) = <<d>> /\ d.path = f
<1>1. /\ status[f].worktree \in {"unmodified", "untracked", "deleted", "modified"}
      /\ idx[f] \in InGit /\ tree[f] \in InGit /\ worktree[f] \in InWorktree
      /\ Absent \in InGit
  BY DEF TypeOK, CallFits, FileStatus, InGit
<1>2. \A change, old, new :
        /\ change \in {"added", "modified", "deleted", "untracked"}
        /\ old \in InGit /\ new \in InWorktree
        => Sides(f, change, old, new) \in FileDiff /\ Sides(f, change, old, new).path = f
  BY DEF Sides, FileDiff
<1>3. UnstagedSides(f) = <<>> \/ \E d \in FileDiff : UnstagedSides(f) = <<d>> /\ d.path = f
  BY <1>1, <1>2, BlobsAreContents DEF UnstagedSides
<1>4. StagedSides(f) = <<>> \/ \E d \in FileDiff : StagedSides(f) = <<d>> /\ d.path = f
  BY <1>1, <1>2, BlobsAreContents DEF StagedSides
<1>5. \A d \in FileDiff : <<d>> \in Seq(FileDiff) /\ Len(<<d>>) <= 1
  OBVIOUS
<1>6. <<>> \in Seq(FileDiff) /\ Len(<<>>) <= 1
  OBVIOUS
<1> QED BY <1>3, <1>4, <1>5, <1>6

LEMMA TypeInit == Init => TypeOK /\ CallFits
<1> SUFFICES ASSUME Init PROVE TypeOK /\ CallFits
  OBVIOUS
<1>1. PICK r \in InitialRepos : worktree = r.worktree /\ index = r.index /\ head = r.head
  BY DEF Init
<1>2. /\ worktree \in [Files -> InWorktree]
      /\ index \in [Files -> InGit] /\ head \in [Files -> InGit]
  BY <1>1, GitAssumption
<1>3. request \in [scope : Scopes, staged : BOOLEAN] /\ 0 \in 0 .. MaxEdits
  BY GitAssumption DEF Init
<1>4. /\ status = Unread /\ idx = Nothing /\ tree = Nothing /\ at = 1 /\ diffs = <<>>
      /\ policy \in Policies /\ edits = 0 /\ step = "idle" /\ touched = {}
      /\ reply.code # "ok"
  BY DEF Init, NoReply
<1>5. CallFits
  BY <1>4, IdleFits DEF CallFits
<1>6. /\ idx \in [Files -> InGit] /\ tree \in [Files -> InGit]
      /\ at \in 1 .. Len(Order) + 1 /\ diffs \in Seq(FileDiff) /\ Len(diffs) < at
  BY <1>4, IdleFits
<1>7. /\ edits \in 0 .. MaxEdits /\ touched \subseteq Files
      /\ step \in {"idle", "index", "head", "files", "stat", "known", "committed"}
  BY <1>3, <1>4
<1> QED BY <1>2, <1>3, <1>4, <1>5, <1>6, <1>7 DEF TypeOK

\* Ending a call with an answer that fits.
LEMMA FinishFits ==
    ASSUME TypeOK, CallFits, NEW r, Finish(r),
           r.code = "ok" => /\ r.files \in Seq(FileDiff) /\ r.shown = Shown(r.files)
                            /\ r.truncated <=> Shown(r.files) < Len(r.files)
    PROVE  TypeOK' /\ CallFits'
<1>1. CallFits'
  BY IdleFits DEF Finish, CallFits
<1>2. /\ UNCHANGED <<policy, worktree, index, head, edits, request, touched>>
      /\ step' = "idle" /\ idx' = Nothing /\ tree' = Nothing /\ at' = 1 /\ diffs' = <<>>
  BY DEF Finish, repo
<1> QED BY <1>1, <1>2, IdleFits DEF TypeOK

LEMMA DeliverFits == ASSUME TypeOK, CallFits, Deliver PROVE TypeOK' /\ CallFits'
BY FinishFits DEF Deliver, TypeOK

LEMMA FailFits ==
    ASSUME TypeOK, CallFits, NEW code, code # "ok", Fail(code)
    PROVE  TypeOK' /\ CallFits'
BY FinishFits DEF Fail, NoReply

LEMMA TypeStep ==
    ASSUME TypeOK, CallFits, [Next]_vars
    PROVE  TypeOK' /\ CallFits'
<1>1. ASSUME NEW scope \in Scopes, NEW staged \in BOOLEAN, Begin(scope, staged)
      PROVE  TypeOK' /\ CallFits'
  <2>1. request' \in [scope : Scopes, staged : BOOLEAN]
    BY <1>1 DEF Begin
  <2>2. status' \in [Files -> FileStatus] /\ step' \in {"idle", "index"} /\ reply'.code # "ok"
    BY <1>1, StatusType DEF Begin, CallFits, NoReply
  <2> QED BY <1>1, <2>1, <2>2 DEF Begin, TypeOK, CallFits, repo
<1>2. CASE ReadIndex
  BY <1>2 DEF ReadIndex, TypeOK, CallFits, repo
<1>3. CASE ReadHead
  BY <1>3 DEF ReadHead, TypeOK, CallFits, repo
<1>4. CASE DiffFile
  <2> DEFINE f == Order[at]
             sides == IF request.staged THEN StagedSides(f) ELSE UnstagedSides(f)
  <2>1. at \in 1 .. Len(Order) /\ Len(Order) \in Nat /\ f \in Files
    BY <1>4, OrderedFiles, OrderAssumption DEF DiffFile, TypeOK
  <2>2. at + 1 \in 1 .. Len(Order) + 1
    BY <2>1
  <2>3. sides \in Seq(FileDiff) /\ Len(sides) <= 1
    BY <2>1, SidesType
  <2> HIDE DEF f
  <2>4. CASE ~ PathFilter(f)
    <3>1. at' = at + 1 /\ UNCHANGED <<repo, step, request, status, idx, tree, diffs, reply, counts, touched>>
      BY <1>4, <2>4 DEF DiffFile, f
    <3>2. Len(diffs') < at'
      BY <2>1, <3>1 DEF TypeOK
    <3> QED BY <2>2, <3>1, <3>2 DEF TypeOK, CallFits, repo
  <2>5. CASE PathFilter(f) /\ ReadFails(f)
    BY <1>4, <2>5, FailFits DEF DiffFile, f
  <2>6. CASE PathFilter(f) /\ ~ ReadFails(f)
    <3>1. /\ at' = at + 1 /\ diffs' = diffs \o sides
          /\ UNCHANGED <<repo, step, request, status, idx, tree, reply, counts, touched>>
      BY <1>4, <2>6 DEF DiffFile, f
    <3> HIDE DEF sides
    <3>2. diffs' \in Seq(FileDiff) /\ Len(diffs') = Len(diffs) + Len(sides)
      BY <2>3, <3>1 DEF TypeOK
    <3>3. Len(diffs') < at'
      BY <2>1, <2>3, <3>1, <3>2 DEF TypeOK
    <3> QED BY <2>2, <3>1, <3>2, <3>3 DEF TypeOK, CallFits, repo
  <2> QED BY <2>4, <2>5, <2>6
<1>5. CASE AfterDiff
  <2>1. CASE Deliver
    BY <2>1, DeliverFits
  <2>2. CASE /\ step' = "stat"
             /\ UNCHANGED <<repo, request, status, idx, tree, at, diffs, reply, counts, touched>>
    BY <2>2 DEF TypeOK, CallFits, repo
  <2> QED BY <1>5, <2>1, <2>2 DEF AfterDiff
<1>6. CASE StatScope
  <2>1. CASE Deliver
    BY <2>1, DeliverFits
  <2>2. CASE /\ step' = "known"
             /\ UNCHANGED <<repo, request, status, idx, tree, at, diffs, reply, counts, touched>>
    BY <2>2 DEF TypeOK, CallFits, repo
  <2> QED BY <1>6, <2>1, <2>2 DEF StatScope
<1>7. CASE AskIndex
  <2>1. CASE Deliver
    BY <2>1, DeliverFits
  <2>2. CASE /\ step' = "committed"
             /\ UNCHANGED <<repo, request, status, idx, tree, at, diffs, reply, counts, touched>>
    BY <2>2 DEF TypeOK, CallFits, repo
  <2> QED BY <1>7, <2>1, <2>2 DEF AskIndex
<1>14. CASE AskHead
  BY <1>14, DeliverFits, FailFits DEF AskHead
<1>8. CASE GitStatus
  BY <1>8 DEF GitStatus, TypeOK, CallFits, repo, call
<1>9. ASSUME NEW files \in SUBSET Files, Edit(files), worktree' \in [Files -> InWorktree], index' \in [Files -> InGit], head' \in [Files -> InGit]
      PROVE  TypeOK' /\ CallFits'
  <2>1. edits' \in 0 .. MaxEdits
    BY <1>9, GitAssumption DEF Edit, TypeOK
  <2> QED BY <1>9, <2>1 DEF Edit, TypeOK, CallFits, call
<1>10. ASSUME NEW f \in Files, WriteFile(f)
       PROVE  TypeOK' /\ CallFits'
  BY <1>9, <1>10 DEF WriteFile, TypeOK
<1>11. ASSUME NEW f \in Files, Stage(f)
       PROVE  TypeOK' /\ CallFits'
  <2>1. worktree[f] \in InGit
    BY <1>11 DEF Stage, TypeOK, InGit, InWorktree
  <2> QED BY <1>9, <1>11, <2>1 DEF Stage, TypeOK
<1>12. CASE Commit
  BY <1>9, <1>12 DEF Commit, TypeOK
<1>13. CASE UNCHANGED vars
  BY <1>13 DEF vars, repo, call, TypeOK, CallFits
<1> QED
  BY <1>1, <1>2, <1>3, <1>4, <1>5, <1>6, <1>7, <1>8, <1>10, <1>11, <1>12, <1>13, <1>14 DEF Next

LEMMA TypeInductive == Spec => [](TypeOK /\ CallFits)
<1>1. TypeOK /\ CallFits /\ [Next]_vars => (TypeOK /\ CallFits)'
  BY TypeStep
<1> QED BY TypeInit, <1>1, PTL DEF Spec

\* Whoever edits, stages and commits meanwhile, a git_diff keeps to its
\* types: it goes over the files once and has at most one diff of each.
THEOREM TypeCorrect == Spec => []TypeOK
BY TypeInductive, PTL

---------------------------------------------------------------------------
(* The text of a diff *)

Lengths(ds) == [n \in 1 .. Len(ds) |-> PieceLen(ds[n])]

LEMMA PieceLenType ==
    ASSUME NEW d \in FileDiff
    PROVE  PieceLen(d) \in Nat
<1>1. d.old \in Content \cup {Absent} /\ d.new \in Content \cup {Absent, Symlink}
  BY DEF FileDiff, InGit, InWorktree
<1>2. Kind(d) = "text" => d.new # Symlink
  BY DEF Kind
<1>3. \A c \in Content : Weight[c] \in Nat
  BY GitAssumption
<1> QED BY <1>1, <1>2, <1>3 DEF PieceLen

\* TextLen adds up the lengths of the pieces.
LEMMA TextTotals ==
    ASSUME NEW ds \in Seq(FileDiff)
    PROVE  /\ Len(ds) \in Nat
           /\ TextLen(ds) \in [0 .. Len(ds) -> Nat] /\ TextLen(ds)[0] = 0
           /\ \A n \in 0 .. Len(ds) : \A m \in 0 .. n : TextLen(ds)[m] <= TextLen(ds)[n]
<1> DEFINE F(g) == [n \in 0 .. Len(ds) |-> IF n = 0 THEN 0 ELSE g[n - 1] + PieceLen(ds[n])]
<1>1. Lengths(ds) \in [1 .. Len(ds) -> Nat] /\ Len(ds) \in Nat
  <2>1. \A n \in 1 .. Len(ds) : ds[n] \in FileDiff
    BY ElementOfSeq
  <2> QED BY <2>1, PieceLenType DEF Lengths
<1>2. \A g : g = F(g) <=> Totals(g, Len(ds), Lengths(ds))
  <2> TAKE g
  <2>1. F(g) = [n \in 0 .. Len(ds) |-> IF n = 0 THEN 0 ELSE g[n - 1] + Lengths(ds)[n]]
    BY DEF Lengths
  <2> QED BY <2>1 DEF Totals
<1>3. TextLen(ds) = CHOOSE g : g = F(g)
  BY DEF TextLen
<1> HIDE DEF F
<1>4. TextLen(ds) = F(TextLen(ds))
  BY <1>1, <1>2, <1>3, TotalsExist
<1>5. Totals(TextLen(ds), Len(ds), Lengths(ds))
  BY <1>2, <1>4
<1> QED BY <1>1, <1>5, TotalsRise

\* The text that is shown passes the cap only as one piece, and the piece at
\* which it is cut does not fit.
LEMMA ShownKeepsToTheCap ==
    ASSUME NEW ds \in Seq(FileDiff)
    PROVE  LET len == TextLen(ds)
               s == Shown(ds)
           IN /\ len[s] > DiffCap => \A n \in 1 .. s : len[n] \in {0, len[s]}
              /\ s < Len(ds) => len[s] > 0 /\ len[s + 1] > DiffCap
<1> DEFINE N == Len(ds)
           len == TextLen(ds)
           s == Shown(ds)
<1>1. /\ N \in Nat /\ DOMAIN ds = 1 .. N /\ len[0] = 0 /\ DiffCap \in Nat
      /\ \A n \in 0 .. N : len[n] \in Nat
      /\ \A n \in 0 .. N : \A m \in 0 .. n : len[m] <= len[n]
  BY TextTotals, GitAssumption
<1>2. \A n \in 1 .. N : n \in Cuts(ds) <=> len[n] > DiffCap /\ len[n - 1] > 0
  BY <1>1 DEF Cuts
<1>3. /\ s \in 0 .. N /\ s \notin Cuts(ds)
      /\ s < N => s + 1 \in Cuts(ds)
  <2>1. CASE Cuts(ds) = {}
    BY <1>1, <2>1 DEF Shown
  <2>2. CASE Cuts(ds) # {}
    <3>1. Cuts(ds) \subseteq Nat /\ \A n \in Cuts(ds) : n \in 1 .. N
      BY <1>1 DEF Cuts
    <3> DEFINE c == CHOOSE n \in Cuts(ds) : \A m \in Cuts(ds) : n <= m
    <3>2. c \in Cuts(ds) /\ \A m \in Cuts(ds) : c <= m
      <4>1. \E n \in Cuts(ds) : \A m \in Cuts(ds) : n <= m
        BY <2>2, <3>1, LeastNumber
      <4> QED BY <4>1
    <3>3. s = c - 1
      BY <2>2 DEF Shown
    <3> HIDE DEF c, s
    <3>4. c \in 1 .. N /\ s + 1 = c /\ s \in 0 .. N
      BY <1>1, <3>1, <3>2, <3>3
    <3>5. s \notin Cuts(ds)
      BY <3>2, <3>3, <3>4
    <3> QED BY <3>2, <3>4, <3>5
  <2> QED BY <2>1, <2>2
<1> HIDE DEF s, N, len
<1>4. ASSUME len[s] > DiffCap, NEW n \in 1 .. s PROVE len[n] \in {0, len[s]}
  <2>1. s \in 1 .. N /\ s - 1 \in 0 .. N /\ n \in 0 .. N
    BY <1>1, <1>3
  <2>2. len[s - 1] = 0
    BY <1>1, <1>2, <1>3, <1>4, <2>1
  <2>3. CASE n = s
    BY <2>3
  <2>4. CASE n \in 0 .. s - 1
    BY <1>1, <2>1, <2>2, <2>4
  <2> QED BY <1>3, <2>3, <2>4
<1>5. ASSUME s < N PROVE len[s] > 0 /\ len[s + 1] > DiffCap
  <2>1. s + 1 \in 1 .. N /\ s + 1 - 1 = s
    BY <1>1, <1>3, <1>5
  <2>2. len[s + 1] > DiffCap /\ len[s + 1 - 1] > 0
    BY <1>2, <1>3, <1>5, <2>1
  <2> QED BY <2>1, <2>2
<1> QED BY <1>4, <1>5 DEF s, N, len

\* Whatever the contents weigh and whoever edits them: the text keeps to the
\* cap unless its first piece alone passes it, and is cut only where the next
\* piece does not fit.
THEOREM TextKeeps == Spec => []TextKeepsToTheCap
<1>1. CallFits => TextKeepsToTheCap
  BY ShownKeepsToTheCap DEF CallFits, TextKeepsToTheCap
<1> QED BY TypeInductive, <1>1, PTL
---------------------------------------------------------------------------
(* A diff among edits *)

Place(f) == CHOOSE i \in DOMAIN Order : Order[i] = f

\* Order has every file once.
LEMMA OrderPlaces ==
    /\ Len(Order) \in Nat /\ DOMAIN Order = 1 .. Len(Order)
    /\ \A f \in Files : Place(f) \in 1 .. Len(Order) /\ Order[Place(f)] = f
    /\ \A i \in 1 .. Len(Order) : Order[i] \in Files /\ Place(Order[i]) = i
<1>1. /\ Len(Order) \in Nat /\ DOMAIN Order = 1 .. Len(Order) /\ Order \in [1 .. Len(Order) -> Files]
      /\ \A i \in 1 .. Len(Order) : Order[i] \in Files
  BY OrderAssumption, ElementOfSeq
<1>2. \A f \in Files : Place(f) \in 1 .. Len(Order) /\ Order[Place(f)] = f
  BY <1>1, OrderAssumption DEF Place
<1>3. Order \in Surjection(1 .. Len(Order), Files)
  BY <1>1, <1>2 DEF Surjection
<1>4. IsFiniteSet(1 .. Len(Order)) /\ Cardinality(1 .. Len(Order)) = Len(Order)
  BY <1>1, FS_Interval
<1>5. \A i, j \in 1 .. Len(Order) : Order[i] = Order[j] => i = j
  BY <1>3, <1>4, OrderAssumption, FS_Surjection DEF Injection, IsInjective
<1> QED BY <1>1, <1>2, <1>5

\* What is to be said of a changed file.
Entry(f) == Sides(f, ChangeName(f), OldSide(f), NewSide(f))

\* What the loop has after the first n files.
TellsUpTo(ds, n) ==
    /\ \A k \in DOMAIN ds :
        /\ ds[k].path \in Files /\ Place(ds[k].path) <= n /\ PathFilter(ds[k].path)
        /\ ds[k].path \notin touched => Changed(ds[k].path) /\ ds[k] = Entry(ds[k].path)
    /\ \A k, l \in DOMAIN ds : k < l => Place(ds[k].path) < Place(ds[l].path)
    /\ \A f \in Files \ touched :
        Place(f) <= n /\ Changed(f) /\ PathFilter(f) => \E k \in DOMAIN ds : ds[k].path = f

\* Nobody touched the files in scope.
Quiet == \A f \in touched : ~ ScopeMatches(request.scope, f)

\* What a call has read of the files nobody touched is what is there, its
\* diffs are those of the files it has passed, and the questions it asks when
\* there are none have been answered with no so far.
ReadsWhatIsThere ==
    /\ step # "idle" => \A f \in Files \ touched : status[f] = StatusOf(f)
    /\ step \in {"head", "files", "stat", "known", "committed"} =>
        \A f \in Files \ touched : idx[f] = index[f]
    /\ step \in {"files", "stat", "known", "committed"} =>
        /\ \A f \in Files \ touched : tree[f] = head[f]
        /\ TellsUpTo(diffs, at - 1)
    /\ step \in {"index", "head"} => at = 1 /\ diffs = <<>>
    /\ step \in {"stat", "known", "committed"} =>
        at = Len(Order) + 1 /\ diffs = <<>> /\ request.scope # NoScope
    /\ step \in {"known", "committed"} /\ Quiet => ~ In(worktree, request.scope)
    /\ step = "committed" /\ Quiet => ~ In(index, request.scope)

DiffInv ==
    /\ step = "idle" => at = 1 /\ diffs = <<>>
    /\ ReadsWhatIsThere
    /\ TellsTheChanges /\ NotFoundIsTrue

\* What an edit leaves alone: what is told of the files it does not touch.
LEMMA ViewStays ==
    ASSUME TypeOK, UNCHANGED <<policy, request>>, touched \subseteq touched',
           \A f \in Files \ touched' :
               worktree'[f] = worktree[f] /\ index'[f] = index[f] /\ head'[f] = head[f]
    PROVE  /\ \A ds, n : TellsUpTo(ds, n) => TellsUpTo(ds, n)'
           /\ \A f \in Files \ touched' : StatusOf(f)' = StatusOf(f)
           /\ Quiet' => /\ Quiet
                        /\ In(worktree, request.scope)' <=> In(worktree, request.scope)
                        /\ In(index, request.scope)' <=> In(index, request.scope)
                        /\ In(head, request.scope)' <=> In(head, request.scope)
<1>1. \A f \in Files \ touched' : /\ OldSide(f)' = OldSide(f) /\ NewSide(f)' = NewSide(f)
                                  /\ Changed(f)' <=> Changed(f)
  BY DEF OldSide, NewSide, Changed
<1>2. \A f \in Files \ touched' : Entry(f)' = Entry(f)
  BY <1>1 DEF Entry, ChangeName
<1>3. \A f : PathFilter(f)' <=> PathFilter(f)
  BY DEF PathFilter
<1>4. \A ds, n : TellsUpTo(ds, n) => TellsUpTo(ds, n)'
  <2> SUFFICES ASSUME NEW ds, NEW n, TellsUpTo(ds, n)
               PROVE  TellsUpTo(ds, n)'
    OBVIOUS
  <2>1. \A k \in DOMAIN ds :
          /\ ds[k].path \in Files /\ Place(ds[k].path) <= n /\ PathFilter(ds[k].path)'
          /\ ds[k].path \notin touched' => Changed(ds[k].path)' /\ ds[k] = Entry(ds[k].path)'
    BY <1>1, <1>2, <1>3 DEF TellsUpTo
  <2>2. \A f \in Files \ touched' :
          Place(f) <= n /\ Changed(f)' /\ PathFilter(f)' => \E k \in DOMAIN ds : ds[k].path = f
    BY <1>1, <1>3 DEF TellsUpTo
  <2> QED BY <2>1, <2>2 DEF TellsUpTo
<1>5. \A f \in Files \ touched' : StatusOf(f)' = StatusOf(f)
  BY DEF StatusOf
<1>6. ASSUME Quiet'
      PROVE  /\ Quiet
             /\ In(worktree, request.scope)' <=> In(worktree, request.scope)
             /\ In(index, request.scope)' <=> In(index, request.scope)
             /\ In(head, request.scope)' <=> In(head, request.scope)
  <2>1. \A f \in touched' : ~ ScopeMatches(request.scope, f)
    BY <1>6 DEF Quiet, ScopeMatches
  <2>2. Quiet
    BY <2>1 DEF Quiet
  <2>3. \A f \in Files : ScopeMatches(request.scope, f) =>
          worktree'[f] = worktree[f] /\ index'[f] = index[f] /\ head'[f] = head[f]
    BY <2>1
  <2> QED BY <2>2, <2>3 DEF In, ScopeMatches
<1> QED BY <1>4, <1>5, <1>6

\* One file of a diff that nobody touched: its worktree file can be read, and
\* its sides are those of its change, if it has one.
LEMMA SidesTell ==
    ASSUME ReadsWhatIsThere, step = "files", NEW f \in Files \ touched
    PROVE  /\ ~ ReadFails(f)
           /\ (IF request.staged THEN StagedSides(f) ELSE UnstagedSides(f))
              = IF Changed(f) THEN <<Entry(f)>> ELSE <<>>
<1>1. /\ status[f] = StatusOf(f) /\ idx[f] = index[f] /\ tree[f] = head[f]
  BY DEF ReadsWhatIsThere
<1>2. /\ status[f].worktree =
            IF worktree[f] = index[f] THEN "unmodified"
            ELSE IF index[f] = Absent THEN "untracked"
            ELSE IF worktree[f] = Absent THEN "deleted" ELSE "modified"
      /\ status[f].staging =
            IF index[f] = Absent /\ worktree[f] # Absent THEN "untracked"
            ELSE IF index[f] = head[f] THEN "unmodified"
            ELSE IF head[f] = Absent THEN "added"
            ELSE IF index[f] = Absent THEN "deleted" ELSE "modified"
  BY <1>1 DEF StatusOf
<1>3. ~ ReadFails(f)
  BY <1>2 DEF ReadFails
<1>4. CASE request.staged
  <2>1. Changed(f) <=> status[f].staging \notin {"unmodified", "untracked"}
    BY <1>2, <1>4 DEF Changed, OldSide, NewSide
  <2>2. ASSUME Changed(f)
        PROVE  StagedSides(f) = <<Entry(f)>>
    <3>1. status[f].staging \notin {"unmodified", "untracked"}
      BY <2>1, <2>2
    <3>2. (IF status[f].staging = "deleted" THEN Absent ELSE idx[f]) = index[f]
      BY <1>1, <1>2
    <3>3. Entry(f) = Sides(f, IF head[f] = Absent THEN "added"
                              ELSE IF index[f] = Absent THEN "deleted" ELSE "modified",
                           head[f], index[f])
      BY <1>4 DEF Entry, ChangeName, OldSide, NewSide
    <3>4. head[f] # index[f]
      BY <1>4, <2>2 DEF Changed, OldSide, NewSide
    <3> QED BY <1>1, <3>1, <3>2, <3>3, <3>4 DEF StagedSides
  <2>3. ~ Changed(f) => StagedSides(f) = <<>>
    BY <2>1 DEF StagedSides
  <2> QED BY <1>3, <1>4, <2>2, <2>3
<1>5. CASE ~ request.staged
  <2>1. Changed(f) <=> status[f].worktree # "unmodified"
    BY <1>2, <1>5 DEF Changed, OldSide, NewSide
  <2>2. Changed(f) => UnstagedSides(f) = <<Entry(f)>>
    BY <1>1, <1>2, <1>5, <2>1 DEF UnstagedSides, Entry, ChangeName, OldSide, NewSide
  <2>3. ~ Changed(f) => UnstagedSides(f) = <<>>
    BY <2>1 DEF UnstagedSides
  <2> QED BY <1>3, <1>5, <2>2, <2>3
<1> QED BY <1>4, <1>5

\* A round of the loop takes up the next file.
LEMMA LoopTells ==
    ASSUME TypeOK, CallFits, ReadsWhatIsThere, DiffFile,
           ~ (PathFilter(Order[at]) /\ ReadFails(Order[at]))
    PROVE  /\ step' = "files" /\ at' = at + 1
           /\ UNCHANGED <<repo, request, status, idx, tree, reply, touched>>
           /\ TellsUpTo(diffs', at)
<1> DEFINE f == Order[at]
           sides == IF request.staged THEN StagedSides(f) ELSE UnstagedSides(f)
<1>1. /\ step = "files" /\ at \in 1 .. Len(Order) /\ Len(Order) \in Nat /\ f \in Files
      /\ Place(f) = at /\ \A g \in Files : Place(g) \in Nat /\ (Place(g) = at <=> g = f)
  <2>1. at \in 1 .. Len(Order) /\ Len(Order) \in Nat /\ step = "files"
    BY OrderPlaces DEF DiffFile, TypeOK
  <2> QED BY <2>1, OrderPlaces
<1>2. /\ at' = at + 1 /\ UNCHANGED <<repo, step, request, status, idx, tree, reply, touched>>
      /\ diffs' = IF PathFilter(f) THEN diffs \o sides ELSE diffs
  BY DEF DiffFile
<1>3. TellsUpTo(diffs, at - 1) /\ diffs \in Seq(FileDiff)
  BY <1>1 DEF ReadsWhatIsThere, TypeOK
<1>4. sides = <<>> \/ \E d \in FileDiff : sides = <<d>> /\ d.path = f
  BY <1>1, SidesType
<1>5. f \notin touched => sides = IF Changed(f) THEN <<Entry(f)>> ELSE <<>>
  BY <1>1, SidesTell
<1> HIDE DEF f, sides
<1>6. ASSUME diffs' = diffs,
             f \notin touched => ~ (Changed(f) /\ PathFilter(f))
      PROVE  TellsUpTo(diffs', at)
  <2>1. \A g \in Files : Place(g) <= at => g = f \/ Place(g) <= at - 1
    BY <1>1
  <2>2. \A g \in Files : Place(g) <= at - 1 => Place(g) <= at
    BY <1>1
  <2> QED BY <1>3, <1>6, <2>1, <2>2 DEF TellsUpTo
<1>7. ASSUME NEW d \in FileDiff, d.path = f, diffs' = diffs \o <<d>>, PathFilter(f),
             f \notin touched => Changed(f) /\ d = Entry(f)
      PROVE  TellsUpTo(diffs', at)
  <2>1. /\ Len(diffs) \in Nat /\ DOMAIN diffs = 1 .. Len(diffs)
        /\ DOMAIN diffs' = 1 .. Len(diffs) + 1 /\ diffs'[Len(diffs) + 1] = d
        /\ \A k \in 1 .. Len(diffs) : diffs'[k] = diffs[k]
    BY <1>3, <1>7
  <2>2. \A k \in 1 .. Len(diffs) :
          /\ diffs[k].path \in Files /\ Place(diffs[k].path) <= at - 1 /\ PathFilter(diffs[k].path)
          /\ diffs[k].path \notin touched => Changed(diffs[k].path) /\ diffs[k] = Entry(diffs[k].path)
    BY <1>3, <2>1 DEF TellsUpTo
  <2>3. \A k, l \in 1 .. Len(diffs) : k < l => Place(diffs[k].path) < Place(diffs[l].path)
    BY <1>3, <2>1 DEF TellsUpTo
  <2>4. ASSUME NEW k \in 1 .. Len(diffs) + 1
        PROVE  /\ diffs'[k].path \in Files /\ Place(diffs'[k].path) <= at /\ PathFilter(diffs'[k].path)
               /\ diffs'[k].path \notin touched =>
                    Changed(diffs'[k].path) /\ diffs'[k] = Entry(diffs'[k].path)
    <3>1. CASE k = Len(diffs) + 1
      BY <1>1, <1>7, <2>1, <3>1
    <3>2. CASE k \in 1 .. Len(diffs)
      <4>1. Place(diffs[k].path) <= at
        BY <1>1, <2>2, <3>2
      <4> QED BY <2>1, <2>2, <3>2, <4>1
    <3> QED BY <2>1, <3>1, <3>2
  <2>5. ASSUME NEW k \in 1 .. Len(diffs) + 1, NEW l \in 1 .. Len(diffs) + 1, k < l
        PROVE  Place(diffs'[k].path) < Place(diffs'[l].path)
    <3>1. k \in 1 .. Len(diffs)
      BY <2>1, <2>5
    <3>2. CASE l = Len(diffs) + 1
      <4>1. Place(diffs[k].path) <= at - 1 /\ diffs[k].path \in Files
        BY <2>2, <3>1
      <4>2. diffs'[k] = diffs[k] /\ diffs'[l].path = f
        BY <1>7, <2>1, <3>1, <3>2
      <4> QED BY <1>1, <4>1, <4>2
    <3>3. CASE l \in 1 .. Len(diffs)
      BY <2>1, <2>3, <2>5, <3>1, <3>3
    <3> QED BY <2>1, <3>2, <3>3
  <2>6. ASSUME NEW g \in Files \ touched, Place(g) <= at, Changed(g), PathFilter(g)
        PROVE  \E k \in 1 .. Len(diffs) + 1 : diffs'[k].path = g
    <3>1. CASE g = f
      BY <1>7, <2>1, <3>1
    <3>2. CASE g # f
      <4>1. Place(g) <= at - 1
        BY <1>1, <2>6, <3>2
      <4>2. PICK k \in 1 .. Len(diffs) : diffs[k].path = g
        BY <1>3, <2>1, <2>6, <4>1 DEF TellsUpTo
      <4> QED BY <2>1, <4>2
    <3> QED BY <3>1, <3>2
  <2> QED BY <2>1, <2>4, <2>5, <2>6 DEF TellsUpTo
<1>8. TellsUpTo(diffs', at)
  <2>1. CASE ~ PathFilter(f)
    BY <1>2, <1>6, <2>1
  <2>2. CASE PathFilter(f) /\ sides = <<>>
    <3>1. diffs' = diffs
      BY <1>2, <1>3, <2>2
    <3> QED BY <1>5, <1>6, <2>2, <3>1
  <2>3. CASE PathFilter(f) /\ sides # <<>>
    <3>1. PICK d \in FileDiff : sides = <<d>> /\ d.path = f
      BY <1>4, <2>3
    <3>2. diffs' = diffs \o <<d>>
      BY <1>2, <2>3, <3>1
    <3>3. f \notin touched => Changed(f) /\ d = Entry(f)
      BY <1>5, <2>3, <3>1
    <3> QED BY <1>7, <2>3, <3>1, <3>2, <3>3
  <2> QED BY <1>4, <2>1, <2>2, <2>3
<1> QED BY <1>1, <1>2, <1>8

\* The change of a file nobody touched is a file on one of its sides.
LEMMA DiffsAreSomewhere ==
    ASSUME TypeOK, Quiet, TellsUpTo(diffs, Len(Order)), diffs # <<>>
    PROVE  \E where \in {worktree, index, head} : In(where, request.scope)
<1>1. 1 \in DOMAIN diffs
  BY DEF TypeOK
<1> DEFINE f == diffs[1].path
<1>2. f \in Files /\ PathFilter(f) /\ (f \notin touched => Changed(f))
  BY <1>1 DEF TellsUpTo
<1> HIDE DEF f
<1>3. ScopeMatches(request.scope, f) /\ f \notin touched
  BY <1>2 DEF PathFilter, Quiet
<1>4. OldSide(f) # NewSide(f)
  BY <1>2, <1>3 DEF Changed
<1>5. \E where \in {worktree, index, head} : where[f] # Absent
  BY <1>4 DEF OldSide, NewSide
<1> QED BY <1>2, <1>3, <1>5 DEF In

\* What the answer has to say.
LEMMA AnswerTells ==
    (Answered("ok") => reply.files \in Seq(FileDiff))
    => (TellsTheChanges <=> (Answered("ok") => TellsUpTo(reply.files, Len(Order))))
<1> SUFFICES ASSUME Answered("ok"), reply.files \in Seq(FileDiff)
             PROVE  TellsUpTo(reply.files, Len(Order)) <=> TellsTheChanges
  BY DEF TellsTheChanges
<1> DEFINE told == DOMAIN reply.files
           Path(k) == reply.files[k].path
<1>0. \A f : Wanted(f) <=> PathFilter(f)
  BY DEF Wanted, PathFilter, ScopeMatches
<1>1. \A k \in told : Path(k) \in Files
  <2>1. \A k \in told : reply.files[k] \in FileDiff
    BY ElementOfSeq
  <2> QED BY <2>1 DEF FileDiff
<1>2. \A f \in Files : Place(f) <= Len(Order)
  BY OrderPlaces
<1>3. (\A k, l \in told : k < l => Place(Path(k)) < Place(Path(l)))
      <=> \A k, l \in told : \A i, j \in DOMAIN Order :
            Path(k) = Order[i] /\ Path(l) = Order[j] /\ k < l => i < j
  <2> HIDE DEF told, Path
  <2> QED BY <1>1, OrderPlaces
<1>4. TellsUpTo(reply.files, Len(Order)) <=>
        /\ \A k \in told : Wanted(Path(k))
        /\ \A k \in told : Path(k) \notin touched => Changed(Path(k)) /\ reply.files[k] = Entry(Path(k))
        /\ \A k, l \in told : k < l => Place(Path(k)) < Place(Path(l))
        /\ \A f \in Files \ touched : Changed(f) /\ Wanted(f) => \E k \in told : Path(k) = f
  BY <1>0, <1>1, <1>2 DEF TellsUpTo
<1>5. TellsTheChanges <=>
        /\ \A k \in told : Wanted(Path(k))
        /\ \A k, l \in told : \A i, j \in DOMAIN Order :
             Path(k) = Order[i] /\ Path(l) = Order[j] /\ k < l => i < j
        /\ \A f \in Files \ touched :
             /\ Changed(f) /\ Wanted(f) => \E k \in told : Path(k) = f
             /\ \A k \in told : Path(k) = f => Changed(f) /\ reply.files[k] = Entry(f)
  BY DEF TellsTheChanges, Entry
<1> HIDE DEF told, Path
<1> QED BY <1>1, <1>3, <1>4, <1>5

LEMMA AnswerTellsThen ==
    ((Answered("ok") => reply.files \in Seq(FileDiff))
     => (TellsTheChanges <=> (Answered("ok") => TellsUpTo(reply.files, Len(Order)))))'
BY AnswerTells, PTL

\* A call that goes on, or one that is turned down.
LEMMA NoAnswerTells ==
    ASSUME step' # "idle" \/ reply'.code \notin {"ok", "NOT_FOUND"}
    PROVE  TellsTheChanges' /\ NotFoundIsTrue'
BY DEF TellsTheChanges, NotFoundIsTrue, Answered

\* Delivering after the loop, when something is there to be told about.
LEMMA DeliverTells ==
    ASSUME TypeOK, DiffInv, step \in {"files", "stat", "known", "committed"}, at = Len(Order) + 1,
           Deliver,
           Quiet => \/ request.scope = NoScope
                    \/ \E where \in {worktree, index, head} : In(where, request.scope)
    PROVE  DiffInv'
<1>1. /\ reply'.code = "ok" /\ reply'.files = diffs /\ step' = "idle" /\ at' = 1 /\ diffs' = <<>>
      /\ UNCHANGED <<policy, worktree, index, head, request, touched>>
  BY DEF Deliver, Finish, repo
<1>2. TellsUpTo(diffs, Len(Order)) /\ diffs \in Seq(FileDiff)
  <2>1. at - 1 = Len(Order)
    BY OrderPlaces
  <2> QED BY <2>1 DEF DiffInv, ReadsWhatIsThere, TypeOK
<1>3. TellsUpTo(reply.files, Len(Order))'
  <2>1. \A ds, n : TellsUpTo(ds, n) => TellsUpTo(ds, n)'
    BY <1>1, ViewStays
  <2>2. TellsUpTo(reply'.files, Len(Order))
    BY <1>1, <1>2
  <2> QED BY <2>1, <2>2
<1>4. TellsTheChanges'
  BY <1>1, <1>2, <1>3, AnswerTellsThen
<1>5. NotFoundIsTrue'
  BY <1>1 DEF NotFoundIsTrue, Answered, Quiet, In, ScopeMatches
<1>6. ReadsWhatIsThere'
  BY <1>1 DEF ReadsWhatIsThere
<1> QED BY <1>1, <1>4, <1>5, <1>6 DEF DiffInv

\* NOT_FOUND, when the scope is nowhere or somebody touched a file in it.
LEMMA FailTells ==
    ASSUME Fail("NOT_FOUND"),
           Quiet => /\ request.scope # NoScope
                    /\ \A where \in {worktree, index, head} : ~ In(where, request.scope)
    PROVE  DiffInv'
<1>1. /\ reply'.code = "NOT_FOUND" /\ step' = "idle" /\ at' = 1 /\ diffs' = <<>>
      /\ UNCHANGED <<policy, worktree, index, head, request, touched>>
  BY DEF Fail, Finish, repo, NoReply
<1>2. NotFoundIsTrue'
  BY <1>1 DEF NotFoundIsTrue, Answered, Quiet, In, ScopeMatches
<1>3. ReadsWhatIsThere' /\ TellsTheChanges'
  BY <1>1 DEF ReadsWhatIsThere, TellsTheChanges, Answered
<1> QED BY <1>1, <1>2, <1>3 DEF DiffInv

LEMMA DiffStep ==
    ASSUME TypeOK, CallFits, DiffInv, [Next]_vars
    PROVE  DiffInv'
<1> DEFINE Same == UNCHANGED <<policy, worktree, index, head, request, touched>>
<1>0. ASSUME Same
      PROVE  /\ \A ds, n : TellsUpTo(ds, n) => TellsUpTo(ds, n)'
             /\ \A f \in Files \ touched' : StatusOf(f)' = StatusOf(f)
             /\ Quiet' => /\ Quiet
                          /\ In(worktree, request.scope)' <=> In(worktree, request.scope)
                          /\ In(index, request.scope)' <=> In(index, request.scope)
                          /\ In(head, request.scope)' <=> In(head, request.scope)
  BY <1>0, ViewStays
<1>1. ASSUME NEW scope \in Scopes, NEW staged \in BOOLEAN, Begin(scope, staged)
      PROVE  DiffInv'
  <2>1. /\ step' \in {"idle", "index"} /\ UNCHANGED <<policy, worktree, index, head, at, diffs>>
        /\ at = 1 /\ diffs = <<>> /\ reply'.code \notin {"ok", "NOT_FOUND"}
        /\ step' = "index" => status' = [f \in Files |-> StatusOf(f)]
    BY <1>1 DEF Begin, repo, DiffInv, NoReply
  <2>2. \A f : StatusOf(f)' = StatusOf(f)
    BY <2>1 DEF StatusOf
  <2>3. ReadsWhatIsThere'
    BY <2>1, <2>2 DEF ReadsWhatIsThere
  <2> QED BY <2>1, <2>3, NoAnswerTells DEF DiffInv
<1>2. CASE ReadIndex
  <2>1. Same /\ step = "index" /\ step' = "head" /\ idx' = index
        /\ UNCHANGED <<status, tree, at, diffs, reply>>
    BY <1>2 DEF ReadIndex, repo
  <2>2. ReadsWhatIsThere'
    BY <1>0, <2>1 DEF DiffInv, ReadsWhatIsThere
  <2> QED BY <2>1, <2>2, NoAnswerTells DEF DiffInv
<1>3. CASE ReadHead
  <2>1. Same /\ step = "head" /\ step' = "files" /\ tree' = head
        /\ UNCHANGED <<status, idx, at, diffs, reply>>
    BY <1>3 DEF ReadHead, repo
  <2>2. /\ at = 1 /\ diffs = <<>>
        /\ \A f \in Files \ touched : idx[f] = index[f] /\ status[f] = StatusOf(f)
    BY <2>1 DEF DiffInv, ReadsWhatIsThere
  <2>3. TellsUpTo(<<>>, 0)
    <3>1. \A f \in Files : ~ (Place(f) <= 0)
      BY OrderPlaces
    <3> QED BY <3>1 DEF TellsUpTo
  <2>4. TellsUpTo(diffs, at - 1)'
    <3>1. diffs' = <<>> /\ at' - 1 = 0
      BY <2>1, <2>2
    <3>2. TellsUpTo(diffs', at' - 1)
      BY <2>3, <3>1
    <3> QED BY <1>0, <2>1, <3>2
  <2>5. ReadsWhatIsThere'
    BY <1>0, <2>1, <2>2, <2>4 DEF ReadsWhatIsThere
  <2> QED BY <2>1, <2>5, NoAnswerTells DEF DiffInv
<1>4. CASE DiffFile
  <2>1. step = "files" /\ at \in 1 .. Len(Order) /\ Order[at] \in Files
    BY <1>4, OrderPlaces DEF DiffFile, TypeOK
  <2>2. CASE PathFilter(Order[at]) /\ ReadFails(Order[at])
    <3>1. Fail("NOT_FOUND")
      BY <1>4, <2>2 DEF DiffFile
    <3>2. ~ Quiet
      <4>1. Order[at] \in touched
        BY <2>1, <2>2, SidesTell DEF DiffInv
      <4> QED BY <2>2, <4>1 DEF Quiet, PathFilter
    <3> QED BY <3>1, <3>2, FailTells
  <2>3. CASE ~ (PathFilter(Order[at]) /\ ReadFails(Order[at]))
    <3>1. /\ step' = "files" /\ at' = at + 1
          /\ UNCHANGED <<repo, request, status, idx, tree, reply, touched>>
          /\ TellsUpTo(diffs', at)
      BY <1>4, <2>3, LoopTells DEF DiffInv
    <3>2. Same /\ at' - 1 = at
      BY <2>1, <3>1 DEF repo
    <3>3. TellsUpTo(diffs, at - 1)'
      <4>1. TellsUpTo(diffs', at' - 1)
        BY <3>1, <3>2
      <4> QED BY <1>0, <3>2, <4>1
    <3>4. ReadsWhatIsThere'
      BY <1>0, <2>1, <3>1, <3>2, <3>3 DEF DiffInv, ReadsWhatIsThere
    <3> QED BY <3>1, <3>4, NoAnswerTells DEF DiffInv
  <2> QED BY <2>2, <2>3
<1>5. CASE AfterDiff
  <2>1. step = "files" /\ at = Len(Order) + 1 /\ at - 1 = Len(Order)
    <3>1. Len(Order) \in Nat /\ at \in 1 .. Len(Order) + 1 /\ at > Len(Order)
      BY <1>5, OrderPlaces DEF AfterDiff, TypeOK
    <3> QED BY <1>5, <3>1 DEF AfterDiff
  <2>2. CASE request.scope # NoScope /\ diffs = <<>>
    <3>1. Same /\ step' = "stat" /\ UNCHANGED <<status, idx, tree, at, diffs, reply>>
      BY <1>5, <2>2 DEF AfterDiff, repo
    <3>2. TellsUpTo(diffs, at - 1)'
      <4>1. TellsUpTo(diffs', at' - 1)
        BY <2>1, <3>1 DEF DiffInv, ReadsWhatIsThere
      <4> QED BY <1>0, <3>1, <4>1
    <3>3. ReadsWhatIsThere'
      BY <1>0, <2>1, <2>2, <3>1, <3>2 DEF DiffInv, ReadsWhatIsThere
    <3> QED BY <3>1, <3>3, NoAnswerTells DEF DiffInv
  <2>3. CASE ~ (request.scope # NoScope /\ diffs = <<>>)
    <3>1. Deliver
      BY <1>5, <2>3 DEF AfterDiff
    <3>2. ASSUME Quiet, request.scope # NoScope
          PROVE  \E where \in {worktree, index, head} : In(where, request.scope)
      <4>1. TellsUpTo(diffs, Len(Order))
        BY <2>1 DEF DiffInv, ReadsWhatIsThere
      <4> QED BY <2>3, <3>2, <4>1, DiffsAreSomewhere
    <3> QED BY <2>1, <3>1, <3>2, DeliverTells
  <2> QED BY <2>2, <2>3
<1>6. ASSUME step \in {"stat", "known", "committed"}
      PROVE  at = Len(Order) + 1 /\ diffs = <<>> /\ request.scope # NoScope
  BY <1>6 DEF DiffInv, ReadsWhatIsThere
\* One question more.
<1>7. ASSUME Same, step \in {"stat", "known"}, step' \in {"known", "committed"},
             UNCHANGED <<status, idx, tree, at, diffs, reply>>,
             Quiet => ~ In(worktree, request.scope),
             step' = "committed" /\ Quiet => ~ In(index, request.scope)
      PROVE  DiffInv'
  <2>1. TellsUpTo(diffs, at - 1)'
    <3>1. TellsUpTo(diffs', at' - 1)
      BY <1>7 DEF DiffInv, ReadsWhatIsThere
    <3> QED BY <1>0, <1>7, <3>1
  <2>2. /\ Quiet' => ~ In(worktree, request.scope)'
        /\ step' = "committed" /\ Quiet' => ~ In(index, request.scope)'
    BY <1>0, <1>7
  <2>3. ReadsWhatIsThere'
    BY <1>0, <1>6, <1>7, <2>1, <2>2 DEF DiffInv, ReadsWhatIsThere
  <2> QED BY <1>7, <2>3, NoAnswerTells DEF DiffInv
<1>8. CASE StatScope
  <2>1. CASE In(worktree, request.scope)
    BY <1>6, <1>8, <2>1, DeliverTells DEF StatScope
  <2>2. CASE ~ In(worktree, request.scope)
    BY <1>7, <1>8, <2>2 DEF StatScope, repo
  <2> QED BY <2>1, <2>2
<1>9. CASE AskIndex
  <2>1. CASE In(index, request.scope)
    BY <1>6, <1>9, <2>1, DeliverTells DEF AskIndex
  <2>2. CASE ~ In(index, request.scope)
    <3>1. Quiet => ~ In(worktree, request.scope)
      BY <1>9 DEF AskIndex, DiffInv, ReadsWhatIsThere
    <3> QED BY <1>7, <1>9, <2>2, <3>1 DEF AskIndex, repo
  <2> QED BY <2>1, <2>2
<1>10. CASE AskHead
  <2>1. CASE In(head, request.scope)
    BY <1>6, <1>10, <2>1, DeliverTells DEF AskHead
  <2>2. CASE ~ In(head, request.scope)
    <3>1. Quiet => ~ In(worktree, request.scope) /\ ~ In(index, request.scope)
      BY <1>10 DEF AskHead, DiffInv, ReadsWhatIsThere
    <3> QED BY <1>6, <1>10, <2>2, <3>1, FailTells DEF AskHead
  <2> QED BY <2>1, <2>2
\* Others at work, or nobody.
<1>11. ASSUME UNCHANGED <<policy, call, reply>>, touched \subseteq touched',
              \A f \in Files \ touched' :
                  worktree'[f] = worktree[f] /\ index'[f] = index[f] /\ head'[f] = head[f]
       PROVE  DiffInv'
  <2>1. UNCHANGED <<policy, request, step, status, idx, tree, at, diffs, reply>>
    BY <1>11 DEF call
  <2>2. /\ \A ds, n : TellsUpTo(ds, n) => TellsUpTo(ds, n)'
        /\ \A f \in Files \ touched' : StatusOf(f)' = StatusOf(f)
        /\ Quiet' => /\ Quiet
                     /\ In(worktree, request.scope)' <=> In(worktree, request.scope)
                     /\ In(index, request.scope)' <=> In(index, request.scope)
                     /\ In(head, request.scope)' <=> In(head, request.scope)
    BY <1>11, <2>1, ViewStays
  <2>3. TellsUpTo(diffs, at - 1) => TellsUpTo(diffs, at - 1)'
    <3>1. TellsUpTo(diffs, at - 1) <=> TellsUpTo(diffs', at' - 1)
      BY <2>1
    <3> QED BY <2>2, <3>1
  <2>4. ReadsWhatIsThere'
    BY <1>11, <2>1, <2>2, <2>3 DEF DiffInv, ReadsWhatIsThere
  <2>5. TellsTheChanges'
    <3>1. /\ Answered("ok")' <=> Answered("ok")
          /\ Answered("ok") => reply.files \in Seq(FileDiff)
          /\ Answered("ok")' => reply'.files \in Seq(FileDiff)
      BY <2>1 DEF Answered, CallFits
    <3>2. Answered("ok") => TellsUpTo(reply.files, Len(Order))
      BY <3>1, AnswerTells DEF DiffInv
    <3>3. Answered("ok") => TellsUpTo(reply.files, Len(Order))'
      <4>1. TellsUpTo(reply.files, Len(Order)) <=> TellsUpTo(reply'.files, Len(Order))
        BY <2>1
      <4> QED BY <2>2, <3>2, <4>1
    <3> QED BY <3>1, <3>3, AnswerTellsThen
  <2>6. NotFoundIsTrue'
    <3>1. NotFoundIsTrue <=>
            (Quiet => /\ Answered("NOT_FOUND") =>
                           /\ request.scope # NoScope
                           /\ ~ In(worktree, request.scope) /\ ~ In(index, request.scope)
                           /\ ~ In(head, request.scope)
                      /\ Answered("ok") =>
                           \/ request.scope = NoScope
                           \/ In(worktree, request.scope) \/ In(index, request.scope)
                           \/ In(head, request.scope))
      BY DEF NotFoundIsTrue, Quiet
    <3>2. (NotFoundIsTrue <=>
            (Quiet => /\ Answered("NOT_FOUND") =>
                           /\ request.scope # NoScope
                           /\ ~ In(worktree, request.scope) /\ ~ In(index, request.scope)
                           /\ ~ In(head, request.scope)
                      /\ Answered("ok") =>
                           \/ request.scope = NoScope
                           \/ In(worktree, request.scope) \/ In(index, request.scope)
                           \/ In(head, request.scope)))'
      BY DEF NotFoundIsTrue, Quiet
    <3>3. \A code : Answered(code)' <=> Answered(code)
      BY <2>1 DEF Answered
    <3> QED BY <2>1, <2>2, <3>1, <3>2, <3>3 DEF DiffInv
  <2>7. step' = "idle" => at' = 1 /\ diffs' = <<>>
    BY <2>1 DEF DiffInv
  <2> QED BY <2>4, <2>5, <2>6, <2>7 DEF DiffInv
<1>12. ASSUME NEW f \in Files, WriteFile(f) \/ Stage(f)
       PROVE  DiffInv'
  <2>1. /\ UNCHANGED <<policy, call, reply>> /\ touched' = touched \cup {f}
        /\ \A g \in Files \ {f} :
             worktree'[g] = worktree[g] /\ index'[g] = index[g] /\ head'[g] = head[g]
    BY <1>12 DEF WriteFile, Stage, Edit, TypeOK
  <2> QED BY <1>11, <2>1
<1>13. CASE Commit
  <2>1. /\ UNCHANGED <<policy, call, reply, worktree, index>> /\ head' = index
        /\ touched' = touched \cup {f \in Files : head[f] # index[f]}
    BY <1>13 DEF Commit, Edit
  <2> QED BY <1>11, <2>1
<1>14. CASE GitStatus \/ UNCHANGED vars
  BY <1>11, <1>14 DEF GitStatus, vars, repo
<1> QED
  BY <1>1, <1>2, <1>3, <1>4, <1>5, <1>8, <1>9, <1>10, <1>12, <1>13, <1>14 DEF Next

LEMMA DiffInit == Init => DiffInv
<1> SUFFICES ASSUME Init PROVE DiffInv
  OBVIOUS
<1>1. step = "idle" /\ at = 1 /\ diffs = <<>> /\ reply.code = "none"
  BY DEF Init, NoReply
<1>2. ReadsWhatIsThere
  BY <1>1 DEF ReadsWhatIsThere
<1>3. TellsTheChanges /\ NotFoundIsTrue
  BY <1>1 DEF TellsTheChanges, NotFoundIsTrue, Answered
<1> QED BY <1>1, <1>2, <1>3 DEF DiffInv

LEMMA DiffInductive == Spec => []DiffInv
<1>1. TypeOK /\ CallFits /\ DiffInv /\ [Next]_vars => DiffInv'
  BY DiffStep
<1> QED BY TypeInductive, DiffInit, <1>1, PTL DEF Spec

\* Whatever the repository, the policy and the scope, and whoever edits,
\* stages and commits while the call goes from one look to the next: a diff
\* lists allowed files in scope only, each once and in path order, and of the
\* files nobody touched just the changed ones, with the sides they have.
THEOREM DiffsTellTheChanges == Spec => []TellsTheChanges
<1>1. DiffInv => TellsTheChanges
  BY DEF DiffInv
<1> QED BY DiffInductive, <1>1, PTL

\* "No changes" and NOT_FOUND are told apart: the latter is answered just
\* when the scope is nowhere, unless somebody touched a file in it.
THEOREM NotFoundTellsTheTruth == Spec => []NotFoundIsTrue
<1>1. DiffInv => NotFoundIsTrue
  BY DEF DiffInv
<1> QED BY DiffInductive, <1>1, PTL

---------------------------------------------------------------------------
(* Commits reachable in a history *)

Graph(P) == IsFiniteSet(DOMAIN P) /\ \A c \in DOMAIN P : P[c] \subseteq DOMAIN P

\* One generation more, and the equation of the function inside Reachable.
Older(P, X, barred) == X \cup ((UNION {P[c] : c \in X}) \ barred)
Generations(g, P, from, barred, N) ==
    g = [n \in 0 .. N |-> IF n = 0 THEN from \ barred ELSE Older(P, g[n - 1], barred)]

LEMMA GenerationsExist ==
    ASSUME NEW P, NEW from, NEW barred, NEW N \in Nat
    PROVE  \E g : Generations(g, P, from, barred, N)
<1> DEFINE T == {n \in 0 .. N : \E g : Generations(g, P, from, barred, n)}
<1>1. 0 \in T
  <2>1. Generations([n \in 0 .. 0 |-> from \ barred], P, from, barred, 0)
    BY DEF Generations
  <2> QED BY <2>1
<1>2. ASSUME NEW n \in 0 .. N - 1, n \in T
      PROVE  n + 1 \in T
  <2>1. PICK g : Generations(g, P, from, barred, n)
    BY <1>2
  <2> DEFINE h == [m \in 0 .. n + 1 |-> IF m = n + 1 THEN Older(P, g[n], barred) ELSE g[m]]
  <2>2. ASSUME NEW m \in 0 .. n + 1
        PROVE  h[m] = IF m = 0 THEN from \ barred ELSE Older(P, h[m - 1], barred)
    <3>1. CASE m = n + 1
      <4>1. m - 1 = n /\ m # 0 /\ h[n] = g[n] BY <3>1
      <4> QED BY <4>1, <3>1
    <3>2. CASE m \in 0 .. n
      <4>1. h[m] = g[m] /\ (m # 0 => h[m - 1] = g[m - 1]) BY <3>2
      <4>2. g[m] = IF m = 0 THEN from \ barred ELSE Older(P, g[m - 1], barred)
        BY <2>1, <3>2 DEF Generations
      <4> HIDE DEF h
      <4> QED BY <4>1, <4>2
    <3> QED BY <3>1, <3>2
  <2>3. Generations(h, P, from, barred, n + 1)
    <3>1. h = [m \in 0 .. n + 1 |-> h[m]]
      OBVIOUS
    <3> HIDE DEF h
    <3> QED BY <2>2, <3>1 DEF Generations
  <2> QED BY <2>3
<1>3. \A n \in 0 .. N : n \in T
  <2> HIDE DEF T
  <2> QED BY <1>1, <1>2, InductionTo
<1> QED BY <1>3

\* What is reachable is the least set that holds the start and with a commit
\* its parents, the barred commits apart: after as many generations as there
\* are commits no new one can come.
Closed(P, X, barred) == \A c \in X : P[c] \ barred \subseteq X

LEMMA ReachableIsLeast ==
    ASSUME NEW P, Graph(P), NEW from, from \subseteq DOMAIN P, NEW barred
    PROVE  LET R == Reachable(P, from, barred)
           IN /\ R \subseteq DOMAIN P /\ R \cap barred = {}
              /\ from \ barred \subseteq R /\ Closed(P, R, barred)
              /\ \A X : from \ barred \subseteq X /\ Closed(P, X, barred) => R \subseteq X
<1> DEFINE D == DOMAIN P
           N == Cardinality(D)
           F(g) == [n \in 0 .. N |-> IF n = 0 THEN from \ barred
                                     ELSE g[n - 1] \cup ((UNION {P[c] : c \in g[n - 1]}) \ barred)]
           g == CHOOSE w : w = F(w)
           R == Reachable(P, from, barred)
<1>1. N \in Nat
  BY FS_CardinalityType DEF Graph
<1>2. R = g[N]
  BY DEF Reachable
<1>3. Generations(g, P, from, barred, N)
  <2>1. \A w : w = F(w) <=> Generations(w, P, from, barred, N)
    BY DEF Generations, Older
  <2> HIDE DEF F, N
  <2>2. \E w : w = F(w)
    BY <1>1, <2>1, GenerationsExist
  <2>3. g = F(g)
    BY <2>2
  <2> HIDE DEF g
  <2> QED BY <2>1, <2>3
<1> HIDE DEF g, N, R, F
<1>4. /\ g[0] = from \ barred
      /\ \A n \in 0 .. N - 1 : g[n + 1] = Older(P, g[n], barred)
  <2>1. \A n \in 0 .. N : g[n] = IF n = 0 THEN from \ barred ELSE Older(P, g[n - 1], barred)
    BY <1>3 DEF Generations
  <2>2. \A n \in 0 .. N - 1 : n + 1 \in 0 .. N /\ n + 1 # 0 /\ n + 1 - 1 = n
    BY <1>1
  <2>3. 0 \in 0 .. N
    BY <1>1
  <2> QED BY <2>1, <2>2, <2>3
<1>5. \A n \in 0 .. N : g[n] \subseteq D /\ g[n] \cap barred = {} /\ from \ barred \subseteq g[n]
  <2> DEFINE S == {n \in 0 .. N : g[n] \subseteq D /\ g[n] \cap barred = {} /\ from \ barred \subseteq g[n]}
  <2>1. 0 \in S
    BY <1>1, <1>4
  <2>2. ASSUME NEW n \in 0 .. N - 1, n \in S
        PROVE  n + 1 \in S
    <3>1. n + 1 \in 0 .. N /\ g[n + 1] = g[n] \cup ((UNION {P[c] : c \in g[n]}) \ barred)
      BY <1>1, <1>4 DEF Older
    <3>2. UNION {P[c] : c \in g[n]} \subseteq D
      BY <2>2 DEF Graph
    <3> QED BY <2>2, <3>1, <3>2
  <2>3. \A n \in 0 .. N : n \in S
    <3> HIDE DEF S
    <3> QED BY <1>1, <2>1, <2>2, InductionTo
  <2> QED BY <2>3
<1>6. \A n \in 0 .. N : Closed(P, g[n], barred) \/ Cardinality(g[n]) >= n
  <2> DEFINE S == {n \in 0 .. N : Closed(P, g[n], barred) \/ Cardinality(g[n]) >= n}
  <2>0. \A n \in 0 .. N : IsFiniteSet(g[n]) /\ Cardinality(g[n]) \in Nat
    BY <1>5, FS_Subset, FS_CardinalityType DEF Graph
  <2>1. 0 \in S
    BY <1>1, <2>0
  <2>2. ASSUME NEW n \in 0 .. N - 1, n \in S
        PROVE  n + 1 \in S
    <3>1. n \in 0 .. N /\ n + 1 \in 0 .. N /\ g[n + 1] = g[n] \cup ((UNION {P[c] : c \in g[n]}) \ barred)
      BY <1>1, <1>4 DEF Older
    <3>2. CASE Closed(P, g[n], barred)
      <4>1. g[n + 1] = g[n]
        BY <3>1, <3>2 DEF Closed
      <4> QED BY <3>1, <3>2, <4>1
    <3>3. CASE ~ Closed(P, g[n], barred)
      <4>1. g[n] \subseteq g[n + 1] /\ g[n] # g[n + 1]
        BY <3>1, <3>3 DEF Closed
      <4>2. Cardinality(g[n]) < Cardinality(g[n + 1])
        <5>1. g[n] \in SUBSET g[n + 1] /\ IsFiniteSet(g[n + 1])
          BY <2>0, <3>1, <4>1
        <5>2. /\ Cardinality(g[n]) <= Cardinality(g[n + 1])
              /\ Cardinality(g[n + 1]) = Cardinality(g[n]) => g[n + 1] = g[n]
          BY <5>1, FS_Subset
        <5>3. Cardinality(g[n]) # Cardinality(g[n + 1])
          BY <4>1, <5>2
        <5>4. Cardinality(g[n]) \in Nat /\ Cardinality(g[n + 1]) \in Nat
          BY <2>0, <3>1
        <5> QED BY <5>2, <5>3, <5>4
      <4>3. Cardinality(g[n]) >= n
        BY <2>2, <3>3
      <4>4. Cardinality(g[n]) \in Nat /\ Cardinality(g[n + 1]) \in Nat /\ n \in Nat
        <5>1. n \in Nat
          BY <1>1
        <5>2. Cardinality(g[n]) \in Nat /\ Cardinality(g[n + 1]) \in Nat
          BY <2>0, <3>1
        <5> QED BY <5>1, <5>2
      <4>5. Cardinality(g[n + 1]) >= n + 1
        BY <4>2, <4>3, <4>4
      <4> QED BY <3>1, <4>5
    <3> QED BY <3>2, <3>3
  <2>3. \A n \in 0 .. N : n \in S
    <3> HIDE DEF S
    <3> QED BY <1>1, <2>1, <2>2, InductionTo
  <2> QED BY <2>3
<1>7. Closed(P, g[N], barred)
  <2>1. N \in 0 .. N /\ g[N] \subseteq D
    BY <1>1, <1>5
  <2>2. CASE Cardinality(g[N]) >= N
    <3>1. IsFiniteSet(D) /\ Cardinality(g[N]) \in Nat /\ (g[N] # D => Cardinality(g[N]) < Cardinality(D))
      BY <2>1, FS_Subset, FS_CardinalityType DEF Graph
    <3>2. g[N] = D
      BY <1>1, <2>2, <3>1 DEF N
    <3> QED BY <3>2 DEF Closed, Graph
  <2> QED BY <1>6, <2>1, <2>2
<1>8. ASSUME NEW X, from \ barred \subseteq X, Closed(P, X, barred)
      PROVE  \A n \in 0 .. N : g[n] \subseteq X
  <2> DEFINE S == {n \in 0 .. N : g[n] \subseteq X}
  <2>1. 0 \in S
    BY <1>1, <1>4, <1>8
  <2>2. ASSUME NEW n \in 0 .. N - 1, n \in S
        PROVE  n + 1 \in S
    <3>1. n + 1 \in 0 .. N /\ g[n + 1] = g[n] \cup ((UNION {P[c] : c \in g[n]}) \ barred)
      BY <1>1, <1>4 DEF Older
    <3>2. (UNION {P[c] : c \in g[n]}) \ barred \subseteq X
      BY <1>8, <2>2 DEF Closed
    <3> QED BY <2>2, <3>1, <3>2
  <2>3. \A n \in 0 .. N : n \in S
    <3> HIDE DEF S
    <3> QED BY <1>1, <2>1, <2>2, InductionTo
  <2> QED BY <2>3
<1>9. N \in 0 .. N
  BY <1>1
<1>10. /\ R \subseteq D /\ R \cap barred = {}
       /\ from \ barred \subseteq R /\ Closed(P, R, barred)
  BY <1>2, <1>5, <1>7, <1>9
<1>11. \A X : from \ barred \subseteq X /\ Closed(P, X, barred) => R \subseteq X
  BY <1>2, <1>8, <1>9
<1> QED BY <1>10, <1>11 DEF R

---------------------------------------------------------------------------
(* Upstream counts *)

\* The ancestors of a commit.
LEMMA AncestorsAreLeast ==
    ASSUME NEW P, Graph(P), NEW c \in DOMAIN P
    PROVE  /\ Ancestors(P, c) \subseteq DOMAIN P /\ c \in Ancestors(P, c)
           /\ Closed(P, Ancestors(P, c), {}) /\ IsFiniteSet(Ancestors(P, c))
           /\ \A X : c \in X /\ Closed(P, X, {}) => Ancestors(P, c) \subseteq X
<1>1. {c} \subseteq DOMAIN P
  OBVIOUS
<1>2. /\ Ancestors(P, c) \subseteq DOMAIN P
      /\ {c} \ {} \subseteq Ancestors(P, c) /\ Closed(P, Ancestors(P, c), {})
      /\ \A X : {c} \ {} \subseteq X /\ Closed(P, X, {}) => Ancestors(P, c) \subseteq X
  BY <1>1, ReachableIsLeast DEF Ancestors
<1>3. IsFiniteSet(Ancestors(P, c))
  BY <1>2, FS_Subset DEF Graph
<1> QED BY <1>2, <1>3

\* No commit is an ancestor of another that is one of its own.
Acyclic(P) ==
    \A c, d \in DOMAIN P : c \in Ancestors(P, d) /\ d \in Ancestors(P, c) => c = d

\* The ancestors of the merge bases are the common ancestors: of those that
\* a common ancestor is an ancestor of, one with the most ancestors is a base.
LEMMA BasesCoverCommon ==
    ASSUME NEW P, Graph(P), Acyclic(P), NEW c \in DOMAIN P, NEW d \in DOMAIN P
    PROVE  Reachable(P, MergeBases(P, c, d), {}) = Ancestors(P, c) \cap Ancestors(P, d)
<1> DEFINE Common == Ancestors(P, c) \cap Ancestors(P, d)
           Bases == MergeBases(P, c, d)
           All == Reachable(P, Bases, {})
<1>1. Common \subseteq DOMAIN P /\ Closed(P, Common, {})
  BY AncestorsAreLeast DEF Closed
<1>2. Bases = {b \in Common : \A o \in Common \ {b} : b \notin Ancestors(P, o)}
  BY DEF MergeBases
<1> HIDE DEF Common, Bases, All
<1>3. Bases \subseteq DOMAIN P /\ Bases \subseteq Common
  BY <1>1, <1>2
<1>4. /\ Bases \subseteq All /\ Closed(P, All, {})
      /\ \A X : Bases \subseteq X /\ Closed(P, X, {}) => All \subseteq X
  <2>1. /\ Bases \ {} \subseteq All /\ Closed(P, All, {})
        /\ \A X : Bases \ {} \subseteq X /\ Closed(P, X, {}) => All \subseteq X
    BY <1>3, ReachableIsLeast DEF All
  <2> QED BY <2>1
<1>5. All \subseteq Common
  BY <1>1, <1>3, <1>4
<1>6. ASSUME NEW a \in Common
      PROVE  a \in All
  <2> DEFINE Younger == {b \in Common : a \in Ancestors(P, b)}
             size(b) == Cardinality(Ancestors(P, b))
             Sizes == {Cardinality(DOMAIN P) - size(b) : b \in Younger}
  <2>1. a \in Younger
    BY <1>1, AncestorsAreLeast
  <2>2. /\ Cardinality(DOMAIN P) \in Nat
        /\ \A b \in DOMAIN P : size(b) \in Nat /\ size(b) <= Cardinality(DOMAIN P)
    BY AncestorsAreLeast, FS_Subset, FS_CardinalityType DEF Graph
  <2>3. Sizes \subseteq Nat /\ Sizes # {}
    <3> HIDE DEF size
    <3> QED BY <1>1, <2>1, <2>2
  <2>4. PICK b \in Younger : \A o \in Younger : size(o) <= size(b)
    <3>1. PICK x \in Sizes : \A y \in Sizes : x <= y
      <4> HIDE DEF Sizes
      <4> QED BY <2>3, LeastNumber
    <3>2. PICK b \in Younger : x = Cardinality(DOMAIN P) - size(b)
      BY <3>1
    <3> HIDE DEF size
    <3>3. ASSUME NEW o \in Younger PROVE size(o) <= size(b)
      <4>1. Cardinality(DOMAIN P) - size(o) \in Sizes
        OBVIOUS
      <4>2. Cardinality(DOMAIN P) - size(b) <= Cardinality(DOMAIN P) - size(o)
        BY <3>1, <3>2, <4>1
      <4>3. size(o) \in Nat /\ size(b) \in Nat /\ Cardinality(DOMAIN P) \in Nat
        BY <1>1, <2>2
      <4> QED BY <4>2, <4>3
    <3> QED BY <3>3
  <2>5. b \in Bases
    <3> SUFFICES ASSUME NEW o \in Common \ {b}, b \in Ancestors(P, o)
                 PROVE  FALSE
      BY <1>2
    <3>1. o \in DOMAIN P /\ b \in DOMAIN P
      BY <1>1
    <3>2. Ancestors(P, b) \subseteq Ancestors(P, o)
      BY <3>1, AncestorsAreLeast
    <3>3. o \in Younger
      BY <3>2
    <3>4. o \in Ancestors(P, o) /\ o \notin Ancestors(P, b)
      BY <3>1, AncestorsAreLeast DEF Acyclic
    <3>5. size(b) < size(o)
      <4>1. IsFiniteSet(Ancestors(P, o)) /\ Ancestors(P, b) \in SUBSET Ancestors(P, o)
        BY <3>1, <3>2, AncestorsAreLeast
      <4>2. size(b) <= size(o) /\ (size(o) = size(b) => Ancestors(P, o) = Ancestors(P, b))
        BY <4>1, FS_Subset
      <4>3. size(o) # size(b)
        BY <3>4, <4>2
      <4>4. size(o) \in Nat /\ size(b) \in Nat
        BY <2>2, <3>1
      <4> HIDE DEF size
      <4> QED BY <4>2, <4>3, <4>4
    <3>6. size(o) <= size(b)
      BY <2>4, <3>3
    <3>7. size(o) \in Nat /\ size(b) \in Nat
      BY <2>2, <3>1
    <3> HIDE DEF size
    <3> QED BY <3>5, <3>6, <3>7
  <2>6. Ancestors(P, b) \subseteq All
    <3>1. b \in DOMAIN P /\ b \in All
      BY <1>3, <1>4, <2>5
    <3> QED BY <1>4, <3>1, AncestorsAreLeast
  <2> QED BY <2>4, <2>6
<1> QED BY <1>5, <1>6 DEF Common, All, Bases

\* What the count of a branch counts: its ancestors that are not common.
LEMMA ReachablePastCommon ==
    ASSUME NEW P, Graph(P), NEW c \in DOMAIN P, NEW d \in DOMAIN P
    PROVE  Reachable(P, {c}, Ancestors(P, c) \cap Ancestors(P, d))
           = Ancestors(P, c) \ Ancestors(P, d)
<1> DEFINE Common == Ancestors(P, c) \cap Ancestors(P, d)
           R == Reachable(P, {c}, Common)
<1>1. Closed(P, Common, {}) /\ Closed(P, Ancestors(P, c), {}) /\ c \in Ancestors(P, c)
  BY AncestorsAreLeast DEF Closed
<1>2. /\ R \cap Common = {} /\ {c} \ Common \subseteq R /\ Closed(P, R, Common)
      /\ \A X : {c} \ Common \subseteq X /\ Closed(P, X, Common) => R \subseteq X
  <2>1. {c} \subseteq DOMAIN P
    OBVIOUS
  <2> HIDE DEF Common
  <2> QED BY <2>1, ReachableIsLeast
<1> HIDE DEF R
<1>3. R \subseteq Ancestors(P, c) \ Common
  <2>1. Closed(P, Ancestors(P, c) \ Common, Common)
    BY <1>1 DEF Closed
  <2> QED BY <1>1, <1>2, <2>1
<1>4. Ancestors(P, c) \subseteq R \cup Common
  <2>1. Closed(P, R \cup Common, {})
    BY <1>1, <1>2 DEF Closed
  <2>2. c \in R \cup Common
    BY <1>2
  <2> QED BY <2>1, <2>2, AncestorsAreLeast
<1> QED BY <1>2, <1>3, <1>4 DEF R

\* Uncapped counts are those of the commits on one side only.
CountsAreExact(said, P, local, remote) ==
    /\ ~ said.capped =>
        /\ said.ahead = Cardinality(Ancestors(P, local) \ Ancestors(P, remote))
        /\ said.behind = Cardinality(Ancestors(P, remote) \ Ancestors(P, local))
    /\ said.inSync <=> local = remote

\* What Counts says of a branch and its upstream.
LEMMA CountsTell ==
    ASSUME NEW P, Graph(P), Acyclic(P), NEW local \in DOMAIN P, NEW remote \in DOMAIN P,
           NEW said \in Counts(P, local, remote)
    PROVE  CountsAreExact(said, P, local, remote)
<1> DEFINE Mine == Ancestors(P, local)
           Theirs == Ancestors(P, remote)
           bases == MergeBases(P, local, remote)
           All == Reachable(P, bases, {})
<1>0. WalkCap \in Nat /\ WalkCap > 0
  BY WalkCapAssumption
<1>1. CASE local = remote
  <2>1. said = [ahead |-> 0, behind |-> 0, inSync |-> TRUE, capped |-> FALSE]
    BY <1>1 DEF Counts
  <2>2. Mine \ Theirs = {} /\ Theirs \ Mine = {}
    BY <1>1
  <2> QED BY <1>1, <2>1, <2>2, FS_EmptySet DEF CountsAreExact
<1>2. CASE local # remote
  <2>1. All = Mine \cap Theirs
    BY BasesCoverCommon
  <2> HIDE DEF Mine, Theirs, bases, All
  <2>2. PICK seen \in Collected(P, bases) :
          LET ahead == Capped(CountFrom(P, local, seen))
              behind == Capped(CountFrom(P, remote, seen))
          IN said = [ahead |-> ahead, behind |-> behind,
                     inSync |-> ahead = 0 /\ behind = 0,
                     capped |-> \/ bases # {} /\ Cardinality(seen) >= WalkCap
                                \/ ahead >= WalkCap \/ behind >= WalkCap]
    BY <1>2 DEF Counts, bases
  <2> DEFINE m == CountFrom(P, local, seen)
             n == CountFrom(P, remote, seen)
  <2>3. /\ said.ahead = Capped(m) /\ said.behind = Capped(n)
        /\ said.inSync <=> Capped(m) = 0 /\ Capped(n) = 0
        /\ said.capped <=> \/ bases # {} /\ Cardinality(seen) >= WalkCap
                           \/ Capped(m) >= WalkCap \/ Capped(n) >= WalkCap
    BY <2>2
  <2>4. seen \subseteq All /\ (seen # All => Cardinality(seen) = WalkCap /\ ~ (Cardinality(All) < WalkCap))
    BY DEF Collected, All
  <2>5. /\ IsFiniteSet(Reachable(P, {local}, seen)) /\ {local} \ seen \subseteq Reachable(P, {local}, seen)
        /\ IsFiniteSet(Reachable(P, {remote}, seen)) /\ {remote} \ seen \subseteq Reachable(P, {remote}, seen)
    BY ReachableIsLeast, FS_Subset DEF Graph
  <2>6. m \in Nat /\ n \in Nat
    BY <2>5, FS_CardinalityType DEF CountFrom
  <2>7. ASSUME ~ said.capped
        PROVE  /\ said.ahead = Cardinality(Mine \ Theirs)
               /\ said.behind = Cardinality(Theirs \ Mine)
    <3>1. seen = Mine \cap Theirs
      <4>1. CASE bases = {}
        <5>1. All = {}
          <6>1. bases \subseteq DOMAIN P /\ Closed(P, {}, {}) /\ bases \ {} \subseteq {}
            BY <4>1 DEF Closed
          <6> QED BY <6>1, ReachableIsLeast DEF All
        <5>2. seen = All
          BY <2>4, <5>1
        <5> QED BY <2>1, <5>2
      <4>2. CASE bases # {}
        <5>1. ~ (Cardinality(seen) >= WalkCap)
          BY <2>3, <2>7, <4>2
        <5>2. seen = All
          BY <1>0, <2>4, <5>1
        <5> QED BY <2>1, <5>2
      <4> QED BY <4>1, <4>2
    <3>2. m = Cardinality(Mine \ Theirs) /\ n = Cardinality(Theirs \ Mine)
      <4>1. Reachable(P, {local}, Mine \cap Theirs) = Mine \ Theirs
        BY ReachablePastCommon DEF Mine, Theirs
      <4>2. Reachable(P, {remote}, Theirs \cap Mine) = Theirs \ Mine
        BY ReachablePastCommon DEF Mine, Theirs
      <4>3. Theirs \cap Mine = Mine \cap Theirs
        OBVIOUS
      <4> QED BY <3>1, <4>1, <4>2, <4>3 DEF CountFrom
    <3>3. Capped(m) = m /\ Capped(n) = n
      <4>1. ~ (Capped(m) >= WalkCap) /\ ~ (Capped(n) >= WalkCap)
        BY <2>3, <2>7
      <4> HIDE DEF m, n
      <4> QED BY <1>0, <2>6, <4>1 DEF Capped
    <3> QED BY <2>3, <3>2, <3>3
  <2>8. ~ said.inSync
    <3>1. local \notin Mine \cap Theirs \/ remote \notin Mine \cap Theirs
      BY <1>2 DEF Acyclic, Mine, Theirs
    <3>2. local \notin seen \/ remote \notin seen
      BY <2>1, <2>4, <3>1
    <3>3. \A S : IsFiniteSet(S) /\ S # {} => Cardinality(S) # 0
      BY FS_EmptySet
    <3>4. m # 0 \/ n # 0
      BY <2>5, <3>2, <3>3 DEF CountFrom
    <3> HIDE DEF m, n
    <3>5. Capped(m) # 0 \/ Capped(n) # 0
      BY <1>0, <2>6, <3>4 DEF Capped
    <3> QED BY <2>3, <3>5
  <2> QED BY <1>2, <2>7, <2>8 DEF Mine, Theirs, CountsAreExact
<1> QED BY <1>1, <1>2

\* The counts in an answer are those of one of the histories.
LEMMA CountsInductive == Spec => [](counts = NoCounts \/ counts \in StatusAnswers)
<1> DEFINE CountsFit == counts = NoCounts \/ counts \in StatusAnswers
<1>1. Init => CountsFit
  BY DEF Init
<1>2. CountsFit /\ [Next]_vars => CountsFit'
  <2> SUFFICES ASSUME CountsFit, [Next]_vars PROVE CountsFit'
    OBVIOUS
  <2>1. StatusAnswers' = StatusAnswers
    BY DEF StatusAnswers
  <2> QED
    BY <2>1 DEF Next, vars, Begin, ReadIndex, ReadHead, DiffFile, AfterDiff, StatScope, AskIndex, AskHead, GitStatus,
                WriteFile, Stage, Commit, Edit, Deliver, Fail, Finish, NoCounts
<1> HIDE DEF CountsFit
<1>3. Spec => []CountsFit
  BY <1>1, <1>2, PTL DEF Spec
<1> QED BY <1>3 DEF CountsFit

\* Whatever the history, its merges and the cap: counts that are not capped
\* are exact, and a branch is in sync just when it is where its upstream is.
THEOREM UncappedCountsExact == Spec => []UncappedCountsAreExact
<1>1. counts = NoCounts \/ counts \in StatusAnswers => UncappedCountsAreExact
  <2> SUFFICES ASSUME counts \in StatusAnswers, counts # NoCounts
               PROVE  UncappedCountsAreExact
    BY DEF UncappedCountsAreExact
  <2>1. PICK h \in Histories : \E c \in Counts(h.parents, h.local, h.remote) : counts = [of |-> h, upstream |-> c]
    BY DEF StatusAnswers
  <2>2. PICK c \in Counts(h.parents, h.local, h.remote) : counts = [of |-> h, upstream |-> c]
    BY <2>1
  <2>3. counts.of = h /\ counts.upstream = c
    BY <2>2
  <2>4. /\ Graph(h.parents) /\ Acyclic(h.parents)
        /\ h.local \in DOMAIN h.parents /\ h.remote \in DOMAIN h.parents
    BY HistoryAssumption DEF Graph, Acyclic
  <2>5. CountsAreExact(c, h.parents, h.local, h.remote)
    BY <2>2, <2>4, CountsTell
  <2> QED BY <2>3, <2>5 DEF UncappedCountsAreExact, CountsAreExact
<1> QED BY CountsInductive, <1>1, PTL
=============================================================================
