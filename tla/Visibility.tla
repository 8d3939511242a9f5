----------------------------- MODULE Visibility -----------------------------
(***************************************************************************)
(* Which paths of a workspace are served, and which of those are listed:   *)
(* Policy and Lister (mcp/policy.go) over the ignore files that            *)
(* grrep/ignore.go reads.                                                  *)
(*                                                                         *)
(* A glob list is the set of the paths that match one of its patterns; the *)
(* patterns of an ignore file are the paths beneath its directory that     *)
(* they hide and the ones a negated pattern shows again.  Matching with    *)
(* these is the work of doublestar and gogitignore, which are external.    *)
(***************************************************************************)
EXTENDS FiniteSets

CONSTANTS
    Root,        \* the workspace directory, "."
    Dirs, Files, \* paths of directories and of regular files
    Links,       \* paths of what is neither, symlinks above all
    Above,       \* the directories a path is in, Root included
    DotPaths     \* paths with a segment that starts with a dot

Paths == Dirs \cup Files \cup Links

ASSUME TreeAssumption ==
    /\ Root \in Dirs
    /\ Dirs \cap Files = {} /\ Dirs \cap Links = {} /\ Files \cap Links = {}
    /\ Above \in [Paths -> SUBSET Dirs]
    /\ \A p \in Paths : IsFiniteSet(Above[p])
    /\ Above[Root] = {}
    /\ \A p \in Paths \ {Root} : Root \in Above[p] /\ p \notin Above[p]
    /\ \A p \in Paths : \A d \in Above[p] :
        /\ Above[d] \subseteq Above[p]
        /\ \A e \in Above[p] : d = e \/ d \in Above[e] \/ e \in Above[d]
    /\ DotPaths \subseteq Paths \ {Root}

---------------------------------------------------------------------------
(* Access: allow, block are sets of paths, anyAllow says the allow list is *)
(* not empty, gitignore is respectGitignore                                *)

Policy == [allow : SUBSET Paths, anyAllow : BOOLEAN, block : SUBSET Paths,
           gitignore : BOOLEAN]

\* What block and the dotfile rule refuse, files and directories alike.
Hidden(policy, p) == p \in policy.block \/ p \in DotPaths \ policy.allow

CheckFile(policy, p) ==
    /\ p # Root
    /\ ~ Hidden(policy, p)
    /\ policy.anyAllow => p \in policy.allow

CheckDir(policy, p) == p = Root \/ ~ Hidden(policy, p)

Check(policy, p, isDir) == IF isDir THEN CheckDir(policy, p) ELSE CheckFile(policy, p)

---------------------------------------------------------------------------
(* Ignore files *)

IgnoreFile == [hide : SUBSET Paths, show : SUBSET Paths]
NoPatterns == [hide |-> {}, show |-> {}]

\* IgnoreSet.Match over patterns[d] of every directory d: the deepest
\* directory that mentions the path decides.
Ignored(patterns, p) ==
    \E d \in Above[p] :
        /\ p \in patterns[d].hide
        /\ \A e \in Above[p] : d \in Above[e] => p \notin patterns[e].show

---------------------------------------------------------------------------
(* A Lister: what it has read of the ignore files, and its verdict on each *)
(* directory it has walked down through                                    *)

Verdict == {"unknown", "ignored", "kept"}
Lister == [read : [Dirs -> IgnoreFile], seen : [Dirs -> Verdict]]

\* Policy.Lister: only the root's ignore file is read.
NewLister(onDisk) ==
    [read |-> [d \in Dirs |-> IF d = Root THEN onDisk[d] ELSE NoPatterns],
     seen |-> [d \in Dirs |-> "unknown"]]

\* The ignore files as Listed goes by them: of a directory it has been
\* through, what it read then; of another, what is on disk now.
Known(lister, onDisk) ==
    [d \in Dirs |-> IF d = Root \/ lister.seen[d] # "unknown"
                    THEN lister.read[d] ELSE onDisk[d]]

VerdictOn(lister, onDisk, d) ==
    IF lister.seen[d] # "unknown" THEN lister.seen[d]
    ELSE IF Ignored(Known(lister, onDisk), d) THEN "ignored" ELSE "kept"

\* The directories above p that Listed comes to, from the top down to the
\* first ignored one.
Reached(lister, onDisk, p) ==
    {d \in Above[p] \ {Root} :
        \A e \in Above[d] \ {Root} : VerdictOn(lister, onDisk, e) = "kept"}

\* Mutant: a directory's ignore file is read again at every call.
ReadEveryTime(lister, onDisk, p) ==
    [seen |-> [d \in Dirs |-> IF d \in Reached(lister, onDisk, p)
                              THEN VerdictOn(lister, onDisk, d) ELSE lister.seen[d]],
     read |-> [d \in Dirs |->
                  IF /\ d \in Reached(lister, onDisk, p)
                     /\ VerdictOn(lister, onDisk, d) = "kept"
                  THEN onDisk[d] ELSE lister.read[d]]]

\* The part of Listed under the mutex: the lister as it leaves it ...
Consulted(lister, onDisk, p) ==
    [seen |-> [d \in Dirs |-> IF d \in Reached(lister, onDisk, p)
                              THEN VerdictOn(lister, onDisk, d) ELSE lister.seen[d]],
     read |-> [d \in Dirs |->
                  IF /\ d \in Reached(lister, onDisk, p)
                     /\ lister.seen[d] = "unknown"
                     /\ VerdictOn(lister, onDisk, d) = "kept"
                  THEN onDisk[d] ELSE lister.read[d]]]

\* Mutant: the parents' verdicts are not asked for.
OnlyItself(lister, onDisk, p) == ~ Ignored(Known(lister, onDisk), p)

\* ... and its answer.
NotIgnored(lister, onDisk, p) ==
    /\ \A d \in Above[p] \ {Root} : VerdictOn(lister, onDisk, d) = "kept"
    /\ ~ Ignored(Known(lister, onDisk), p)

\* Listed: the access rules first, outside the mutex.
Listed(policy, lister, onDisk, p, isDir) ==
    /\ Check(policy, p, isDir)
    /\ policy.gitignore => NotIgnored(lister, onDisk, p)
============================================================================
