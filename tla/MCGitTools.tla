----------------------------- MODULE MCGitTools -----------------------------
(* A small repository for GitTools: two files in a directory and one the   *)
(* policy may block, and commit graphs of at most six commits.             *)
EXTENDS GitTools

CONSTANTS a, b, big, nul

MCDirs == {".", "docs"}
MCFiles == {"docs/x", "docs/y", "z"}
MCAbove == [p \in MCDirs \cup MCFiles |->
    IF p = "." THEN {} ELSE IF p \in {"docs/x", "docs/y"} THEN {".", "docs"} ELSE {"."}]
MCOrder == <<"docs/x", "docs/y", "z">>
MCContent == {a, b, big, nul}
MCWeight == [c \in MCContent |-> IF c = b THEN 2 ELSE 1]

Policy0(allow, block) ==
    [allow |-> allow, anyAllow |-> allow # {}, block |-> block, gitignore |-> FALSE]
\* no globs; block "z"
MCPolicies == {Policy0({}, {}), Policy0({}, {"z"})}

Repo(w, i, h) == [worktree |-> w, index |-> i, head |-> h]
Three(x, y, z) == [f \in MCFiles |-> CASE f = "docs/x" -> x [] f = "docs/y" -> y [] OTHER -> z]
MCRepos ==
    {\* a clean tree
     Repo(Three(a, a, a), Three(a, a, a), Three(a, a, a)),
     \* no commit yet; one file staged, one untracked, one symlink
     Repo(Three(a, b, Symlink), Three(a, Absent, Absent), Three(Absent, Absent, Absent)),
     \* a change of each kind, staged and not
     Repo(Three(b, Absent, big), Three(a, a, nul), Three(b, a, nul)),
     \* everything deleted, some of it staged
     Repo(Three(Absent, Absent, Absent), Three(Absent, Absent, b), Three(a, Absent, b))}

\* 1 <- 2 <- 3 <- 4 on the trunk; 5 is made on 1, 6 merges 4 and 5.
Trunk == <<{}, {1}, {2}, {3}, {1}, {4, 5}>>
\* 2 and 3 are made on 1, 4 merges them, 5 is made on 3; 6 stands alone.
Fork == <<{}, {1}, {1}, {2, 3}, {3}, {}>>
History(parents, local, remote) == [parents |-> parents, local |-> local, remote |-> remote]
MCHistories == {History(Trunk, 6, 4), History(Trunk, 3, 6), History(Trunk, 5, 5),
                History(Fork, 4, 5), History(Fork, 5, 6), History(Fork, 3, 4)}
=============================================================================
