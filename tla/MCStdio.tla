------------------------------ MODULE MCStdio -------------------------------
\* A root with two READMEs, an index, a note, a directory named like a README
\* and a link named like an index; windows of a few bytes stand for the real
\* ones, in the same order: 8000 < 8192 < 16384.
EXTENDS Stdio, TLC

CONSTANTS readme, readmetxt, index, notes, aboutdir, indexlink

MCFiles == {readme, readmetxt, index, notes}
MCDirs == {Root, aboutdir}
MCAbove == [p \in MCFiles \cup MCDirs \cup {indexlink} |-> IF p = Root THEN {} ELSE {Root}]
MCStemRank ==
    [p \in MCFiles \cup MCDirs \cup {indexlink} |->
        CASE p \in {readme, readmetxt} -> 1 [] p \in {index, indexlink} -> 2
          [] p = aboutdir -> 3 [] OTHER -> 0]
MCNameRank ==
    (readme :> 1) @@ (readmetxt :> 2) @@ (index :> 3) @@ (indexlink :> 4)
    @@ (aboutdir :> 5) @@ (notes :> 6) @@ (Root :> 7)

Open == [allow |-> {}, anyAllow |-> FALSE, block |-> {}, gitignore |-> FALSE]
MCWorkspaces ==
    { [policy |-> [Open EXCEPT !.gitignore = TRUE], configured |-> NoProse, writable |-> TRUE],
      [policy |-> [Open EXCEPT !.block = {readme}], configured |-> NoProse, writable |-> FALSE],
      [policy |-> Open, configured |-> "configured", writable |-> TRUE] }

Prose == [size |-> 2, lines |-> 1, nulAt |-> 0, section |-> "prose"]
Long == [size |-> 6, lines |-> 4, nulAt |-> 0, section |-> "long"]
OnlyHeading == [size |-> 1, lines |-> 1, nulAt |-> 0, section |-> NoProse]
Binary == [size |-> 4, lines |-> 1, nulAt |-> 1, section |-> "bytes"]
LateNul == [size |-> 4, lines |-> 3, nulAt |-> 3, section |-> "late"]

Nothing == [d \in MCDirs |-> NoPatterns]
Hides(f) == [hide |-> {f}, show |-> {}]
All == [present |-> MCFiles \cup {indexlink, aboutdir},
        text |-> [f \in MCFiles |-> Prose], patterns |-> Nothing]
MCTrees ==
    { [All EXCEPT !.text[readme] = Binary, !.text[readmetxt] = OnlyHeading],
      [All EXCEPT !.text[readme] = LateNul],
      [All EXCEPT !.present = {readme, notes, aboutdir}, !.text[readme] = Long,
                  !.patterns[Root] = Hides(readme)] }
MCTexts == {LateNul}
MCIgnores == {Hides(index)}
============================================================================
