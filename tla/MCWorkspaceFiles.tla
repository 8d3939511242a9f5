------------------------- MODULE MCWorkspaceFiles -------------------------
(***************************************************************************)
(* Small workspaces for WorkspaceFiles: a directory "docs" with one file   *)
(* "note" in it, and the tool calls each run allows.                       *)
(***************************************************************************)
EXTENDS WorkspaceFiles, TLC

CONSTANTS a, b, docs, note, t1, t2

MCParent == (docs :> Dot) @@ (note :> docs)
FlatParent == (note :> Dot)
Calls == Permutations(Client)

Short == <<a>>
Pair == <<b, a>>
Long == <<b, b, b>>          \* longer than MaxBytes

Creates(data) == [op: {"file_create"}, path: Path, data: data]
Overwrites(data, bases, dry) ==
    [op: {"file_overwrite"}, path: Path, data: data, base: bases, dry: dry]
Replaces(counts, bases, dry) ==
    [op: {"file_replace"}, path: Path, old: {a}, new: {b}, expected: counts,
     base: bases, dry: dry]
Reads == [op: {"file_read"}, path: Path, maxBytes: {0, 1}]

\* file_create of every path, against itself and against file_overwrite.
CreateRequests == Creates({Short, Pair}) \cup Overwrites({Short}, {NoHash}, {FALSE})

\* Editors, guarded or not, dry or not, and readers that ask for all or for
\* one byte.
EditRequests ==
    Overwrites({Short, Long}, {NoHash, Pair}, BOOLEAN)
        \cup Replaces({1, 2}, {NoHash, Pair}, BOOLEAN)
        \cup Reads

AllRequests == CreateRequests \cup {r \in EditRequests : r.path = note}

\* Writers without a guard, of contents that differ in length.
WriterRequests == Creates({Short}) \cup Overwrites({Short, Long}, {NoHash}, {FALSE})

NoteOnly == {<<a>>, <<b, a>>}
=============================================================================
