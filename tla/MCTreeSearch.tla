---------------------------- MODULE MCTreeSearch ----------------------------
(* A small workspace for TreeSearch: two nested directories, one file in   *)
(* each, a symlink, and a dot directory that an allow glob opens.          *)
EXTENDS TreeSearch

CONSTANTS w1, w2

MCDirs == {".", "docs", "docs/gen", ".ci"}
MCFiles == {"docs/a", "docs/gen/b", ".ci/c"}
MCLinks == {"docs/link"}
MCAbove == [p \in MCDirs \cup MCFiles \cup MCLinks |->
    CASE p = "." -> {}
      [] p \in {"docs", ".ci"} -> {"."}
      [] p = ".ci/c" -> {".", ".ci"}
      [] p = "docs/gen/b" -> {".", "docs", "docs/gen"}
      [] OTHER -> {".", "docs"}]
\* everything; everything but a file
MCTrees == {MCDirs \cup MCFiles \cup MCLinks, (MCDirs \cup MCFiles) \ {"docs/gen/b"}}
MCDotPaths == {".ci", ".ci/c"}
MCOrder == <<".ci/c", "docs/a", "docs/gen/b">>

Policy0(allow, block) ==
    [allow |-> allow, anyAllow |-> allow # {}, block |-> block, gitignore |-> TRUE]
\* no globs; allow "**/*"; block "docs/gen", whose files no pattern names
MCPolicies == {Policy0({}, {}), Policy0((MCFiles \cup MCDirs) \ {"."}, {}), Policy0({}, {"docs/gen"})}

Hide(S) == [hide |-> S, show |-> {}]
MCPatternsOf == [d \in MCDirs |->
    CASE d = "." -> {NoPatterns, Hide({"docs/gen"}), Hide({"docs/a", "docs/gen/b"})}
      [] d = "docs" -> {NoPatterns, [hide |-> {"docs/gen"}, show |-> {"docs/a"}]}
      [] OTHER -> {NoPatterns}]
MCInitialPatterns == {p \in [MCDirs -> UNION {MCPatternsOf[d] : d \in MCDirs}] :
    \A d \in MCDirs : p[d] \in MCPatternsOf[d]}

Text(t) == [source |-> t, fixed |-> TRUE, exact |-> TRUE, fold |-> FALSE, parses |-> TRUE,
            rune |-> t, lang |-> {t}, anchor |-> "none", need |-> t]
TextAnyCase(t, T) == [Text(t) EXCEPT !.exact = FALSE, !.fold = TRUE, !.lang = {t, T}]
Regex(source, rune, lang, anchor, need) ==
    [source |-> source, fixed |-> FALSE, exact |-> TRUE, fold |-> FALSE, parses |-> TRUE,
     rune |-> rune, lang |-> lang, anchor |-> anchor, need |-> need]
StartsWithFoo == Regex("^foo", NoToken, {"foo"}, "start", "foo")
FooOrBar == Regex("foo|bar", NoToken, {"foo", "bar"}, "none", NoToken)
Broken == [Text("(") EXCEPT !.fixed = FALSE, !.parses = FALSE]
\* x\.y parses to the literal x.y
Escaped == Regex("x\\.y", "x.y", {"x.y"}, "none", "x.y")

Plain == [binary |-> FALSE, lines |-> << <<"bar">>, <<"foo", "bar">>, <<"bar", "foo">>, <<>> >>]
Fenced == [binary |-> FALSE, lines |-> << <<"---">>, <<"foo">>, <<"---">>, <<"Foo">>, <<"---">> >>]
Binary == [binary |-> TRUE, lines |-> << <<"foo">> >>]
Dotted == [binary |-> FALSE, lines |-> << <<"x.y">>, <<>> >>]
MCData == {Plain, Fenced, Binary}
MCInitialData == {[f \in MCFiles |-> IF f = "docs/a" THEN Plain ELSE Fenced],
                  [f \in MCFiles |-> IF f = "docs/a" THEN Fenced ELSE Binary]}
DottedData == {Dotted}
InitialDottedData == {[f \in MCFiles |-> Dotted]}

Request(base, glob, where, matches, meta) ==
    [base |-> base, glob |-> glob, where |-> where, matches |-> matches, meta |-> meta]
MCRequests ==
    {Request(".", MCFiles, <<>>, TRUE, FALSE),
     Request("docs", {"docs/a", "docs/gen/b"}, <<>>, TRUE, TRUE),
     Request("docs/gen", {"docs/gen/b"}, <<TextAnyCase("foo", "Foo")>>, TRUE, TRUE),
     Request("docs/a", {"docs/a"}, <<Text("bar")>>, TRUE, TRUE),
     Request(".", MCFiles, <<StartsWithFoo, FooOrBar>>, TRUE, FALSE),
     Request(".", MCFiles, <<Text("foo")>>, FALSE, FALSE),
     Request(".", MCFiles, <<Broken>>, TRUE, FALSE)}
EscapedRequests == {Request(".", MCFiles, <<Escaped>>, TRUE, FALSE)}
============================================================================
