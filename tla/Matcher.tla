------------------------------ MODULE Matcher ------------------------------
(***************************************************************************)
(* The pattern compiler and body scanner of grrep (match.go, scan.go), as  *)
(* tree_search uses them.                                                  *)
(*                                                                         *)
(* A line is a sequence of tokens and stands for their concatenation; the  *)
(* tokens are chosen so that no token contains another.  A predicate       *)
(* carries what Go's regexp/syntax package would say of its pattern:       *)
(*   source    the pattern, byte for byte, as a token                      *)
(*   fixed     it is a literal text, not a regular expression              *)
(*   exact     neither caseInsensitive nor wordBoundary is asked for       *)
(*   fold      caseInsensitive is asked for                                *)
(*   parses    the expression compiles                                     *)
(*   rune      the literal the whole expression parses to, or NoToken      *)
(*   lang      the tokens the expression matches, anchors apart            *)
(*   anchor    "start" for ^, "end" for $, "none"                          *)
(*   need      the literal extractLiteral finds in it, or NoToken: one that *)
(*             every match contains, unless the pattern has its own (?i)   *)
(* Matches that span lines and word boundaries are left out.               *)
(***************************************************************************)
EXTENDS Naturals, Sequences

NoToken == "no token"
Line == Seq(STRING)
Predicate == [source : STRING, fixed : BOOLEAN, exact : BOOLEAN, fold : BOOLEAN,
              parses : BOOLEAN, rune : STRING, lang : SUBSET STRING,
              anchor : {"start", "end", "none"}, need : STRING]

HasToken(line, t) == \E k \in DOMAIN line : line[k] = t

\* CompileMatcher: a text without options, and an expression that parses to
\* one literal, are looked for as the bytes of the pattern.
CompileMatcher(p) ==
    IF p.exact /\ (p.fixed \/ p.rune # NoToken)
    THEN [regexp |-> FALSE, lang |-> {}, anchor |-> "none", literal |-> p.source]
    ELSE [regexp |-> TRUE, lang |-> p.lang, anchor |-> p.anchor,
          literal |-> IF p.fold THEN NoToken ELSE p.need]

\* Where in a line of tokens an anchor lets a match begin or end.
At(line, anchor) ==
    CASE anchor = "start" -> {1} \cap DOMAIN line
      [] anchor = "end"   -> {Len(line)} \cap DOMAIN line
      [] OTHER            -> DOMAIN line

\* Re.Match on one line.
ExpressionMatches(m, line) == \E k \in At(line, m.anchor) : line[k] \in m.lang

\* scanWholeRegex: the expression runs over the whole text, without (?m), so
\* ^ is the start of the first line and $ the end of the last.
ScanWholeRegex(lines, m) ==
    {k \in DOMAIN lines :
        /\ ExpressionMatches(m, lines[k])
        /\ m.anchor = "start" => k = 1
        /\ m.anchor = "end" => k = Len(lines)}

\* scanWholeBody: the numbers of the lines matched.
ScanBytes(lines, m) ==
    IF m.regexp /\ m.literal = NoToken THEN ScanWholeRegex(lines, m)
    ELSE {k \in DOMAIN lines :
            /\ HasToken(lines[k], m.literal)
            /\ m.regexp => ExpressionMatches(m, lines[k])}

\* What a predicate says of a line (docs/design.md, tree_search): a text is a
\* literal substring, a regular expression is a Go one.
Holds(p, line) ==
    IF p.fixed /\ p.exact THEN HasToken(line, p.source) ELSE ExpressionMatches(p, line)
============================================================================
