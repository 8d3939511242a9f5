------------------------------ MODULE Upstream ------------------------------
(***************************************************************************)
(* How far a branch is ahead of and behind its upstream                    *)
(* (gitaware/upstream.go), over a graph of commits: Parents[c] is the set  *)
(* of c's parents.  The order in which go-git's preorder iterator visits   *)
(* commits is left open; it matters only when a walk hits its cap.         *)
(***************************************************************************)
EXTENDS Naturals, FiniteSets

CONSTANT WalkCap     \* upstreamWalkCap
ASSUME WalkCapAssumption == WalkCap \in Nat \ {0}

\* The commits reachable from a set without entering the barred ones; each
\* step of the function is one generation.
Reachable(Parents, from, barred) ==
    LET within[n \in 0 .. Cardinality(DOMAIN Parents)] ==
            IF n = 0 THEN from \ barred
            ELSE within[n - 1] \cup ((UNION {Parents[c] : c \in within[n - 1]}) \ barred)
    IN within[Cardinality(DOMAIN Parents)]

Ancestors(Parents, c) == Reachable(Parents, {c}, {})

\* MergeBase of go-git: the common ancestors that are no ancestor of another.
MergeBases(Parents, c, d) ==
    LET Common == Ancestors(Parents, c) \cap Ancestors(Parents, d)
    IN {b \in Common : \A o \in Common \ {b} : b \notin Ancestors(Parents, o)}

\* Mutant: the bases themselves are the only commits barred.
BasesOnly(Parents, bases) == {bases}

\* collectBaseAncestors: all ancestors of the bases, or WalkCap of them when
\* the walk is cut short; whatever was visited was reached from a base.
Collected(Parents, bases) ==
    LET All == Reachable(Parents, bases, {})
        WalkOf(S) == S \subseteq Reachable(Parents, bases, All \ S)
    IN IF Cardinality(All) < WalkCap THEN {All}
       ELSE {S \in SUBSET All : Cardinality(S) = WalkCap /\ WalkOf(S)}

\* countCommitsFrom, before its cap.
CountFrom(Parents, from, seen) == Cardinality(Reachable(Parents, {from}, seen))

Capped(n) == IF n < WalkCap THEN n ELSE WalkCap

\* resolveUpstream, for each set the walk back from the bases may collect.
\* Unrelated histories have no bases: nothing is barred.
Counts(Parents, local, remote) ==
    IF local = remote
    THEN {[ahead |-> 0, behind |-> 0, inSync |-> TRUE, capped |-> FALSE]}
    ELSE LET bases == MergeBases(Parents, local, remote)
         IN {LET ahead == Capped(CountFrom(Parents, local, seen))
                 behind == Capped(CountFrom(Parents, remote, seen))
             IN [ahead |-> ahead, behind |-> behind,
                 inSync |-> ahead = 0 /\ behind = 0,
                 capped |-> \/ bases # {} /\ Cardinality(seen) >= WalkCap
                            \/ ahead >= WalkCap \/ behind >= WalkCap] :
             seen \in Collected(Parents, bases)}
=============================================================================
