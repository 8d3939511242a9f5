------------------------------ MODULE Prefixes ------------------------------
(***************************************************************************)
(* The elements of a sequence that are in a set, in the order they have    *)
(* there: what a loop over the sequence that appends some of its elements  *)
(* to a slice has collected.                                               *)
(***************************************************************************)
EXTENDS Naturals, Sequences

\* After the first n rounds of the loop.
PickedUpTo(seq, S) ==
    LET picked[n \in 0 .. Len(seq)] ==
            IF n = 0 THEN <<>>
            ELSE IF seq[n] \in S THEN Append(picked[n - 1], seq[n]) ELSE picked[n - 1]
    IN picked

Picked(seq, S) == PickedUpTo(seq, S)[Len(seq)]
=============================================================================
