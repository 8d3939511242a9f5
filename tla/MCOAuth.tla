----------------------------- MODULE MCOAuth ------------------------------
(* Small instances of OAuth for TLC. *)
EXTENDS OAuth, TLC

Draws == Permutations(Handler) \cup Permutations(NonceId) \cup Permutations(CodeId)
=============================================================================
