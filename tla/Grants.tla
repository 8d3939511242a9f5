------------------------------ MODULE Grants ------------------------------
(***************************************************************************)
(* What the authorization server promises, without requests, handlers,     *)
(* mutexes or a map: an operator's approval makes one grant, a grant is    *)
(* spent at most once and only within the lifetimes of both, and nothing   *)
(* is sealed before a grant was spent.  A grant may be lost at any time.   *)
(***************************************************************************)
EXTENDS Naturals

CONSTANTS
    Approval,       \* what an operator can enter: console codes
    Nobody,         \* no approval
    Grant,          \* authorization codes
    ApprovalLife,   \* how long after its printing an approval can be used
    GrantLife,      \* how long after its approval a grant can be spent
    Unprinted       \* no time

VARIABLES
    now,
    printed,        \* when each approval was printed
    by,             \* the approval behind each grant ever made
    live,           \* grants that may still be spent
    spent,          \* how often each grant was spent
    sealed          \* whether tokens exist
grantVars == <<now, printed, by, live, spent, sealed>>

Init ==
    /\ now = 0
    /\ printed = [a \in Approval |-> Unprinted]
    /\ by = [g \in Grant |-> Nobody]
    /\ live = {}
    /\ spent = [g \in Grant |-> 0]
    /\ sealed = FALSE

Tick ==
    /\ now' = now + 1
    /\ UNCHANGED <<printed, by, live, spent, sealed>>

Announce(a) ==
    /\ printed[a] = Unprinted
    /\ printed' = [printed EXCEPT ![a] = now]
    /\ UNCHANGED <<now, by, live, spent, sealed>>

\* An approval makes a grant if it was printed, is in time and made none yet;
\* others may be lost with it.
Approve(a, g) ==
    /\ printed[a] # Unprinted /\ now <= printed[a] + ApprovalLife
    /\ \A other \in Grant : by[other] # a
    /\ by[g] = Nobody
    /\ by' = [by EXCEPT ![g] = a]
    /\ g \in live' /\ live' \subseteq live \cup {g}
    /\ UNCHANGED <<now, printed, spent, sealed>>

Spend(g) ==
    /\ g \in live
    /\ now <= printed[by[g]] + ApprovalLife + GrantLife
    /\ live' = live \ {g}
    /\ spent' = [spent EXCEPT ![g] = @ + 1]
    /\ sealed' = TRUE
    /\ UNCHANGED <<now, printed, by>>

Lose ==
    /\ live' \subseteq live
    /\ UNCHANGED <<now, printed, by, spent, sealed>>

Next ==
    \/ Lose
    \/ Tick
    \/ \E a \in Approval : Announce(a)
    \/ \E a \in Approval, g \in Grant : Approve(a, g)
    \/ \E g \in Grant : Spend(g)

Spec == Init /\ [][Next]_grantVars

=============================================================================
