------------------------------ MODULE OAuth -------------------------------
(***************************************************************************)
(* The authorization server of mcp/oauth.go.                               *)
(*                                                                         *)
(* An approval code (the nonce) is printed on the console; whoever enters  *)
(* it on the consent page gets an authorization code, and whoever brings   *)
(* that to the token endpoint gets a pair of tokens.  The nonce and the    *)
(* authorization codes are in memory, under one mutex, and are gone when   *)
(* the process restarts; tokens are sealed with keys derived from the      *)
(* client secret, so the server keeps none of them and they outlive it.    *)
(*                                                                         *)
(* Requests are handled by concurrent goroutines.  An action is one        *)
(* critical section, with what the handler computes around it; between     *)
(* two sections of one request any other request, the clock or a restart   *)
(* may come.  The clock counts in the unit of the TTL constants.           *)
(***************************************************************************)
EXTENDS Integers, Sequences, FiniteSets

CONSTANTS
    Handler,        \* goroutines serving requests
    NonceId,        \* console approval codes the generator can draw
    CodeId,         \* authorization codes the generator can draw
    Redirect,       \* redirect_uri values clients send
    Unparsable,     \* those of them url.Parse rejects
    Verifier,       \* PKCE verifiers; a challenge is the verifier it is made of
    NoChallenge,    \* code_challenge left out
    NoNonce,        \* the empty nonce
    NonceTTL, CodeTTL, TokenTTL, RefreshTTL,
    MaxCodes,       \* oauthMaxCodes
    MaxTime,        \* bound of the clock in a run
    RandMayFail     \* whether the random generator may fail

ASSUME TTLAssumption ==
    /\ NonceTTL \in Nat /\ CodeTTL \in Nat
    /\ TokenTTL \in Nat /\ RefreshTTL \in Nat
    /\ MaxCodes \in Nat \ {0}
    /\ MaxTime \in Nat
    /\ RandMayFail \in BOOLEAN
ASSUME NameAssumption ==
    /\ NoNonce \notin NonceId
    /\ NoChallenge \notin Verifier
    /\ Unparsable \subseteq Redirect

Never == -1

VARIABLES
    now,        \* s.now()
    codes,      \* s.codes: what is remembered of each pending code
    nonce,      \* s.nonce
    nonceAt,    \* s.nonceAt
    pc,         \* where each handler is between two critical sections
    job,        \* what a token request holds: its own fields and the code it took
    reply,      \* the answer of each handler's last request
    tokens,     \* every token ever sealed, in the hands of clients
    printedAt,  \* observation: when each nonce was printed
    approvals,  \* observation: for each code ever issued, the nonce entered and the request
    pairs       \* observation: who exchanged each code for tokens, and when

serverVars == <<codes, nonce, nonceAt>>
observed == <<printedAt, approvals, pairs>>
vars == <<now, codes, nonce, nonceAt, pc, job, reply, tokens,
          printedAt, approvals, pairs>>

Time == Nat
AuthCode == [redirect: Redirect, expiry: Time, challenge: Verifier \cup {NoChallenge}]
Exchange == [code: CodeId, redirect: Redirect, verifier: Verifier, taken: AuthCode]
NoJob == <<>>
Approval == [nonce: NonceId, redirect: Redirect, challenge: Verifier \cup {NoChallenge}]
Pair == [at: Time, redirect: Redirect, verifier: Verifier]
Token == [kind: {"access", "refresh"}, expiry: Time]
Answers == {"none", "page", "redirect", "bad_request", "unavailable",
            "turned_away", "invalid_grant", "server_error", "pair"}

Pending == DOMAIN codes

Extend(f, k, value) == [i \in DOMAIN f \cup {k} |-> IF i = k THEN value ELSE f[i]]

---------------------------------------------------------------------------
(* Helpers, each called with the mutex held *)

\* The stored nonce is there and not aged past its TTL.
NonceIsActive == nonce # NoNonce /\ now - nonceAt <= NonceTTL

\* checkNonceLocked
CheckNonce(got) == NonceIsActive /\ got = nonce

\* Mutants: the sweep drops codes at their expiry; there is no sweep.
SweptAtExpiry == [k \in {k \in Pending : now < codes[k].expiry} |-> codes[k]]
NotSwept == codes

\* sweepExpiredLocked: the codes that stay
Swept == [k \in {k \in Pending : now <= codes[k].expiry} |-> codes[k]]

Respond(h, answer) ==
    /\ pc' = [pc EXCEPT ![h] = "idle"]
    /\ job' = [job EXCEPT ![h] = NoJob]
    /\ reply' = [reply EXCEPT ![h] = answer]

\* Mutant: what was taken under the mutex is lost when it is released.
ContinueForgetting(h, step, held) ==
    /\ pc' = [pc EXCEPT ![h] = step]
    /\ reply' = [reply EXCEPT ![h] = "none"]
    /\ UNCHANGED job

\* The handler goes on without the mutex.
Continue(h, step, held) ==
    /\ pc' = [pc EXCEPT ![h] = step]
    /\ job' = [job EXCEPT ![h] = held]
    /\ reply' = [reply EXCEPT ![h] = "none"]

\* issueTokenPair: both tokens are sealed with their own key and lifetime.
IssueTokenPair ==
    tokens' = tokens \cup {[kind |-> "access", expiry |-> now + TokenTTL],
                           [kind |-> "refresh", expiry |-> now + RefreshTTL]}

\* refreshCodec.validate
ValidRefresh(t) == t.kind = "refresh" /\ now < t.expiry

---------------------------------------------------------------------------
(* GET and POST /oauth/authorize *)

\* Requests that end before any critical section: unknown client_id, missing
\* redirect_uri, another response_type or challenge method, another HTTP
\* method, wrong client credentials, another grant_type; or no bytes for a code.
TurnAway(h) ==
    /\ pc[h] = "idle"
    /\ \/ Respond(h, "turned_away")
       \/ RandMayFail /\ Respond(h, "server_error")
    /\ UNCHANGED <<now, serverVars, tokens, observed>>

\* showApprovePage, up to renderApprove
ShowApprovePage(h) ==
    /\ pc[h] = "idle"
    /\ Continue(h, "challenge", NoJob)
    /\ UNCHANGED <<now, serverVars, tokens, observed>>

\* Mutant: every page load draws a new nonce.
EnsureChallengeAlways(h) ==
    /\ pc[h] = "challenge"
    /\ \E n \in NonceId :
          /\ printedAt[n] = Never
          /\ nonce' = n
          /\ printedAt' = [printedAt EXCEPT ![n] = now]
    /\ nonceAt' = now
    /\ Respond(h, "page")
    /\ UNCHANGED <<now, codes, tokens, approvals, pairs>>

\* renderApprove: ensureChallengeLocked, then the page
EnsureChallenge(h) ==
    /\ pc[h] = "challenge"
    /\ Respond(h, "page")
    /\ \/ NonceIsActive /\ UNCHANGED <<nonce, nonceAt, printedAt>>
       \/ /\ ~NonceIsActive
          /\ \E n \in NonceId :
                /\ printedAt[n] = Never
                /\ nonce' = n
                /\ printedAt' = [printedAt EXCEPT ![n] = now]
          /\ nonceAt' = now
       \/ /\ ~NonceIsActive
          /\ RandMayFail
          /\ nonce' = NoNonce
          /\ UNCHANGED <<nonceAt, printedAt>>
    /\ UNCHANGED <<now, codes, tokens, approvals, pairs>>

\* A code that was never drawn before goes into the swept map.
InsertCode(k, redirect, challenge) ==
    /\ k \notin DOMAIN approvals
    /\ codes' = Extend(Swept, k, [redirect |-> redirect, expiry |-> now + CodeTTL,
                                  challenge |-> challenge])
    /\ approvals' = Extend(approvals, k, [nonce |-> nonce, redirect |-> redirect,
                                          challenge |-> challenge])

\* The critical section of issueCode, and the redirect after it.
IssueCode(h, got, redirect, challenge) ==
    /\ pc[h] = "idle"
    /\ \/ /\ ~CheckNonce(got)
          /\ Continue(h, "challenge", NoJob)
          /\ UNCHANGED <<codes, nonce, approvals>>
       \/ /\ CheckNonce(got)
          /\ Cardinality(DOMAIN Swept) >= MaxCodes
          /\ codes' = Swept
          /\ Respond(h, "unavailable")
          /\ UNCHANGED <<nonce, approvals>>
       \/ /\ CheckNonce(got)
          /\ Cardinality(DOMAIN Swept) < MaxCodes
          /\ \E k \in CodeId : InsertCode(k, redirect, challenge)
          /\ nonce' = NoNonce
          /\ Respond(h, IF redirect \in Unparsable THEN "bad_request" ELSE "redirect")
    /\ UNCHANGED <<now, nonceAt, tokens, printedAt, pairs>>

---------------------------------------------------------------------------
(* POST /oauth/token *)

\* Mutant: the code is deleted only when the exchange succeeds.
TakeCodeLeavingIt(h, k, redirect, verifier) ==
    /\ pc[h] = "idle"
    /\ k \in Pending
    /\ Continue(h, "exchange", [code |-> k, redirect |-> redirect,
                                verifier |-> verifier, taken |-> codes[k]])
    /\ UNCHANGED <<now, serverVars, tokens, observed>>

\* authCodeGrant, inside the mutex: a code is taken out of the map by the
\* first request that names it, whatever becomes of that request.
TakeCode(h, k, redirect, verifier) ==
    /\ pc[h] = "idle"
    /\ IF k \in Pending
       THEN /\ Continue(h, "exchange", [code |-> k, redirect |-> redirect,
                                        verifier |-> verifier, taken |-> codes[k]])
            /\ codes' = [i \in Pending \ {k} |-> codes[i]]
       ELSE Respond(h, "invalid_grant") /\ UNCHANGED codes
    /\ UNCHANGED <<now, nonce, nonceAt, tokens, observed>>

\* Mutant: the verifier is not compared.
AcceptableUnverified(held) ==
    /\ now <= held.taken.expiry
    /\ held.taken.redirect = held.redirect

\* The request is the one the code was issued for, in time.
Acceptable(held) ==
    /\ now <= held.taken.expiry
    /\ held.taken.redirect = held.redirect
    /\ held.taken.challenge \in {NoChallenge, held.verifier}

\* authCodeGrant, after the mutex: expiry, redirect_uri, PKCE, then the pair.
ExchangeCode(h) ==
    /\ pc[h] = "exchange"
    /\ \/ ~Acceptable(job[h]) /\ Respond(h, "invalid_grant") /\ UNCHANGED <<tokens, pairs>>
       \/ /\ Acceptable(job[h])
          /\ IssueTokenPair
          /\ pairs' = [pairs EXCEPT ![job[h].code] =
                         Append(@, [at |-> now, redirect |-> job[h].redirect,
                                    verifier |-> job[h].verifier])]
          /\ Respond(h, "pair")
       \/ /\ Acceptable(job[h])
          /\ RandMayFail
          /\ Respond(h, "server_error")
          /\ UNCHANGED <<tokens, pairs>>
    /\ UNCHANGED <<now, serverVars, printedAt, approvals>>

\* refreshGrant: the refresh token is neither rotated nor spent.
RefreshGrant(h, t) ==
    /\ pc[h] = "idle"
    /\ \/ t \in tokens /\ ValidRefresh(t) /\ IssueTokenPair /\ Respond(h, "pair")
       \/ /\ t \in tokens /\ ValidRefresh(t)
          /\ RandMayFail
          /\ Respond(h, "server_error")
          /\ UNCHANGED tokens
       \/ /\ ~(t \in tokens /\ ValidRefresh(t))
          /\ Respond(h, "invalid_grant")
          /\ UNCHANGED tokens
    /\ UNCHANGED <<now, serverVars, observed>>

---------------------------------------------------------------------------
(* Time and restarts *)

Tick ==
    /\ now < MaxTime
    /\ now' = now + 1
    /\ UNCHANGED <<serverVars, pc, job, reply, tokens, observed>>

\* A new process: NewOAuthServer.  Requests in flight are lost.
Restart ==
    /\ codes' = <<>>
    /\ nonce' = NoNonce
    /\ nonceAt' = 0
    /\ pc' = [h \in Handler |-> "idle"]
    /\ job' = [h \in Handler |-> NoJob]
    /\ reply' = [h \in Handler |-> "none"]
    /\ UNCHANGED <<now, tokens, observed>>

Init ==
    /\ now = 0
    /\ codes = <<>>
    /\ nonce = NoNonce
    /\ nonceAt = 0
    /\ pc = [h \in Handler |-> "idle"]
    /\ job = [h \in Handler |-> NoJob]
    /\ reply = [h \in Handler |-> "none"]
    /\ tokens = {}
    /\ printedAt = [n \in NonceId |-> Never]
    /\ approvals = <<>>
    /\ pairs = [k \in CodeId |-> <<>>]

\* What an entry field or a form can hold: anything printed or handed out so
\* far, and a guess.
Authorize(h) ==
    \/ ShowApprovePage(h)
    \/ \E got \in NonceId \cup {NoNonce}, redirect \in Redirect,
          challenge \in Verifier \cup {NoChallenge} : IssueCode(h, got, redirect, challenge)
    \/ EnsureChallenge(h)

TokenRequest(h) ==
    \/ \E k \in CodeId, redirect \in Redirect, verifier \in Verifier :
          TakeCode(h, k, redirect, verifier)
    \/ ExchangeCode(h)
    \/ \E t \in tokens \cup {[kind |-> "refresh", expiry |-> MaxTime + 1]} : RefreshGrant(h, t)

Next ==
    \/ \E h \in Handler : TurnAway(h) \/ Authorize(h) \/ TokenRequest(h)
    \/ Tick
    \/ Restart

Spec == Init /\ [][Next]_vars

---------------------------------------------------------------------------
(* Properties *)

\* The type invariant; a handler holds a code exactly between the two halves
\* of authCodeGrant.
TypeOK ==
    /\ now \in Time /\ nonceAt \in Time
    /\ Pending \subseteq CodeId /\ codes \in [Pending -> AuthCode]
    /\ nonce \in NonceId \cup {NoNonce}
    /\ pc \in [Handler -> {"idle", "challenge", "exchange"}]
    /\ job \in [Handler -> Exchange \cup {NoJob}]
    /\ \A h \in Handler : pc[h] = "exchange" => job[h] \in Exchange
    /\ reply \in [Handler -> Answers]
    /\ tokens \subseteq Token
    /\ printedAt \in [NonceId -> Time \cup {Never}]
    /\ DOMAIN approvals \subseteq CodeId /\ approvals \in [DOMAIN approvals -> Approval]
    /\ pairs \in [CodeId -> Seq(Pair)]

\* "Single-use (cleared on first correct entry)": what the operator reads off
\* the console and enters approves one authorization, however many requests
\* race with it on the consent page.
OneCodePerApproval ==
    \A j, k \in DOMAIN approvals : j # k => approvals[j].nonce # approvals[k].nonce

\* An authorization code is exchanged once, even by requests that race to the
\* token endpoint with it (delete under the mutex, checks after it).
OnePairPerCode == \A k \in CodeId : Len(pairs[k]) <= 1

\* The bound oauthMaxCodes puts on the map, sweep and insertion together.
CodesBounded == Cardinality(Pending) <= MaxCodes

\* Every exchange goes back to a nonce printed on the console no longer ago
\* than the lifetimes of a nonce and of a code: no combination of waiting
\* handlers, re-rendered pages and restarts stretches an approval.
PairFollowsApproval ==
    \A k \in CodeId : \A i \in DOMAIN pairs[k] :
        /\ k \in DOMAIN approvals
        /\ pairs[k][i].at <= printedAt[approvals[k].nonce] + NonceTTL + CodeTTL

\* The pair goes to a request that names the redirect_uri and knows the
\* verifier of the very authorization the code was issued for.
PairMatchesAuthorization ==
    \A k \in CodeId : \A i \in DOMAIN pairs[k] :
        /\ k \in DOMAIN approvals
        /\ pairs[k][i].redirect = approvals[k].redirect
        /\ approvals[k].challenge \in {NoChallenge, pairs[k][i].verifier}

\* Tokens, refreshed ones included, exist only after some approval was
\* exchanged, across any number of restarts.
TokensNeedAnApproval == tokens # {} => \E k \in CodeId : pairs[k] # <<>>

\* "Repeated page loads within the TTL neither reprint nor rotate", nor do
\* wrong entries, answers that the server is full, or token requests: an active
\* nonce goes only when it approves a code, or with the process.
ActiveNonceGoesWithItsCode ==
    NonceIsActive /\ nonce' # nonce =>
        \/ \E k \in DOMAIN approvals' \ DOMAIN approvals : approvals'[k].nonce = nonce
        \/ Restart
NonceStableWhileActive == [][ActiveNonceGoesWithItsCode]_vars

\* temporarily_unavailable is only answered when MaxCodes codes are pending
\* that could all still be exchanged: expired ones never keep an operator out.
TurnedAwayWhenFull ==
    \A h \in Handler :
        reply[h] # "unavailable" /\ reply'[h] = "unavailable" =>
            Cardinality({k \in DOMAIN codes' : now <= codes'[k].expiry}) >= MaxCodes
UnavailableMeansFull == [][TurnedAwayWhenFull]_vars

\* A pending code that authCodeGrant would still accept leaves the map only
\* for the request that redeems it, or with the process; the sweep and the
\* expiry check of the grant agree on the boundary.
LiveCodeStaysOrIsTaken ==
    \A k \in Pending :
        now <= codes[k].expiry =>
            \/ k \in DOMAIN codes' /\ codes'[k] = codes[k]
            \/ \E h \in Handler : pc'[h] = "exchange" /\ job'[h].code = k
            \/ Restart
LiveCodesAreKept == [][LiveCodeStaysOrIsTaken]_vars

\* The server implements single-use grants of bounded life: a grant is live
\* while its code is in the map or with the handler that took it, and is spent
\* when the handler seals a pair for it; requests that race to the consent page
\* or the token endpoint, sweeps, refreshes and restarts add nothing to that.
LiveCodes == Pending \cup {job[h].code : h \in {g \in Handler : pc[g] = "exchange"}}
ApprovedBy == [k \in CodeId |->
                  IF k \in DOMAIN approvals THEN approvals[k].nonce ELSE NoNonce]
TimesExchanged == [k \in CodeId |-> Len(pairs[k])]

Grants == INSTANCE Grants WITH
    Approval <- NonceId, Nobody <- NoNonce, Grant <- CodeId, Unprinted <- Never,
    ApprovalLife <- NonceTTL, GrantLife <- CodeTTL,
    printed <- printedAt, by <- ApprovedBy, live <- LiveCodes,
    spent <- TimesExchanged, sealed <- tokens # {}
ImplementsGrants == Grants!Spec

=============================================================================
