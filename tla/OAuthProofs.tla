---------------------------- MODULE OAuthProofs ----------------------------
(***************************************************************************)
(* What the authorization server promises for any number of requests, any  *)
(* lifetimes and any cap: one code per approval, one exchange per code,    *)
(* each exchange in time and by the request it was issued for.             *)
(***************************************************************************)
EXTENDS OAuth, FiniteSetTheorems, TLAPS

---------------------------------------------------------------------------
(* The inductive invariant *)

\* What the console has seen: the stored nonce was printed when the server
\* says, has approved nothing yet, and every approval names a printed nonce.
NonceInv ==
    /\ \A n \in NonceId : printedAt[n] # Never => printedAt[n] <= now
    /\ nonce # NoNonce => /\ printedAt[nonce] = nonceAt
                          /\ printedAt[nonce] # Never
    /\ \A k \in DOMAIN approvals :
          /\ printedAt[approvals[k].nonce] # Never
          /\ approvals[k].nonce # nonce

\* A code nobody exchanged yet, remembered as it was approved.
Unspent(k, code) ==
    /\ k \in DOMAIN approvals
    /\ pairs[k] = <<>>
    /\ code.redirect = approvals[k].redirect
    /\ code.challenge = approvals[k].challenge
    /\ code.expiry <= printedAt[approvals[k].nonce] + NonceTTL + CodeTTL

\* A code is in one place at most: the map, or one handler.
MapInv == \A k \in Pending : Unspent(k, codes[k])
JobInv ==
    \A h \in Handler : pc[h] = "exchange" =>
        job[h].code \notin Pending /\ Unspent(job[h].code, job[h].taken)
OwnerInv ==
    \A g, h \in Handler :
        pc[g] = "exchange" /\ pc[h] = "exchange" /\ g # h => job[g].code # job[h].code

\* Exchanges happened to approved codes only.
PairInv == \A k \in CodeId : k \notin DOMAIN approvals => pairs[k] = <<>>

IInv ==
    /\ TypeOK
    /\ NonceInv
    /\ MapInv
    /\ JobInv
    /\ OwnerInv
    /\ PairInv
    /\ OneCodePerApproval
    /\ OnePairPerCode
    /\ PairFollowsApproval
    /\ PairMatchesAuthorization

LEMMA InitIInv == Init => IInv
<1> SUFFICES ASSUME Init PROVE IInv
  OBVIOUS
<1>1. TypeOK
  BY DEF Init, TypeOK, Pending, Time, Answers, AuthCode, Approval
<1>2. NonceInv /\ MapInv /\ JobInv /\ OwnerInv /\ PairInv /\ OneCodePerApproval
  BY DEF Init, NonceInv, MapInv, JobInv, OwnerInv, PairInv, OneCodePerApproval, Pending
<1>3. OnePairPerCode /\ PairFollowsApproval /\ PairMatchesAuthorization
  BY DEF Init, OnePairPerCode, PairFollowsApproval, PairMatchesAuthorization
<1> QED BY <1>1, <1>2, <1>3 DEF IInv

\* Steps that touch neither the map, the nonce nor what was observed.
LEMMA IdleStepKeepsIInv ==
    ASSUME IInv, UNCHANGED <<codes, nonce, nonceAt, printedAt, approvals, pairs>>,
           now' \in Nat, now <= now', tokens' \subseteq Token,
           NEW h \in Handler, NEW step \in {"idle", "challenge"},
           NEW answer \in Answers,
           \/ UNCHANGED <<pc, job, reply>>
           \/ /\ pc' = [pc EXCEPT ![h] = step]
              /\ job' = [job EXCEPT ![h] = NoJob]
              /\ reply' = [reply EXCEPT ![h] = answer]
    PROVE  IInv'
<1>1. TypeOK'
  BY DEF IInv, TypeOK, Pending, Time
<1>2. NonceInv'
  BY DEF IInv, NonceInv, TypeOK, Time, Never
<1>3. \A g \in Handler : pc'[g] = "exchange" => pc[g] = "exchange" /\ job'[g] = job[g]
  BY DEF IInv, TypeOK
<1>4. MapInv'
  BY DEF IInv, MapInv, Pending, Unspent
<1>5. JobInv' /\ OwnerInv'
  BY <1>3 DEF IInv, JobInv, OwnerInv, Pending, Unspent
<1>6. PairInv' /\ OneCodePerApproval' /\ OnePairPerCode' /\ PairFollowsApproval'
      /\ PairMatchesAuthorization'
  BY DEF IInv, PairInv, OneCodePerApproval, OnePairPerCode, PairFollowsApproval,
         PairMatchesAuthorization
<1> QED BY <1>1, <1>2, <1>4, <1>5, <1>6 DEF IInv

---------------------------------------------------------------------------
(* Each action that touches the map, the nonce or what was observed *)

\* A page load or a wrong entry: an active nonce stays, another is drawn fresh.
LEMMA EnsureChallengeKeepsIInv ==
    ASSUME IInv, NEW h \in Handler, EnsureChallenge(h)
    PROVE  IInv'
<1> USE DEF EnsureChallenge, Respond
<1>1. CASE UNCHANGED <<nonce, nonceAt, printedAt>>
  <2>1. now' \in Nat /\ now <= now' /\ tokens' \subseteq Token
    BY DEF IInv, TypeOK, Time
  <2>2. "idle" \in {"idle", "challenge"} /\ "page" \in Answers
    BY DEF Answers
  <2>3. UNCHANGED <<codes, nonce, nonceAt, printedAt, approvals, pairs>>
    BY <1>1
  <2> QED BY <2>1, <2>2, <2>3, IdleStepKeepsIInv
<1>2. ASSUME nonce' # nonce \/ printedAt' # printedAt \/ nonceAt' # nonceAt
      PROVE  IInv'
  <2>1. TypeOK'
    BY <1>2 DEF IInv, TypeOK, Pending, Time, Answers, Never
  <2>2. ASSUME NEW k \in DOMAIN approvals
        PROVE  /\ approvals[k].nonce \in NonceId
               /\ printedAt[approvals[k].nonce] # Never
               /\ printedAt'[approvals[k].nonce] = printedAt[approvals[k].nonce]
               /\ approvals[k].nonce # nonce'
    BY <1>2, NameAssumption DEF IInv, TypeOK, NonceInv, Never, Approval
  <2>3. NonceInv'
    BY <1>2, <2>2, NameAssumption DEF IInv, NonceInv, TypeOK, Time, Never
  <2>4. \A g \in Handler : pc'[g] = "exchange" => pc[g] = "exchange" /\ job'[g] = job[g]
    BY DEF IInv, TypeOK
  <2>5. \A k, code : Unspent(k, code) => Unspent(k, code)'
    BY <2>2 DEF Unspent
  <2>6. MapInv' /\ JobInv' /\ OwnerInv'
    BY <2>4, <2>5 DEF IInv, MapInv, JobInv, OwnerInv, Pending, Unspent
  <2>7. PairInv' /\ OneCodePerApproval' /\ OnePairPerCode' /\ PairMatchesAuthorization'
    BY DEF IInv, PairInv, OneCodePerApproval, OnePairPerCode, PairMatchesAuthorization
  <2>8. PairFollowsApproval'
    BY <2>2 DEF IInv, PairFollowsApproval
  <2> QED BY <2>1, <2>3, <2>6, <2>7, <2>8 DEF IInv
<1> QED BY <1>1, <1>2

\* The sweep drops codes and alters none.
LEMMA SweptKeepsMap ==
    /\ DOMAIN Swept \subseteq Pending
    /\ \A k \in DOMAIN Swept : Swept[k] = codes[k]
  BY DEF Swept

\* What issueCode leaves in the map when it inserts: swept codes and the new one.
LEMMA InsertCodeMap ==
    ASSUME IInv, NEW k \in CodeId, NEW redirect \in Redirect,
           NEW challenge \in Verifier \cup {NoChallenge},
           CheckNonce(nonce), InsertCode(k, redirect, challenge)
    PROVE  /\ DOMAIN codes' = DOMAIN Swept \cup {k}
           /\ \A i \in DOMAIN Swept : i # k /\ codes'[i] = codes[i] /\ i \in Pending
           /\ codes'[k] = [redirect |-> redirect, expiry |-> now + CodeTTL,
                           challenge |-> challenge]
           /\ k \notin DOMAIN approvals
           /\ DOMAIN approvals' = DOMAIN approvals \cup {k}
           /\ \A i \in DOMAIN approvals : approvals'[i] = approvals[i]
           /\ approvals'[k] = [nonce |-> nonce, redirect |-> redirect,
                               challenge |-> challenge]
<1>1. \A i \in Pending : i \in DOMAIN approvals
  BY DEF IInv, MapInv, Unspent
<1>2. k \notin DOMAIN approvals
  BY DEF InsertCode
<1>3. k \notin DOMAIN Swept
  BY <1>1, <1>2, SweptKeepsMap
<1> QED BY <1>2, <1>3, SweptKeepsMap DEF InsertCode, Extend

\* The critical section of issueCode: refused, full, or a code for a nonce that
\* is cleared with it.
LEMMA IssueCodeKeepsIInv ==
    ASSUME IInv, NEW h \in Handler, NEW got \in NonceId \cup {NoNonce},
           NEW redirect \in Redirect, NEW challenge \in Verifier \cup {NoChallenge},
           IssueCode(h, got, redirect, challenge)
    PROVE  IInv'
<1>1. now' = now /\ nonceAt' = nonceAt /\ tokens' = tokens /\ printedAt' = printedAt
      /\ pairs' = pairs
  BY DEF IssueCode
<1>2. now \in Nat /\ now <= now /\ tokens' \subseteq Token
  BY <1>1 DEF IInv, TypeOK, Time
<1>3. CASE ~CheckNonce(got)
  <2>1. UNCHANGED <<codes, nonce, nonceAt, printedAt, approvals, pairs>>
    BY <1>1, <1>3 DEF IssueCode
  <2>2. /\ pc' = [pc EXCEPT ![h] = "challenge"]
        /\ job' = [job EXCEPT ![h] = NoJob]
        /\ reply' = [reply EXCEPT ![h] = "none"]
    BY <1>3 DEF IssueCode, Continue
  <2>3. "challenge" \in {"idle", "challenge"} /\ "none" \in Answers
    BY DEF Answers
  <2> QED BY <1>1, <1>2, <2>1, <2>2, <2>3, IdleStepKeepsIInv
<1>4. ASSUME CheckNonce(got),
             NEW answer \in Answers, Respond(h, answer)
      PROVE  /\ \A g \in Handler : pc'[g] = "exchange" =>
                    pc[g] = "exchange" /\ job'[g] = job[g]
             /\ pc' \in [Handler -> {"idle", "challenge", "exchange"}]
             /\ job' \in [Handler -> Exchange \cup {NoJob}]
             /\ reply' \in [Handler -> Answers]
  BY <1>4 DEF IInv, TypeOK, Respond
<1>5. CASE /\ CheckNonce(got)
           /\ codes' = Swept
           /\ Respond(h, "unavailable")
           /\ UNCHANGED <<nonce, approvals>>
  <2>1. "unavailable" \in Answers
    BY DEF Answers
  <2>2. /\ \A g \in Handler : pc'[g] = "exchange" => pc[g] = "exchange" /\ job'[g] = job[g]
        /\ pc' \in [Handler -> {"idle", "challenge", "exchange"}]
        /\ job' \in [Handler -> Exchange \cup {NoJob}]
        /\ reply' \in [Handler -> Answers]
    BY <1>4, <1>5, <2>1
  <2>3. TypeOK'
    BY <1>1, <1>5, <2>2 DEF IInv, TypeOK, Swept, Pending
  <2>4. \A k, code : Unspent(k, code) => Unspent(k, code)'
    BY <1>1, <1>5 DEF Unspent
  <2>5. MapInv' /\ JobInv' /\ OwnerInv'
    BY <1>5, <2>2, <2>4, SweptKeepsMap DEF IInv, MapInv, JobInv, OwnerInv, Pending
  <2>6. NonceInv' /\ PairInv' /\ OneCodePerApproval' /\ OnePairPerCode'
        /\ PairFollowsApproval' /\ PairMatchesAuthorization'
    BY <1>1, <1>5 DEF IInv, NonceInv, PairInv, OneCodePerApproval, OnePairPerCode,
       PairFollowsApproval, PairMatchesAuthorization
  <2> QED BY <2>3, <2>5, <2>6 DEF IInv
<1>6. ASSUME CheckNonce(got), nonce' = NoNonce,
             NEW k \in CodeId, InsertCode(k, redirect, challenge),
             NEW answer \in {"bad_request", "redirect"}, Respond(h, answer)
      PROVE  IInv'
  <2> DEFINE code == [redirect |-> redirect, expiry |-> now + CodeTTL,
                      challenge |-> challenge]
             approval == [nonce |-> nonce, redirect |-> redirect, challenge |-> challenge]
  <2>1. CheckNonce(nonce)
    BY <1>6 DEF CheckNonce
  <2>2. /\ DOMAIN codes' = DOMAIN Swept \cup {k}
        /\ \A i \in DOMAIN Swept : i # k /\ codes'[i] = codes[i] /\ i \in Pending
        /\ codes'[k] = code
        /\ k \notin DOMAIN approvals
        /\ DOMAIN approvals' = DOMAIN approvals \cup {k}
        /\ \A i \in DOMAIN approvals : approvals'[i] = approvals[i]
        /\ approvals'[k] = approval
    BY <1>6, <2>1, InsertCodeMap
  <2> HIDE DEF code, approval
  <2>3. /\ \A g \in Handler : pc'[g] = "exchange" => pc[g] = "exchange" /\ job'[g] = job[g]
        /\ pc' \in [Handler -> {"idle", "challenge", "exchange"}]
        /\ job' \in [Handler -> Exchange \cup {NoJob}]
        /\ reply' \in [Handler -> Answers]
    <3>1. answer \in Answers
      BY DEF Answers
    <3> QED BY <1>4, <1>6, <3>1
  <2>4. code \in AuthCode /\ approval \in Approval
    BY <2>1, NameAssumption, TTLAssumption
       DEF code, approval, AuthCode, Approval, CheckNonce, NonceIsActive, IInv, TypeOK, Time
  <2>5. TypeOK'
    <3>1. DOMAIN codes' \subseteq CodeId /\ codes' \in [DOMAIN codes' -> AuthCode]
      <4>1. codes' = [i \in DOMAIN codes' |-> codes'[i]]
        BY <1>6 DEF InsertCode, Extend
      <4>2. \A i \in DOMAIN codes' : i \in CodeId /\ codes'[i] \in AuthCode
        BY <2>2, <2>4 DEF IInv, TypeOK, Pending
      <4> QED BY <4>1, <4>2
    <3>2. /\ DOMAIN approvals' \subseteq CodeId
          /\ approvals' \in [DOMAIN approvals' -> Approval]
      <4>1. approvals' = [i \in DOMAIN approvals' |-> approvals'[i]]
        BY <1>6 DEF InsertCode, Extend
      <4>2. \A i \in DOMAIN approvals' : i \in CodeId /\ approvals'[i] \in Approval
        BY <2>2, <2>4 DEF IInv, TypeOK
      <4> QED BY <4>1, <4>2
    <3>3. \A g \in Handler : pc'[g] = "exchange" => job'[g] \in Exchange
      BY <2>3 DEF IInv, TypeOK
    <3> QED BY <1>1, <1>6, <2>3, <3>1, <3>2, <3>3 DEF IInv, TypeOK, Pending
  <2>6. nonce \in NonceId /\ nonce # NoNonce /\ printedAt[nonce] # Never
        /\ printedAt[nonce] = nonceAt /\ now <= nonceAt + NonceTTL
        /\ nonceAt \in Nat /\ now \in Nat
    BY <2>1, TTLAssumption
       DEF CheckNonce, NonceIsActive, IInv, TypeOK, NonceInv, Time
  <2>7. \A i \in DOMAIN approvals : approvals[i].nonce # nonce
    BY <2>6 DEF IInv, NonceInv
  <2>8. NonceInv'
    <3>1. \A i \in DOMAIN approvals' : approvals'[i].nonce \in NonceId
                                      /\ printedAt[approvals'[i].nonce] # Never
      BY <2>2, <2>6 DEF IInv, NonceInv, TypeOK, approval, Approval
    <3> QED BY <1>1, <1>6, <3>1, NameAssumption DEF IInv, NonceInv
  <2>9. \A i, c : Unspent(i, c) => Unspent(i, c)'
    BY <1>1, <2>2 DEF Unspent
  <2>10. Unspent(k, codes[k])'
    <3>1. pairs'[k] = <<>>
      BY <1>1, <2>2 DEF IInv, PairInv
    <3> QED BY <1>1, <2>2, <2>6, <3>1, TTLAssumption DEF Unspent, code, approval
  <2>11. MapInv'
    <3>1. \A i \in DOMAIN Swept : Unspent(i, codes'[i])
      BY <2>2 DEF IInv, MapInv
    <3>2. \A i \in DOMAIN Swept : Unspent(i, codes[i])'
      BY <1>1, <2>2, <3>1 DEF Unspent
    <3> QED BY <2>2, <2>10, <3>2 DEF MapInv, Pending
  <2>12. JobInv' /\ OwnerInv'
    BY <2>2, <2>3, <2>9 DEF IInv, JobInv, OwnerInv, Pending, Unspent
  <2>13. OneCodePerApproval'
    BY <2>2, <2>7 DEF IInv, OneCodePerApproval, approval
  <2>14. PairInv' /\ OnePairPerCode' /\ PairFollowsApproval' /\ PairMatchesAuthorization'
    BY <1>1, <2>2 DEF IInv, PairInv, OnePairPerCode, PairFollowsApproval,
       PairMatchesAuthorization
  <2> QED BY <2>5, <2>8, <2>11, <2>12, <2>13, <2>14 DEF IInv
<1> QED BY <1>3, <1>5, <1>6 DEF IssueCode

\* A code leaves the map for the one handler that takes it.
LEMMA TakeCodeKeepsIInv ==
    ASSUME IInv, NEW h \in Handler, NEW k \in CodeId, NEW redirect \in Redirect,
           NEW verifier \in Verifier, TakeCode(h, k, redirect, verifier)
    PROVE  IInv'
<1>1. UNCHANGED <<now, nonce, nonceAt, tokens, printedAt, approvals, pairs>>
  BY DEF TakeCode, observed
<1>2. NonceInv' /\ PairInv' /\ OneCodePerApproval' /\ OnePairPerCode'
      /\ PairFollowsApproval' /\ PairMatchesAuthorization'
  BY <1>1 DEF IInv, NonceInv, PairInv, OneCodePerApproval, OnePairPerCode,
     PairFollowsApproval, PairMatchesAuthorization
<1>3. CASE k \notin Pending
  <2>1. now' \in Nat /\ now <= now' /\ tokens' \subseteq Token
    BY <1>1 DEF IInv, TypeOK, Time
  <2>2. "idle" \in {"idle", "challenge"} /\ "invalid_grant" \in Answers
    BY DEF Answers
  <2>3. /\ pc' = [pc EXCEPT ![h] = "idle"]
        /\ job' = [job EXCEPT ![h] = NoJob]
        /\ reply' = [reply EXCEPT ![h] = "invalid_grant"]
        /\ codes' = codes
    BY <1>3 DEF TakeCode, Respond
  <2> QED BY <1>1, <2>1, <2>2, <2>3, IdleStepKeepsIInv
<1>4. CASE k \in Pending
  <2> DEFINE held == [code |-> k, redirect |-> redirect, verifier |-> verifier,
                      taken |-> codes[k]]
  <2>1. /\ pc[h] = "idle"
        /\ pc' = [pc EXCEPT ![h] = "exchange"]
        /\ job' = [job EXCEPT ![h] = held]
        /\ reply' = [reply EXCEPT ![h] = "none"]
        /\ codes' = [i \in Pending \ {k} |-> codes[i]]
    BY <1>4 DEF TakeCode, Continue
  <2>2. held \in Exchange
    BY <1>4 DEF IInv, TypeOK, Exchange
  <2>3. held.code = k /\ held.taken = codes[k]
    OBVIOUS
  <2> HIDE DEF held
  <2>4. \A g \in Handler : /\ g = h => job'[g] = held /\ pc'[g] = "exchange"
                           /\ g # h => job'[g] = job[g] /\ pc'[g] = pc[g]
    BY <2>1 DEF IInv, TypeOK
  <2>5. TypeOK'
    BY <1>1, <2>1, <2>2, <2>4 DEF IInv, TypeOK, Pending, Answers
  <2>6. Pending' = Pending \ {k} /\ \A i \in Pending' : codes'[i] = codes[i]
    BY <2>1 DEF Pending
  <2>7. \A i, c : Unspent(i, c) => Unspent(i, c)'
    BY <1>1 DEF Unspent
  <2>8. MapInv'
    BY <2>6, <2>7 DEF IInv, MapInv
  <2>9. JobInv'
    BY <1>4, <2>3, <2>4, <2>6, <2>7 DEF IInv, JobInv, MapInv
  <2>10. OwnerInv'
    BY <1>4, <2>3, <2>4 DEF IInv, JobInv, OwnerInv
  <2> QED BY <1>2, <2>5, <2>8, <2>9, <2>10 DEF IInv
<1> QED BY <1>3, <1>4

\* The taker of a code exchanges it, in time and for the request it was issued
\* for, or drops it.
LEMMA ExchangeCodeKeepsIInv ==
    ASSUME IInv, NEW h \in Handler, ExchangeCode(h)
    PROVE  IInv'
<1>1. UNCHANGED <<now, codes, nonce, nonceAt, printedAt, approvals>>
  BY DEF ExchangeCode, serverVars
<1>2. ASSUME NEW answer \in Answers, Respond(h, answer), UNCHANGED <<tokens, pairs>>
      PROVE  IInv'
  <2>1. now' \in Nat /\ now <= now' /\ tokens' \subseteq Token
    BY <1>1, <1>2 DEF IInv, TypeOK, Time
  <2>2. /\ pc' = [pc EXCEPT ![h] = "idle"]
        /\ job' = [job EXCEPT ![h] = NoJob]
        /\ reply' = [reply EXCEPT ![h] = answer]
    BY <1>2 DEF Respond
  <2> QED BY <1>1, <1>2, <2>1, <2>2, IdleStepKeepsIInv
<1>3. ASSUME Acceptable(job[h]), IssueTokenPair, Respond(h, "pair"),
             pairs' = [pairs EXCEPT ![job[h].code] =
                         Append(@, [at |-> now, redirect |-> job[h].redirect,
                                    verifier |-> job[h].verifier])]
      PROVE  IInv'
  <2> DEFINE k == job[h].code
             pair == [at |-> now, redirect |-> job[h].redirect, verifier |-> job[h].verifier]
  <2>1. pc[h] = "exchange" /\ job[h] \in Exchange
    BY DEF ExchangeCode, IInv, TypeOK
  <2>2. k \in CodeId /\ k \notin Pending /\ Unspent(k, job[h].taken)
    BY <2>1 DEF IInv, JobInv, Exchange
  <2>3. pair \in Pair
    BY <2>1 DEF Pair, Exchange, IInv, TypeOK
  <2>4. /\ pair.at = now /\ pair.redirect = approvals[k].redirect
        /\ approvals[k].challenge \in {NoChallenge, pair.verifier}
        /\ now <= job[h].taken.expiry
    BY <1>3, <2>2 DEF Acceptable, Unspent
  <2>5. k \in DOMAIN approvals /\ pairs[k] = <<>>
        /\ job[h].taken.expiry <= printedAt[approvals[k].nonce] + NonceTTL + CodeTTL
    BY <2>2 DEF Unspent
  <2>6. pairs' = [pairs EXCEPT ![k] = <<pair>>]
    BY <1>3, <2>2, <2>5 DEF IInv, TypeOK
  <2> HIDE DEF pair
  <2>7. \A i \in CodeId : pairs'[i] = IF i = k THEN <<pair>> ELSE pairs[i]
    BY <2>2, <2>6 DEF IInv, TypeOK
  <2>8. \A g \in Handler : pc'[g] = "exchange" =>
            g # h /\ pc[g] = "exchange" /\ job'[g] = job[g] /\ job[g].code # k
    BY <1>3, <2>1 DEF Respond, IInv, TypeOK, OwnerInv
  <2>9. TypeOK'
    <3>1. pairs' \in [CodeId -> Seq(Pair)]
      <4>1. <<pair>> \in Seq(Pair)
        BY <2>3
      <4> QED BY <2>6, <4>1 DEF IInv, TypeOK
    <3>2. tokens' \subseteq Token
      BY <1>3, TTLAssumption DEF IssueTokenPair, Token, IInv, TypeOK, Time
    <3>3. pc' \in [Handler -> {"idle", "challenge", "exchange"}]
          /\ job' \in [Handler -> Exchange \cup {NoJob}] /\ reply' \in [Handler -> Answers]
      BY <1>3 DEF Respond, IInv, TypeOK, Answers
    <3> QED BY <1>1, <2>8, <3>1, <3>2, <3>3 DEF IInv, TypeOK, Pending
  <2>10. \A i \in CodeId : \A c : i # k /\ Unspent(i, c) => Unspent(i, c)'
    BY <1>1, <2>7 DEF Unspent
  <2>11. MapInv'
    BY <1>1, <2>2, <2>10 DEF IInv, MapInv, Pending, TypeOK
  <2>12. JobInv' /\ OwnerInv'
    <3>1. \A g \in Handler : pc[g] = "exchange" => job[g].code \in CodeId
      BY DEF IInv, TypeOK, Exchange
    <3> QED BY <1>1, <2>8, <2>10, <3>1 DEF IInv, JobInv, OwnerInv, Pending
  <2>13. NonceInv' /\ PairInv' /\ OneCodePerApproval'
    BY <1>1, <2>5, <2>7 DEF IInv, NonceInv, PairInv, OneCodePerApproval
  <2>14. OnePairPerCode'
    <3>1. Len(<<pair>>) = 1
      OBVIOUS
    <3>2. \A i \in CodeId : Len(pairs[i]) <= 1
      BY DEF IInv, OnePairPerCode
    <3>3. ASSUME NEW i \in CodeId PROVE Len(pairs'[i]) <= 1
      <4>1. CASE i = k
        <5>1. pairs'[i] = <<pair>>
          BY <2>7, <4>1
        <5> QED BY <3>1, <5>1
      <4>2. CASE i # k
        BY <2>7, <3>2, <4>2
      <4> QED BY <4>1, <4>2
    <3> QED BY <3>3 DEF OnePairPerCode
  <2>15. \A i \in CodeId : \A j \in DOMAIN pairs'[i] :
            \/ i = k /\ pairs'[i][j] = pair
            \/ j \in DOMAIN pairs[i] /\ pairs'[i][j] = pairs[i][j]
    BY <2>7
  <2>16. now <= printedAt[approvals[k].nonce] + NonceTTL + CodeTTL
    <3>1. approvals[k] \in Approval
      BY <2>5 DEF IInv, TypeOK
    <3>2. printedAt[approvals[k].nonce] \in Int /\ now \in Int
          /\ job[h].taken.expiry \in Int
      BY <2>1, <3>1 DEF IInv, TypeOK, Time, Never, Approval, Exchange, AuthCode
    <3>3. NonceTTL \in Int /\ CodeTTL \in Int
      BY TTLAssumption
    <3>4. now <= job[h].taken.expiry
      BY <2>4
    <3>5. job[h].taken.expiry <= printedAt[approvals[k].nonce] + NonceTTL + CodeTTL
      BY <2>5
    <3> QED BY <3>2, <3>3, <3>4, <3>5
  <2>17. PairFollowsApproval'
    BY <1>1, <2>4, <2>5, <2>15, <2>16 DEF IInv, PairFollowsApproval
  <2>18. PairMatchesAuthorization'
    BY <1>1, <2>4, <2>5, <2>15 DEF IInv, PairMatchesAuthorization
  <2> QED BY <2>9, <2>11, <2>12, <2>13, <2>14, <2>17, <2>18 DEF IInv
<1>4. "invalid_grant" \in Answers /\ "server_error" \in Answers
  BY DEF Answers
<1> QED BY <1>2, <1>3, <1>4 DEF ExchangeCode

\* Refreshing adds tokens and nothing else.
LEMMA RefreshGrantKeepsIInv ==
    ASSUME IInv, NEW h \in Handler, NEW t, RefreshGrant(h, t)
    PROVE  IInv'
<1>1. UNCHANGED <<now, codes, nonce, nonceAt, printedAt, approvals, pairs>>
  BY DEF RefreshGrant, serverVars, observed
<1>2. now' \in Nat /\ now <= now' /\ tokens' \subseteq Token
  BY <1>1, TTLAssumption DEF RefreshGrant, IssueTokenPair, Token, IInv, TypeOK, Time
<1>3. PICK answer \in Answers : Respond(h, answer)
  BY DEF RefreshGrant, Answers
<1> QED BY <1>1, <1>2, <1>3, IdleStepKeepsIInv DEF Respond

\* A restart forgets codes and the nonce, and keeps what was observed.
LEMMA RestartKeepsIInv == ASSUME IInv, Restart PROVE IInv'
<1>1. UNCHANGED <<now, tokens, printedAt, approvals, pairs>>
  BY DEF Restart, observed
<1>2. TypeOK'
  BY <1>1 DEF Restart, IInv, TypeOK, Pending, Time, Answers
<1>3. NonceInv' /\ MapInv' /\ JobInv' /\ OwnerInv'
  BY <1>1, NameAssumption
     DEF Restart, IInv, TypeOK, NonceInv, MapInv, JobInv, OwnerInv, Pending, Approval
<1>4. PairInv' /\ OneCodePerApproval' /\ OnePairPerCode' /\ PairFollowsApproval'
      /\ PairMatchesAuthorization'
  BY <1>1 DEF IInv, PairInv, OneCodePerApproval, OnePairPerCode, PairFollowsApproval,
     PairMatchesAuthorization
<1> QED BY <1>2, <1>3, <1>4 DEF IInv

\* The invariant is inductive.
LEMMA NextKeepsIInv == IInv /\ [Next]_vars => IInv'
<1> SUFFICES ASSUME IInv, [Next]_vars PROVE IInv'
  OBVIOUS
<1>1. ASSUME NEW h \in Handler, TurnAway(h) PROVE IInv'
  <2>1. UNCHANGED <<now, codes, nonce, nonceAt, tokens, printedAt, approvals, pairs>>
    BY <1>1 DEF TurnAway, serverVars, observed
  <2>2. now' \in Nat /\ now <= now' /\ tokens' \subseteq Token
    BY <2>1 DEF IInv, TypeOK, Time
  <2>3. PICK answer \in Answers : Respond(h, answer)
    BY <1>1 DEF TurnAway, Answers
  <2> QED BY <2>1, <2>2, <2>3, IdleStepKeepsIInv DEF Respond
<1>2. ASSUME NEW h \in Handler, ShowApprovePage(h) PROVE IInv'
  <2>1. UNCHANGED <<now, codes, nonce, nonceAt, tokens, printedAt, approvals, pairs>>
    BY <1>2 DEF ShowApprovePage, serverVars, observed
  <2>2. now' \in Nat /\ now <= now' /\ tokens' \subseteq Token
    BY <2>1 DEF IInv, TypeOK, Time
  <2>3. Continue(h, "challenge", NoJob) /\ "none" \in Answers
    BY <1>2 DEF ShowApprovePage, Answers
  <2> QED BY <2>1, <2>2, <2>3, IdleStepKeepsIInv DEF Continue
<1>3. ASSUME NEW h \in Handler, Authorize(h) PROVE IInv'
  BY <1>2, <1>3, IssueCodeKeepsIInv, EnsureChallengeKeepsIInv DEF Authorize
<1>4. ASSUME NEW h \in Handler, TokenRequest(h) PROVE IInv'
  BY <1>4, TakeCodeKeepsIInv, ExchangeCodeKeepsIInv, RefreshGrantKeepsIInv DEF TokenRequest
<1>5. ASSUME UNCHANGED <<serverVars, pc, job, reply, tokens, observed>>,
             now' \in Nat, now <= now'
      PROVE  IInv'
  <2>1. TypeOK'
    BY <1>5 DEF IInv, TypeOK, serverVars, observed, Pending, Time
  <2>2. NonceInv'
    BY <1>5 DEF IInv, NonceInv, TypeOK, serverVars, observed, Time, Never
  <2>3. MapInv' /\ JobInv' /\ OwnerInv' /\ PairInv' /\ OneCodePerApproval' /\ OnePairPerCode'
        /\ PairFollowsApproval' /\ PairMatchesAuthorization'
    BY <1>5 DEF IInv, MapInv, JobInv, OwnerInv, PairInv, OneCodePerApproval, OnePairPerCode,
       PairFollowsApproval, PairMatchesAuthorization, serverVars, observed, Pending, Unspent
  <2> QED BY <2>1, <2>2, <2>3 DEF IInv
<1>6. CASE Tick
  BY <1>5, <1>6 DEF Tick, IInv, TypeOK, Time
<1>7. CASE UNCHANGED vars
  BY <1>5, <1>7 DEF vars, serverVars, observed, IInv, TypeOK, Time
<1> QED BY <1>1, <1>3, <1>4, <1>6, <1>7, RestartKeepsIInv DEF Next

---------------------------------------------------------------------------
(* Theorems *)

\* The invariant holds in every reachable state.
THEOREM Inductive == Spec => []IInv
  BY InitIInv, NextKeepsIInv, PTL DEF Spec

\* Every variable keeps its type; a handler between the halves of authCodeGrant
\* holds what it took.
THEOREM TypeCorrect == Spec => []TypeOK
<1>1. IInv => TypeOK
  BY DEF IInv
<1> QED BY <1>1, Inductive, PTL

\* One entry of a console code approves one authorization: issueCode checks and
\* clears the nonce under the mutex that inserts the code.
THEOREM ApprovalIsSingleUse == Spec => []OneCodePerApproval
<1>1. IInv => OneCodePerApproval
  BY DEF IInv
<1> QED BY <1>1, Inductive, PTL

\* One authorization code is exchanged once: authCodeGrant reads and deletes it
\* under one lock.
THEOREM CodeIsSingleUse == Spec => []OnePairPerCode
<1>1. IInv => OnePairPerCode
  BY DEF IInv
<1> QED BY <1>1, Inductive, PTL

\* An approval lasts no longer than a nonce and a code do, whatever handlers,
\* page loads and restarts come between.
THEOREM ApprovalExpires == Spec => []PairFollowsApproval
<1>1. IInv => PairFollowsApproval
  BY DEF IInv
<1> QED BY <1>1, Inductive, PTL

\* The pair goes to the redirect_uri and the verifier the code was issued for.
THEOREM PairIsBound == Spec => []PairMatchesAuthorization
<1>1. IInv => PairMatchesAuthorization
  BY DEF IInv
<1> QED BY <1>1, Inductive, PTL

---------------------------------------------------------------------------
(* The cap on pending codes *)

\* The map is finite and within the cap.
BoundInv == IsFiniteSet(Pending) /\ CodesBounded

LEMMA SmallerMapIsBounded ==
    ASSUME BoundInv, Pending' \subseteq Pending
    PROVE  BoundInv'
<1>1. IsFiniteSet(Pending') /\ Cardinality(Pending') <= Cardinality(Pending)
  BY FS_Subset DEF BoundInv
<1>2. Cardinality(Pending) \in Nat /\ Cardinality(Pending') \in Nat
  BY <1>1, FS_CardinalityType DEF BoundInv
<1> QED BY <1>1, <1>2, TTLAssumption DEF BoundInv, CodesBounded

\* Only issueCode adds to the map, and it counts what the sweep left.
LEMMA IssueCodeKeepsBound ==
    ASSUME BoundInv, NEW h \in Handler, NEW got, NEW redirect, NEW challenge,
           IssueCode(h, got, redirect, challenge)
    PROVE  BoundInv'
<1>1. CASE codes' = codes
  BY <1>1, SmallerMapIsBounded DEF Pending
<1>2. CASE codes' = Swept
  BY <1>2, SmallerMapIsBounded, SweptKeepsMap DEF Pending
<1>3. ASSUME NEW k \in CodeId, InsertCode(k, redirect, challenge),
             Cardinality(DOMAIN Swept) < MaxCodes
      PROVE  BoundInv'
  <2>1. Pending' = DOMAIN Swept \cup {k}
    BY <1>3 DEF InsertCode, Extend, Pending
  <2>2. IsFiniteSet(DOMAIN Swept)
    BY FS_Subset, SweptKeepsMap DEF BoundInv
  <2>3. /\ IsFiniteSet(Pending')
        /\ \/ Cardinality(Pending') = Cardinality(DOMAIN Swept)
           \/ Cardinality(Pending') = Cardinality(DOMAIN Swept) + 1
    BY <2>1, <2>2, FS_AddElement
  <2>4. Cardinality(DOMAIN Swept) \in Nat
    BY <2>2, FS_CardinalityType
  <2> QED BY <1>3, <2>3, <2>4, TTLAssumption DEF BoundInv, CodesBounded
<1> QED BY <1>1, <1>2, <1>3 DEF IssueCode

LEMMA NextKeepsBound == BoundInv /\ [Next]_vars => BoundInv'
<1> SUFFICES ASSUME BoundInv, [Next]_vars PROVE BoundInv'
  OBVIOUS
<1>1. CASE \E h \in Handler, got \in NonceId \cup {NoNonce}, redirect \in Redirect,
             challenge \in Verifier \cup {NoChallenge} : IssueCode(h, got, redirect, challenge)
  BY <1>1, IssueCodeKeepsBound
<1>2. ASSUME NEW h \in Handler, NEW k \in CodeId, NEW redirect \in Redirect,
             NEW verifier \in Verifier, TakeCode(h, k, redirect, verifier)
      PROVE  BoundInv'
  <2>1. Pending' \subseteq Pending
    BY <1>2 DEF TakeCode, Pending
  <2> QED BY <2>1, SmallerMapIsBounded
<1>3. CASE Restart
  <2>1. Pending' \subseteq Pending
    BY <1>3 DEF Restart, Pending
  <2> QED BY <2>1, SmallerMapIsBounded
<1>4. CASE codes' = codes
  BY <1>4, SmallerMapIsBounded DEF Pending
<1>5. CASE \/ \E h \in Handler : \/ TurnAway(h) \/ ShowApprovePage(h)
                              \/ EnsureChallenge(h) \/ ExchangeCode(h)
                              \/ \E t : RefreshGrant(h, t)
           \/ Tick
           \/ UNCHANGED vars
  BY <1>4, <1>5 DEF TurnAway, ShowApprovePage, EnsureChallenge, ExchangeCode, RefreshGrant,
     Tick, vars, serverVars
<1> QED BY <1>1, <1>2, <1>3, <1>5 DEF Next, Authorize, TokenRequest

\* No number of authorizations, abandoned or concurrent, takes the map over
\* oauthMaxCodes.
THEOREM MapIsBounded == Spec => []CodesBounded
<1>1. Init => BoundInv
  <2> SUFFICES ASSUME Init PROVE BoundInv
    OBVIOUS
  <2>1. Pending = {}
    BY DEF Init, Pending
  <2> QED BY <2>1, FS_EmptySet, TTLAssumption DEF BoundInv, CodesBounded
<1>2. BoundInv => CodesBounded
  BY DEF BoundInv
<1> QED BY <1>1, <1>2, NextKeepsBound, PTL DEF Spec

---------------------------------------------------------------------------
(* What a step may not do *)

LEMMA NonceStep == IInv /\ [Next]_vars => [ActiveNonceGoesWithItsCode]_vars
<1> SUFFICES ASSUME IInv, NonceIsActive, nonce' # nonce, Next
             PROVE  \/ \E k \in DOMAIN approvals' \ DOMAIN approvals :
                          approvals'[k].nonce = nonce
                    \/ Restart
  BY DEF ActiveNonceGoesWithItsCode, vars
<1>1. \/ Restart
      \/ \E h \in Handler, got \in NonceId \cup {NoNonce}, redirect \in Redirect,
            challenge \in Verifier \cup {NoChallenge} : IssueCode(h, got, redirect, challenge)
  BY DEF Next, Authorize, TokenRequest, TurnAway, ShowApprovePage, EnsureChallenge, TakeCode,
     ExchangeCode, RefreshGrant, Tick, serverVars
<1>2. ASSUME NEW h \in Handler, NEW got \in NonceId \cup {NoNonce}, NEW redirect \in Redirect,
             NEW challenge \in Verifier \cup {NoChallenge},
             IssueCode(h, got, redirect, challenge)
      PROVE  \E k \in DOMAIN approvals' \ DOMAIN approvals : approvals'[k].nonce = nonce
  <2>1. PICK k \in CodeId : InsertCode(k, redirect, challenge)
    BY <1>2 DEF IssueCode
  <2> QED BY <2>1 DEF InsertCode, Extend
<1> QED BY <1>1, <1>2

\* An active nonce is rotated by nothing but the code it approves.
THEOREM NonceIsStable == Spec => NonceStableWhileActive
  BY Inductive, NonceStep, PTL DEF Spec, NonceStableWhileActive

LEMMA LiveCodeStep == IInv /\ [Next]_vars => [LiveCodeStaysOrIsTaken]_vars
<1> SUFFICES ASSUME IInv, Next, NEW k \in Pending, now <= codes[k].expiry
             PROVE  \/ k \in DOMAIN codes' /\ codes'[k] = codes[k]
                    \/ \E h \in Handler : pc'[h] = "exchange" /\ job'[h].code = k
                    \/ Restart
  BY DEF LiveCodeStaysOrIsTaken, vars
<1>1. ASSUME codes' = codes
      PROVE  k \in DOMAIN codes' /\ codes'[k] = codes[k]
  BY <1>1 DEF Pending
<1>2. ASSUME NEW h \in Handler, NEW got \in NonceId \cup {NoNonce}, NEW redirect \in Redirect,
             NEW challenge \in Verifier \cup {NoChallenge},
             IssueCode(h, got, redirect, challenge)
      PROVE  k \in DOMAIN codes' /\ codes'[k] = codes[k]
  <2>1. k \in DOMAIN Swept /\ Swept[k] = codes[k]
    BY DEF Swept
  <2>2. k \in DOMAIN approvals
    BY DEF IInv, MapInv, Unspent
  <2> QED BY <1>1, <1>2, <2>1, <2>2 DEF IssueCode, InsertCode, Extend
<1>3. ASSUME NEW h \in Handler, NEW i \in CodeId, NEW redirect \in Redirect,
             NEW verifier \in Verifier, TakeCode(h, i, redirect, verifier)
      PROVE  \/ k \in DOMAIN codes' /\ codes'[k] = codes[k]
             \/ pc'[h] = "exchange" /\ job'[h].code = k
  <2>1. CASE k # i \/ i \notin Pending
    BY <1>1, <1>3, <2>1 DEF TakeCode
  <2>2. CASE k = i
    BY <1>3, <2>2 DEF TakeCode, Continue, IInv, TypeOK
  <2> QED BY <2>1, <2>2
<1>4. \/ Restart \/ codes' = codes
      \/ \E h \in Handler, got \in NonceId \cup {NoNonce}, redirect \in Redirect,
            challenge \in Verifier \cup {NoChallenge} : IssueCode(h, got, redirect, challenge)
      \/ \E h \in Handler, i \in CodeId, redirect \in Redirect, verifier \in Verifier :
            TakeCode(h, i, redirect, verifier)
  BY DEF Next, Authorize, TokenRequest, TurnAway, ShowApprovePage, EnsureChallenge,
     ExchangeCode, RefreshGrant, Tick, serverVars
<1> QED BY <1>1, <1>2, <1>3, <1>4

\* A code that could be redeemed is swept by no one.
THEOREM LiveCodesStay == Spec => LiveCodesAreKept
  BY Inductive, LiveCodeStep, PTL DEF Spec, LiveCodesAreKept

\* Only issueCode answers that the server is full, after its sweep.
LEMMA UnavailableStep ==
    ASSUME IInv, [Next]_vars, NEW h \in Handler,
           reply[h] # "unavailable", reply'[h] = "unavailable"
    PROVE  codes' = Swept /\ Cardinality(DOMAIN Swept) >= MaxCodes
<1>1. ASSUME NEW g \in Handler, NEW answer, Respond(g, answer), answer # "unavailable"
      PROVE  FALSE
  BY <1>1 DEF Respond, IInv, TypeOK
<1>2. ASSUME NEW g \in Handler, NEW step, NEW held, Continue(g, step, held)
      PROVE  FALSE
  BY <1>2 DEF Continue, IInv, TypeOK
<1>3. CASE UNCHANGED vars \/ Tick \/ Restart
  BY <1>3 DEF vars, Tick, Restart, IInv, TypeOK
<1>4. ASSUME NEW g \in Handler, TurnAway(g) \/ ShowApprovePage(g) \/ EnsureChallenge(g)
      PROVE  FALSE
  BY <1>1, <1>2, <1>4 DEF TurnAway, ShowApprovePage, EnsureChallenge
<1>5. ASSUME NEW g \in Handler, TokenRequest(g)
      PROVE  FALSE
  BY <1>1, <1>2, <1>5 DEF TokenRequest, TakeCode, ExchangeCode, RefreshGrant
<1>6. ASSUME NEW g \in Handler, NEW got, NEW redirect, NEW challenge,
             IssueCode(g, got, redirect, challenge)
      PROVE  codes' = Swept /\ Cardinality(DOMAIN Swept) >= MaxCodes
  BY <1>1, <1>2, <1>6 DEF IssueCode
<1> QED BY <1>3, <1>4, <1>5, <1>6 DEF Next, Authorize

LEMMA TurnedAwayStep == IInv /\ [Next]_vars => [TurnedAwayWhenFull]_vars
<1> SUFFICES ASSUME IInv, [Next]_vars, NEW h \in Handler,
                    reply[h] # "unavailable", reply'[h] = "unavailable"
             PROVE  Cardinality({k \in DOMAIN codes' : now <= codes'[k].expiry}) >= MaxCodes
  BY DEF TurnedAwayWhenFull
<1>1. codes' = Swept /\ Cardinality(DOMAIN Swept) >= MaxCodes
  BY UnavailableStep
<1>2. {k \in DOMAIN Swept : now <= Swept[k].expiry} = DOMAIN Swept
  BY DEF Swept
<1> QED BY <1>1, <1>2

\* Whoever is told to come back later meets a map full of codes that could all
\* still be exchanged.
THEOREM OnlyFullTurnsAway == Spec => UnavailableMeansFull
BY Inductive, TurnedAwayStep, PTL DEF Spec, UnavailableMeansFull

\* Tokens come from an exchange, or from tokens that came from one.
THEOREM TokensComeFromApproval == Spec => []TokensNeedAnApproval
<1>1. Init => TokensNeedAnApproval
  BY DEF Init, TokensNeedAnApproval
<1>2. IInv /\ TokensNeedAnApproval /\ [Next]_vars => TokensNeedAnApproval'
  <2> SUFFICES ASSUME IInv, TokensNeedAnApproval, [Next]_vars PROVE TokensNeedAnApproval'
    OBVIOUS
  <2>1. CASE tokens' = tokens /\ pairs' = pairs
    BY <2>1 DEF TokensNeedAnApproval
  <2>2. ASSUME NEW h \in Handler, ExchangeCode(h), ~UNCHANGED <<tokens, pairs>>
        PROVE  TokensNeedAnApproval'
    <3> DEFINE k == job[h].code
    <3>1. k \in CodeId /\ pairs \in [CodeId -> Seq(Pair)]
      BY <2>2 DEF ExchangeCode, IInv, TypeOK, Exchange
    <3>2. PICK pair : pairs' = [pairs EXCEPT ![k] = Append(@, pair)]
      BY <2>2 DEF ExchangeCode
    <3>3. pairs[k] \in Seq(Pair) /\ pairs'[k] = Append(pairs[k], pair)
      BY <3>1, <3>2
    <3>4. pairs'[k] # <<>>
      BY <3>3
    <3> QED BY <3>1, <3>4 DEF TokensNeedAnApproval
  <2>3. ASSUME NEW h \in Handler, NEW t, RefreshGrant(h, t), tokens' # tokens
        PROVE  TokensNeedAnApproval'
    <3>1. tokens # {} /\ pairs' = pairs
      BY <2>3 DEF RefreshGrant, observed
    <3> QED BY <3>1 DEF TokensNeedAnApproval
  <2>4. \/ tokens' = tokens /\ pairs' = pairs
        \/ \E h \in Handler : ExchangeCode(h)
        \/ \E h \in Handler, t \in tokens \cup {[kind |-> "refresh", expiry |-> MaxTime + 1]} :
              RefreshGrant(h, t)
    BY DEF Next, Authorize, TokenRequest, TurnAway, ShowApprovePage, EnsureChallenge,
       IssueCode, TakeCode, Tick, Restart, vars, observed
  <2>5. ASSUME NEW h \in Handler, NEW t, RefreshGrant(h, t) PROVE pairs' = pairs
    BY <2>5 DEF RefreshGrant, observed
  <2> QED BY <2>1, <2>2, <2>3, <2>4, <2>5
<1> QED BY <1>1, <1>2, Inductive, PTL DEF Spec

---------------------------------------------------------------------------
(* The server implements Grants *)

\* A step that spends nothing, and after which nothing else is live, loses
\* grants or stutters.
LEMMA LosingStep ==
    ASSUME UNCHANGED <<now, printedAt, approvals, pairs>>,
           tokens' = {} <=> tokens = {}, LiveCodes' \subseteq LiveCodes
    PROVE  Grants!Next
  BY DEF Grants!Next, Grants!Lose, ApprovedBy, TimesExchanged

\* What a handler holds after a step that makes it answer or go on elsewhere.
LEMMA OthersKeepTheirCode ==
    ASSUME IInv, NEW h \in Handler, NEW step \in {"idle", "challenge"},
           pc' = [pc EXCEPT ![h] = step], job' = [job EXCEPT ![h] = NoJob]
    PROVE  \A g \in Handler : pc'[g] = "exchange" =>
              g # h /\ pc[g] = "exchange" /\ job'[g] = job[g]
  BY DEF IInv, TypeOK

\* A new nonce is printed, or the page shows the one that is active.
LEMMA EnsureChallengePrints ==
    ASSUME IInv, NEW h \in Handler, EnsureChallenge(h)
    PROVE  Grants!Next
<1>1. UNCHANGED <<now, codes, tokens, approvals, pairs>> /\ Respond(h, "page")
  BY DEF EnsureChallenge
<1>2. LiveCodes' \subseteq LiveCodes
  BY <1>1, OthersKeepTheirCode DEF Respond, LiveCodes, Pending
<1>3. CASE printedAt' = printedAt
  BY <1>1, <1>2, <1>3, LosingStep
<1>4. ASSUME NEW n \in NonceId, printedAt[n] = Never,
             printedAt' = [printedAt EXCEPT ![n] = now]
      PROVE  Grants!Next
  <2>1. LiveCodes' = LiveCodes
    <3>1. pc[h] = "challenge"
      BY DEF EnsureChallenge
    <3>2. \A g \in Handler : /\ pc'[g] = "exchange" <=> pc[g] = "exchange"
                             /\ pc[g] = "exchange" => job'[g] = job[g]
      BY <1>1, <3>1 DEF Respond, IInv, TypeOK
    <3>3. {job[g].code : g \in {g \in Handler : pc[g] = "exchange"}}
            = {job'[g].code : g \in {g \in Handler : pc'[g] = "exchange"}}
      <4>1. {g \in Handler : pc[g] = "exchange"} = {g \in Handler : pc'[g] = "exchange"}
        BY <3>2
      <4>2. \A g \in {g \in Handler : pc[g] = "exchange"} : job'[g].code = job[g].code
        BY <3>2
      <4> QED BY <4>1, <4>2, Zenon
    <3> QED BY <1>1, <3>3 DEF LiveCodes, Pending
  <2>2. Grants!Announce(n)
    BY <1>1, <1>4, <2>1 DEF Grants!Announce, ApprovedBy, TimesExchanged
  <2> QED BY <2>2 DEF Grants!Next
<1> QED BY <1>3, <1>4 DEF EnsureChallenge

\* A code is a grant made by the nonce that was entered.
LEMMA IssueCodeApproves ==
    ASSUME IInv, NEW h \in Handler, NEW got \in NonceId \cup {NoNonce},
           NEW redirect \in Redirect, NEW challenge \in Verifier \cup {NoChallenge},
           IssueCode(h, got, redirect, challenge)
    PROVE  Grants!Next
<1>1. UNCHANGED <<now, tokens, printedAt, pairs>>
  BY DEF IssueCode
<1>2. PICK step \in {"idle", "challenge"} :
        pc' = [pc EXCEPT ![h] = step] /\ job' = [job EXCEPT ![h] = NoJob]
  BY DEF IssueCode, Respond, Continue
<1>3. \A g \in Handler : pc'[g] = "exchange" => pc[g] = "exchange" /\ job'[g] = job[g]
  BY <1>2, OthersKeepTheirCode
<1>4. CASE approvals' = approvals /\ codes' \in {codes, Swept}
  <2>1. LiveCodes' \subseteq LiveCodes
    BY <1>3, <1>4, SweptKeepsMap DEF LiveCodes, Pending
  <2> QED BY <1>1, <1>4, <2>1, LosingStep
<1>5. ASSUME CheckNonce(got), NEW k \in CodeId, InsertCode(k, redirect, challenge)
      PROVE  Grants!Next
  <2>1. CheckNonce(nonce)
    BY <1>5 DEF CheckNonce
  <2>2. /\ DOMAIN codes' = DOMAIN Swept \cup {k}
        /\ \A i \in DOMAIN Swept : i # k /\ codes'[i] = codes[i] /\ i \in Pending
        /\ codes'[k] = [redirect |-> redirect, expiry |-> now + CodeTTL,
                        challenge |-> challenge]
        /\ k \notin DOMAIN approvals
        /\ DOMAIN approvals' = DOMAIN approvals \cup {k}
        /\ \A i \in DOMAIN approvals : approvals'[i] = approvals[i]
        /\ approvals'[k] = [nonce |-> nonce, redirect |-> redirect,
                            challenge |-> challenge]
    BY <1>5, <2>1, InsertCodeMap, ZenonT(30)
  <2>3. k \in LiveCodes' /\ LiveCodes' \subseteq LiveCodes \cup {k}
    BY <1>3, <2>2 DEF LiveCodes, Pending
  <2>4. /\ nonce \in NonceId /\ nonce # NoNonce
        /\ printedAt[nonce] # Never /\ now <= printedAt[nonce] + NonceTTL
    BY <2>1, TTLAssumption DEF CheckNonce, NonceIsActive, IInv, TypeOK, NonceInv, Time
  <2>5. \A other \in CodeId : ApprovedBy[other] # nonce
    BY <2>4 DEF ApprovedBy, IInv, NonceInv
  <2>6. ApprovedBy[k] = NoNonce /\ ApprovedBy' = [ApprovedBy EXCEPT ![k] = nonce]
    <3>1. approvals'[k].nonce = nonce
      BY <2>2
    <3>2. \A i \in CodeId : ApprovedBy'[i] = IF i = k THEN nonce ELSE ApprovedBy[i]
      BY <2>2, <3>1 DEF ApprovedBy
    <3>3. ApprovedBy' = [i \in CodeId |-> ApprovedBy'[i]]
      BY DEF ApprovedBy
    <3>4. ApprovedBy = [i \in CodeId |-> ApprovedBy[i]]
      BY DEF ApprovedBy
    <3> HIDE DEF ApprovedBy
    <3>5. ApprovedBy' = [ApprovedBy EXCEPT ![k] = nonce]
      BY <3>2, <3>3, <3>4
    <3> QED BY <2>2, <3>5 DEF ApprovedBy
  <2>7. Grants!Approve(nonce, k)
    BY <1>1, <2>3, <2>4, <2>5, <2>6 DEF Grants!Approve, TimesExchanged
  <2> QED BY <2>4, <2>7 DEF Grants!Next
<1> QED BY <1>4, <1>5 DEF IssueCode

\* Taking a code out of the map keeps the grant live, with the handler.
LEMMA TakeCodeLosesNothing ==
    ASSUME IInv, NEW h \in Handler, NEW k \in CodeId, NEW redirect \in Redirect,
           NEW verifier \in Verifier, TakeCode(h, k, redirect, verifier)
    PROVE  Grants!Next
<1>1. UNCHANGED <<now, tokens, printedAt, approvals, pairs>>
  BY DEF TakeCode, observed
<1>2. CASE k \in Pending
  <2>1. /\ Pending' \subseteq Pending
        /\ job'[h].code = k
        /\ \A g \in Handler \ {h} : pc'[g] = pc[g] /\ job'[g] = job[g]
    BY <1>2 DEF TakeCode, Continue, Pending, IInv, TypeOK
  <2>2. LiveCodes' \subseteq LiveCodes
    BY <1>2, <2>1 DEF LiveCodes
  <2> QED BY <1>1, <2>2, LosingStep
<1>3. CASE k \notin Pending
  <2>1. codes' = codes /\ Respond(h, "invalid_grant")
    BY <1>3 DEF TakeCode
  <2>2. LiveCodes' \subseteq LiveCodes
    BY <2>1, OthersKeepTheirCode DEF Respond, LiveCodes, Pending
  <2> QED BY <1>1, <2>2, LosingStep
<1> QED BY <1>2, <1>3

\* An exchange that succeeds spends the grant, one that fails loses it.
LEMMA ExchangeCodeSpends ==
    ASSUME IInv, NEW h \in Handler, ExchangeCode(h)
    PROVE  Grants!Next
<1> DEFINE k == job[h].code
<1>1. UNCHANGED <<now, codes, printedAt, approvals>> /\ pc[h] = "exchange"
  BY DEF ExchangeCode, serverVars
<1>2. pc' = [pc EXCEPT ![h] = "idle"] /\ job' = [job EXCEPT ![h] = NoJob]
  BY DEF ExchangeCode, Respond
<1>3. LiveCodes' = LiveCodes \ {k}
  <2>1. /\ pc'[h] = "idle"
        /\ \A g \in Handler \ {h} : pc'[g] = pc[g] /\ job'[g] = job[g]
    BY <1>2 DEF IInv, TypeOK
  <2>2. k \notin Pending /\ \A g \in Handler \ {h} : pc[g] = "exchange" => job[g].code # k
    BY <1>1 DEF IInv, JobInv, OwnerInv
  <2> QED BY <1>1, <2>1, <2>2 DEF LiveCodes, Pending
<1>4. CASE UNCHANGED <<tokens, pairs>>
  BY <1>1, <1>3, <1>4, LosingStep
<1>5. ASSUME Acceptable(job[h]), IssueTokenPair, NEW pair,
             pairs' = [pairs EXCEPT ![k] = Append(@, pair)]
      PROVE  Grants!Next
  <2>1. k \in CodeId /\ k \in LiveCodes /\ pairs \in [CodeId -> Seq(Pair)]
    BY <1>1 DEF LiveCodes, IInv, TypeOK, Exchange
  <2>2. TimesExchanged' = [TimesExchanged EXCEPT ![k] = @ + 1]
    <3>1. Len(pairs'[k]) = Len(pairs[k]) + 1
      BY <1>5, <2>1
    <3>2. \A i \in CodeId \ {k} : pairs'[i] = pairs[i]
      BY <1>5, <2>1
    <3> QED BY <2>1, <3>1, <3>2 DEF TimesExchanged
  <2>3. now <= printedAt[ApprovedBy[k]] + NonceTTL + CodeTTL
    <3>1. /\ k \in DOMAIN approvals
          /\ job[h].taken.expiry <= printedAt[approvals[k].nonce] + NonceTTL + CodeTTL
      BY <1>1 DEF IInv, JobInv, Unspent
    <3>2. approvals[k] \in Approval /\ job[h] \in Exchange
      BY <1>1, <3>1 DEF IInv, TypeOK
    <3>3. /\ printedAt[approvals[k].nonce] \in Int /\ now \in Int
          /\ job[h].taken.expiry \in Int /\ NonceTTL \in Int /\ CodeTTL \in Int
      BY <3>2, TTLAssumption DEF IInv, TypeOK, Time, Never, Approval, Exchange, AuthCode
    <3>4. now <= job[h].taken.expiry
      BY <1>5 DEF Acceptable
    <3> QED BY <2>1, <3>1, <3>3, <3>4 DEF ApprovedBy
  <2>4. tokens' # {}
    BY <1>5 DEF IssueTokenPair
  <2>5. ApprovedBy' = ApprovedBy
    BY <1>1 DEF ApprovedBy
  <2>6. Grants!Spend(k)
    BY <1>1, <1>3, <2>1, <2>2, <2>3, <2>4, <2>5 DEF Grants!Spend
  <2> QED BY <2>1, <2>6 DEF Grants!Next
<1> QED BY <1>4, <1>5 DEF ExchangeCode

\* Every step of the server is a step of Grants or none.
LEMMA NextImplementsGrants == IInv /\ [Next]_vars => [Grants!Next]_(Grants!grantVars)
<1> SUFFICES ASSUME IInv, [Next]_vars
             PROVE  Grants!Next \/ UNCHANGED Grants!grantVars
  OBVIOUS
<1>1. ASSUME NEW h \in Handler, TurnAway(h) \/ ShowApprovePage(h) \/ (\E t : RefreshGrant(h, t))
      PROVE  Grants!Next
  <2>1. /\ UNCHANGED <<now, codes, printedAt, approvals, pairs>>
        /\ tokens' = {} <=> tokens = {}
    BY <1>1 DEF TurnAway, ShowApprovePage, RefreshGrant, IssueTokenPair, serverVars, observed
  <2>2. PICK step \in {"idle", "challenge"} :
          pc' = [pc EXCEPT ![h] = step] /\ job' = [job EXCEPT ![h] = NoJob]
    BY <1>1 DEF TurnAway, ShowApprovePage, RefreshGrant, Respond, Continue
  <2>3. LiveCodes' \subseteq LiveCodes
    BY <2>1, <2>2, OthersKeepTheirCode DEF LiveCodes, Pending
  <2> QED BY <2>1, <2>3, LosingStep
<1>2. CASE Restart
  <2>1. LiveCodes' = {}
    BY <1>2 DEF Restart, LiveCodes, Pending, IInv, TypeOK
  <2> QED BY <1>2, <2>1, LosingStep DEF Restart, observed
<1>3. CASE Tick
  <2>1. UNCHANGED <<LiveCodes, ApprovedBy, TimesExchanged>>
    BY <1>3 DEF Tick, serverVars, observed, LiveCodes, ApprovedBy, TimesExchanged, Pending
  <2>2. Grants!Tick
    BY <1>3, <2>1 DEF Tick, observed, Grants!Tick
  <2> QED BY <2>2 DEF Grants!Next
<1>4. CASE UNCHANGED vars
  <2>1. UNCHANGED <<LiveCodes, ApprovedBy, TimesExchanged>>
    BY <1>4 DEF vars, LiveCodes, ApprovedBy, TimesExchanged, Pending
  <2> QED BY <1>4, <2>1 DEF vars, Grants!grantVars
<1>5. CASE Next
  BY <1>1, <1>2, <1>3, <1>5, EnsureChallengePrints, IssueCodeApproves, TakeCodeLosesNothing,
     ExchangeCodeSpends DEF Next, Authorize, TokenRequest
<1> QED BY <1>4, <1>5

\* The authorization server implements grants that are spent once and in time,
\* for any number of handlers, codes and restarts.
THEOREM GrantsAreImplemented == Spec => ImplementsGrants
<1>1. Init => Grants!Init
  <2> SUFFICES ASSUME Init PROVE Grants!Init
    OBVIOUS
  <2>1. LiveCodes = {} /\ tokens = {} /\ now = 0
    BY DEF Init, LiveCodes, Pending
  <2>2. ApprovedBy = [k \in CodeId |-> NoNonce]
    BY DEF Init, ApprovedBy
  <2>3. TimesExchanged = [k \in CodeId |-> 0]
    BY DEF Init, TimesExchanged
  <2> QED BY <2>1, <2>2, <2>3 DEF Init, Grants!Init
<1>2. IInv /\ [Next]_vars => [Grants!Next]_(Grants!grantVars)
  BY NextImplementsGrants
<1> QED BY <1>1, <1>2, Inductive, PTL DEF Spec, ImplementsGrants, Grants!Spec

=============================================================================
