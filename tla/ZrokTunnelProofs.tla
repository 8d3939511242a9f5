------------------------- MODULE ZrokTunnelProofs -------------------------
(***************************************************************************)
(* What serveZrok gives back, for any number of overlapping processes, any *)
(* limits and any failures of the controller.                              *)
(***************************************************************************)
EXTENDS ZrokTunnel, TLAPS

\* A process that has no environment yet has nothing to release, and nobody
\* but its main goroutine.
OwnInv ==
    \A i \in Instance :
        pc[i] \in {"overview", "reap", "unshare_stale", "disable_stale", "enable"} =>
            mine[i] = None /\ once[i] = "free" /\ sig[i] = "none"

\* What the release has done; environments are numbered as they are enabled.
ReleaseInv ==
    \A i \in Instance :
        once[i] = "done" /\ mine[i] # None => mine[i] \notin enabled \/ mine[i] \in disableFailed
NumberInv ==
    /\ issued \in Nat
    /\ \A e \in enabled : e \in 1 .. issued
    /\ \A i \in Instance : mine[i] \in 0 .. issued

TypeInv ==
    /\ pc \in [Instance -> MainStep]
    /\ sig \in [Instance -> {"none", "waiting", "closing", "release"}]
    /\ mine \in [Instance -> Int]
    /\ once \in [Instance -> {"free", "unshared", "done"}]

IInv == TypeInv /\ OwnInv /\ ReleaseInv /\ NumberInv /\ LeftBehindOnlyByAccident

LEMMA InitIInv == Init => IInv
  BY DEF Init, IInv, TypeInv, OwnInv, ReleaseInv, NumberInv, LeftBehindOnlyByAccident,
     None, MainStep, Starting

\* Steps that enable nothing and lose no owner.
LEMMA QuietStepKeepsIInv ==
    ASSUME IInv, enabled' \subseteq enabled, issued' \in Nat, issued <= issued',
           UNCHANGED mine, disableFailed \subseteq disableFailed',
           unanswered \subseteq unanswered', killed \subseteq killed', TypeInv', OwnInv',
           \A i \in Instance : once'[i] = "done" => once[i] = "done",
           \A i \in Instance : Up(i) => Up(i)' \/ mine[i] \notin enabled'
                                   \/ mine[i] \in disableFailed' \cup killed'
    PROVE  IInv'
<1>1. ReleaseInv'
  BY DEF IInv, ReleaseInv
<1>2. NumberInv'
  BY DEF IInv, NumberInv
<1>3. LeftBehindOnlyByAccident'
  BY DEF IInv, LeftBehindOnlyByAccident, Up
<1> QED BY <1>1, <1>2, <1>3 DEF IInv

\* Steps of one process that keep what it owns, and stay up.
LEMMA OwnStepKeepsIInv ==
    ASSUME IInv, NEW i \in Instance, NEW step \in MainStep \ {"down"},
           pc' = [pc EXCEPT ![i] = step], UNCHANGED <<sig, mine, once>>,
           enabled' \subseteq enabled, issued' = issued,
           disableFailed \subseteq disableFailed', unanswered \subseteq unanswered',
           killed \subseteq killed',
           step \in {"overview", "reap", "unshare_stale", "disable_stale", "enable"} =>
               pc[i] \in {"overview", "reap", "unshare_stale", "disable_stale", "enable"}
    PROVE  IInv'
<1>1. TypeInv' /\ OwnInv'
  BY DEF IInv, TypeInv, OwnInv
<1>2. \A j \in Instance : Up(j) => Up(j)'
  BY DEF IInv, TypeInv, Up
<1> QED BY <1>1, <1>2, QuietStepKeepsIInv DEF IInv, NumberInv

\* Steps of one process that end it with nothing left to give back.
LEMMA ExitKeepsIInv ==
    ASSUME IInv, NEW i \in Instance, Exit(i), UNCHANGED <<mine, once>>,
           enabled' \subseteq enabled, issued' = issued,
           disableFailed \subseteq disableFailed', unanswered \subseteq unanswered',
           killed \subseteq killed', mine[i] \notin enabled' \/ mine[i] \in disableFailed'
    PROVE  IInv'
<1>1. TypeInv' /\ OwnInv'
  BY DEF IInv, TypeInv, OwnInv, Exit, Goto, MainStep
<1>2. \A j \in Instance : j # i /\ Up(j) => Up(j)'
  BY DEF IInv, TypeInv, Up, Exit, Goto
<1> QED BY <1>1, <1>2, QuietStepKeepsIInv DEF IInv, NumberInv

LEMMA RetryKeepsIInv ==
    ASSUME IInv, NEW i, NEW attempts, TryAgain(i, attempts),
           enabled' \subseteq enabled, issued' = issued, unanswered' = unanswered
    PROVE  IInv'
  BY QuietStepKeepsIInv DEF TryAgain, IInv, TypeInv, OwnInv, NumberInv, Up

\* What the reaper and the start do before and after the enabling.
LEMMA StartingKeepsIInv ==
    ASSUME IInv, NEW i \in Instance,
           \/ Overview(i) \/ Reap(i) \/ UnshareStale(i) \/ DisableStale(i)
           \/ ReserveName(i) \/ CreateShare(i) \/ Listen(i)
    PROVE  IInv'
<1> /\ UNCHANGED <<sig, mine, once, killed>> /\ issued' = issued
    /\ enabled' \subseteq enabled
    /\ disableFailed \subseteq disableFailed' /\ unanswered' = unanswered
  BY DEF Overview, Reap, UnshareStale, DisableStale, ReserveName, CreateShare, Listen,
     SharingFails, TryAgain, Goto, Unshare, Disable, Share, account, observed
<1>1. CASE \E attempts : TryAgain(i, attempts)
  BY <1>1, RetryKeepsIInv
<1>2. CASE ~\E attempts : TryAgain(i, attempts)
  <2>2. \E step \in MainStep \ {"down"} :
          /\ pc' = [pc EXCEPT ![i] = step]
          /\ step \in {"overview", "reap", "unshare_stale", "disable_stale", "enable"} =>
               pc[i] \in {"overview", "reap", "unshare_stale", "disable_stale", "enable"}
    BY <1>2 DEF Overview, Reap, UnshareStale, DisableStale, ReserveName, CreateShare, Listen,
       Goto, MainStep, Starting
  <2> QED BY <2>2, OwnStepKeepsIInv
<1> QED BY <1>1, <1>2

\* The two halves of the release, and the signal goroutine.
LEMMA ReleaseKeepsIInv ==
    ASSUME IInv, NEW i \in Instance,
           ReleaseShare(i) \/ ReleaseEnvironment(i) \/ CloseListener(i) \/ Signal(i)
    PROVE  IInv'
<1>1. /\ UNCHANGED <<pc, mine, unanswered, killed>> /\ issued' = issued
      /\ enabled' \subseteq enabled /\ disableFailed \subseteq disableFailed'
  BY DEF ReleaseShare, ReleaseEnvironment, CloseListener, Signal, Unshare, Disable, account, observed
<1>2. TypeInv'
  BY DEF ReleaseShare, ReleaseEnvironment, CloseListener, Signal, IInv, TypeInv
<1>3. OwnInv'
  BY <1>1 DEF ReleaseShare, ReleaseEnvironment, CloseListener, Signal, Releasing, IInv, TypeInv, OwnInv
<1>4. ReleaseInv'
  <2>1. CASE ReleaseEnvironment(i)
    BY <1>1, <2>1 DEF ReleaseEnvironment, Disable, IInv, TypeInv, ReleaseInv
  <2>2. CASE ReleaseShare(i) \/ CloseListener(i) \/ Signal(i)
    BY <1>1, <2>2 DEF ReleaseShare, CloseListener, Signal, IInv, TypeInv, ReleaseInv
  <2> QED BY <2>1, <2>2
<1>5. NumberInv'
  BY <1>1 DEF IInv, NumberInv
<1>6. LeftBehindOnlyByAccident'
  BY <1>1 DEF IInv, LeftBehindOnlyByAccident, Up
<1> QED BY <1>2, <1>3, <1>4, <1>5, <1>6 DEF IInv

\* The environment a start gets is new and its own.
LEMMA EnableEnvironmentKeepsIInv ==
    ASSUME IInv, NEW i \in Instance, EnableEnvironment(i)
    PROVE  IInv'
<1>1. CASE TryAgain(i, EnableAttempts) /\ UNCHANGED <<account, unanswered>>
  BY <1>1, RetryKeepsIInv DEF account
<1>2. /\ pc[i] = "enable" /\ mine[i] = None /\ once[i] = "free" /\ sig[i] = "none"
      /\ issued \in Nat /\ issued + 1 \notin enabled
      /\ \A j \in Instance : mine[j] # issued + 1
  BY DEF EnableEnvironment, IInv, OwnInv, NumberInv
<1>3. ASSUME Enable, mine' = [mine EXCEPT ![i] = issued + 1],
             NEW step \in {"reserve", "share"}, pc' = [pc EXCEPT ![i] = step],
             UNCHANGED <<sig, once, observed>>
      PROVE  IInv'
  <2>1. TypeInv'
    BY <1>2, <1>3 DEF IInv, TypeInv, MainStep, Starting
  <2>2. OwnInv'
    BY <1>2, <1>3 DEF IInv, TypeInv, OwnInv
  <2>3. NumberInv'
    BY <1>2, <1>3 DEF Enable, IInv, TypeInv, NumberInv
  <2>4. ReleaseInv'
    BY <1>2, <1>3 DEF Enable, IInv, TypeInv, ReleaseInv, observed
  <2>5. LeftBehindOnlyByAccident'
    <3>1. ASSUME NEW e \in enabled
          PROVE  \/ \E j \in Instance : Up(j)' /\ mine'[j] = e
                 \/ e \in (disableFailed \cup unanswered \cup killed)'
      BY <1>2, <1>3, <3>1 DEF IInv, TypeInv, LeftBehindOnlyByAccident, Up, observed, None, NumberInv
    <3>2. Up(i)' /\ mine'[i] = issued + 1
      BY <1>3 DEF IInv, TypeInv, Up
    <3> QED BY <1>3, <3>1, <3>2 DEF Enable, LeftBehindOnlyByAccident, Up
  <2> QED BY <2>1, <2>2, <2>3, <2>4, <2>5 DEF IInv
<1>4. CASE Exit(i) /\ UNCHANGED <<account, unanswered, mine, once, disableFailed, killed>>
  <2>1. mine[i] \notin enabled
    BY <1>2 DEF IInv, NumberInv, None
  <2> QED BY <1>4, <2>1, ExitKeepsIInv DEF account
<1>5. ASSUME Exit(i) \/ UNCHANGED <<pc, sig>>, Enable,
             unanswered' = unanswered \cup {issued + 1},
             UNCHANGED <<mine, once, disableFailed, killed>>
      PROVE  IInv'
  <2>1. TypeInv' /\ OwnInv'
    BY <1>5 DEF Exit, Goto, IInv, TypeInv, OwnInv, MainStep
  <2>2. NumberInv'
    BY <1>2, <1>5 DEF Enable, IInv, TypeInv, NumberInv
  <2>3. ReleaseInv'
    BY <1>2, <1>5 DEF Enable, IInv, ReleaseInv
  <2>4. ASSUME NEW e \in enabled
        PROVE  \/ \E j \in Instance : Up(j)' /\ mine'[j] = e
               \/ e \in (disableFailed \cup unanswered \cup killed)'
    BY <1>2, <1>5, <2>4
       DEF Exit, Goto, IInv, TypeInv, LeftBehindOnlyByAccident, Up, None, NumberInv
  <2>5. LeftBehindOnlyByAccident'
    BY <1>5, <2>4 DEF Enable, LeftBehindOnlyByAccident, Up
  <2> QED BY <2>1, <2>2, <2>3, <2>5 DEF IInv
<1>6. CASE EnablingFails /\ TryAgain(i, EnableAttempts)
  BY <1>1, <1>5, <1>6 DEF EnablingFails, TryAgain
<1>7. CASE EnablingFails /\ Exit(i) /\ UNCHANGED <<mine, once, disableFailed, killed>>
  BY <1>4, <1>5, <1>7 DEF EnablingFails
<1> QED BY <1>3, <1>6, <1>7 DEF EnableEnvironment, Goto, observed

\* Starting, serving and ending a process.
LEMMA ProcessKeepsIInv ==
    ASSUME IInv, NEW i \in Instance,
           \/ Start(i) \/ Notify(i) \/ ServeReturns(i) \/ GiveUp(i) \/ Released(i)
           \/ \E how : Die(i, how)
    PROVE  IInv'
<1>1. CASE Start(i)
  <2> DEFINE step == IF UniqueName THEN "overview" ELSE "enable"
  <2>1. /\ pc' = [pc EXCEPT ![i] = step] /\ sig' = [sig EXCEPT ![i] = "none"]
        /\ mine' = [mine EXCEPT ![i] = None] /\ once' = [once EXCEPT ![i] = "free"]
    BY <1>1 DEF Start, Goto
  <2>2. step \in MainStep
    BY SwitchAssumption DEF MainStep, Starting
  <2> HIDE DEF step
  <2>3. TypeInv' /\ OwnInv'
    BY <2>1, <2>2 DEF IInv, TypeInv, OwnInv, None
  <2>4. ReleaseInv' /\ NumberInv'
    BY <1>1 DEF Start, IInv, TypeInv, ReleaseInv, NumberInv, account, observed, None
  <2>5. LeftBehindOnlyByAccident'
    BY <1>1 DEF Start, Goto, Up, IInv, TypeInv, LeftBehindOnlyByAccident, account, observed
  <2> QED BY <2>3, <2>4, <2>5 DEF IInv
<1>2. CASE Notify(i) \/ ServeReturns(i)
  <2>1. TypeInv' /\ OwnInv'
    BY <1>2 DEF Notify, ServeReturns, Goto, IInv, TypeInv, OwnInv, MainStep, Starting
  <2>2. \A j \in Instance : Up(j) => Up(j)'
    BY <1>2 DEF Notify, ServeReturns, Goto, Up, IInv, TypeInv
  <2> QED BY <1>2, <2>1, <2>2, QuietStepKeepsIInv
          DEF Notify, ServeReturns, IInv, NumberInv, account, observed
<1>3. CASE GiveUp(i)
  BY <1>3, ExitKeepsIInv DEF GiveUp, Disable, account
<1>4. CASE Released(i)
  <2>1. mine[i] \notin enabled \/ mine[i] \in disableFailed
    BY <1>4 DEF Released, IInv, ReleaseInv, NumberInv, None
  <2> QED BY <1>4, <2>1, ExitKeepsIInv DEF Released, account, observed
<1>5. ASSUME NEW how, Die(i, how) PROVE IInv'
  <2>1. TypeInv' /\ OwnInv'
    BY <1>5 DEF Die, Goto, IInv, TypeInv, OwnInv, MainStep
  <2>2. \A j \in Instance : j # i /\ Up(j) => Up(j)'
    BY <1>5 DEF Die, Goto, Up, IInv, TypeInv
  <2>3. mine[i] \in killed' \/ mine[i] \notin enabled
    BY <1>5 DEF Die, IInv, NumberInv, None
  <2>4. /\ UNCHANGED <<mine, once, disableFailed, unanswered>> /\ enabled' = enabled
        /\ issued' = issued /\ killed \subseteq killed'
    BY <1>5 DEF Die, account
  <2> QED BY <2>1, <2>2, <2>3, <2>4, QuietStepKeepsIInv DEF IInv, NumberInv
<1> QED BY <1>1, <1>2, <1>3, <1>4, <1>5

LEMMA NextKeepsIInv == IInv /\ [Next]_vars => IInv'
<1>1. ASSUME IInv, UNCHANGED vars PROVE IInv'
  BY <1>1 DEF vars, account, observed, IInv, TypeInv, OwnInv, ReleaseInv, NumberInv,
     LeftBehindOnlyByAccident, Up
<1> QED BY <1>1, StartingKeepsIInv, ReleaseKeepsIInv, EnableEnvironmentKeepsIInv, ProcessKeepsIInv
        DEF Next, Work, EarlySignal, Kill

\* serveZrok forgets no environment: one outlives its process only if that was
\* killed, or the controller failed to answer or to disable it.
THEOREM NothingIsForgotten == Spec => []LeftBehindOnlyByAccident
<1>1. IInv => LeftBehindOnlyByAccident
  BY DEF IInv
<1> QED BY <1>1, InitIInv, NextKeepsIInv, PTL DEF Spec

---------------------------------------------------------------------------
(* The type invariant *)

LEMMA TypeInit == Init => TypeOK
  BY BoundAssumption DEF Init, TypeOK, Env, None, MainStep

\* The account alone: calls keep its shape.
AccountOK ==
    /\ enabled \subseteq Env /\ shared \subseteq enabled
    /\ holder \in Env \cup {None} /\ (holder \in enabled => holder \in shared)
    /\ reserved \in BOOLEAN /\ issued \in 0 .. MaxEnv
    /\ \A e \in enabled : e <= issued
    /\ holder <= issued

LEMMA AccountKept ==
    ASSUME AccountOK,
           \/ UNCHANGED account
           \/ Enable
           \/ \E e \in Env : Share(e) \/ Unshare(e) \/ Disable(e)
           \/ reserved' \in BOOLEAN /\ UNCHANGED <<enabled, shared, holder, issued>>
    PROVE  AccountOK'
<1>1. CASE Enable
  BY <1>1, BoundAssumption DEF AccountOK, Enable, CanEnable, Env, None
<1>2. ASSUME NEW e \in Env, Share(e) PROVE AccountOK'
  BY <1>2, BoundAssumption DEF AccountOK, Share, CanShare, Env, None
<1>3. ASSUME NEW e \in Env, Unshare(e) PROVE AccountOK'
  BY <1>3, BoundAssumption DEF AccountOK, Unshare, CanUnshare, Env, None
<1>4. ASSUME NEW e \in Env, Disable(e) PROVE AccountOK'
  BY <1>4, BoundAssumption DEF AccountOK, Disable, CanDisable, Env, None
<1>5. CASE UNCHANGED account
  BY <1>5 DEF AccountOK, account
<1>6. CASE reserved' \in BOOLEAN /\ UNCHANGED <<enabled, shared, holder, issued>>
  BY <1>6 DEF AccountOK
<1> QED BY <1>1, <1>2, <1>3, <1>4, <1>5, <1>6

\* The processes and what was observed of them.
ProcessOK ==
    /\ pc \in [Instance -> MainStep]
    /\ sig \in [Instance -> {"none", "waiting", "closing", "release"}]
    /\ attempt \in [Instance -> Nat \ {0}]
    /\ stale \in [Instance -> SUBSET Env] /\ seen \in [Instance -> SUBSET Env]
    /\ \A i \in Instance : pc[i] \in {"unshare_stale", "disable_stale"} => stale[i] # {}
    /\ mine \in [Instance -> Env \cup {None}]
    /\ \A i \in Instance :
          pc[i] \in {"reserve", "share", "listen", "notify", "serving", "give_up", "release"} =>
              mine[i] # None
    /\ once \in [Instance -> {"free", "unshared", "done"}]
    /\ gone \in [Instance -> {"running", "exit", "signal", "kill"}]
    /\ shareFailed \in SUBSET Env /\ disableFailed \in SUBSET Env
    /\ unanswered \in SUBSET Env /\ killed \in SUBSET Env

\* The signal goroutine and the release are there only with an environment.
SignalInv ==
    \A i \in Instance :
        /\ sig[i] # "none" => pc[i] \in {"serving", "release"}
        /\ Up(i) /\ once[i] # "free" => pc[i] \in {"serving", "release"}

TypeInd == AccountOK /\ ProcessOK /\ SignalInv

LEMMA TargetIsStale ==
    ASSUME ProcessOK, NEW i \in Instance, pc[i] \in {"unshare_stale", "disable_stale"}
    PROVE  Target(i) \in stale[i] /\ Target(i) \in Env
  BY DEF ProcessOK, Target

LEMMA ReapTypes ==
    ASSUME TypeInd, NEW i \in Instance,
           Overview(i) \/ Reap(i) \/ UnshareStale(i) \/ DisableStale(i)
    PROVE  TypeInd'
<1> USE DEF TypeInd, ProcessOK, Goto, MainStep, Starting
<1>1. ASSUME NEW attempts, TryAgain(i, attempts), UNCHANGED <<shareFailed, unanswered>>,
             UNCHANGED account \/ \E e \in Env : Unshare(e) \/ Disable(e)
      PROVE  TypeInd'
  BY <1>1, AccountKept DEF TryAgain, SignalInv, Up
<1>2. CASE Overview(i)
  <2>1. AccountOK'
    BY <1>2, AccountKept DEF Overview
  <2>2. enabled \subseteq Env /\ shared \subseteq Env
    BY DEF AccountOK
  <2>3. ProcessOK'
    BY <1>2, <2>2 DEF Overview
  <2>4. SignalInv'
    BY <1>2 DEF Overview, SignalInv, Up
  <2> QED BY <2>1, <2>3, <2>4
<1>3. CASE Reap(i)
  <2>1. AccountOK'
    BY <1>3, AccountKept DEF Reap
  <2>2. PICK step \in {"enable", "unshare_stale", "disable_stale"} :
            /\ pc' = [pc EXCEPT ![i] = step]
            /\ step # "enable" => stale[i] # {}
    BY <1>3 DEF Reap
  <2>3. ProcessOK'
    BY <1>3, <2>2 DEF Reap, observed
  <2>4. SignalInv'
    BY <1>3, <2>2 DEF Reap, SignalInv, Up
  <2> QED BY <2>1, <2>3, <2>4
<1>4. CASE UnshareStale(i) /\ ~TryAgain(i, ReapAttempts)
  <2>1. Target(i) \in Env /\ stale[i] # {}
    BY <1>4, TargetIsStale DEF UnshareStale
  <2>2. AccountOK'
    BY <1>4, <2>1, AccountKept DEF UnshareStale
  <2>3. shareFailed' \in SUBSET Env
    BY <1>4, <2>1 DEF UnshareStale
  <2>4. ProcessOK'
    BY <1>4, <2>1, <2>3 DEF UnshareStale
  <2>5. SignalInv'
    BY <1>4 DEF UnshareStale, SignalInv, Up
  <2> QED BY <2>2, <2>4, <2>5
<1>5. CASE DisableStale(i) /\ ~TryAgain(i, ReapAttempts)
  <2>1. Target(i) \in Env
    BY <1>5, TargetIsStale DEF DisableStale
  <2>2. AccountOK'
    BY <1>5, <2>1, AccountKept DEF DisableStale
  <2>3. disableFailed' \in SUBSET Env
    BY <1>5, <2>1 DEF DisableStale
  <2>4. ProcessOK'
    BY <1>5, <2>3 DEF DisableStale
  <2>5. SignalInv'
    BY <1>5 DEF DisableStale, SignalInv, Up
  <2> QED BY <2>2, <2>4, <2>5
<1>6. CASE TryAgain(i, ReapAttempts) /\ (UnshareStale(i) \/ DisableStale(i))
  <2>1. Target(i) \in Env
    BY <1>6, TargetIsStale DEF UnshareStale, DisableStale
  <2>2. /\ UNCHANGED <<shareFailed, unanswered>>
        /\ UNCHANGED account \/ Unshare(Target(i)) \/ Disable(Target(i))
    BY <1>6 DEF UnshareStale, DisableStale, TryAgain, observed
  <2> QED BY <1>1, <1>6, <2>1, <2>2
<1> QED BY <1>2, <1>3, <1>4, <1>5, <1>6

LEMMA StartTypes ==
    ASSUME TypeInd, NEW i \in Instance,
           \/ Start(i) \/ EnableEnvironment(i) \/ ReserveName(i) \/ CreateShare(i) \/ GiveUp(i)
           \/ Listen(i) \/ Notify(i) \/ ServeReturns(i)
    PROVE  TypeInd'
<1> USE DEF TypeInd, ProcessOK, Goto, MainStep, Starting
<1>1. ASSUME NEW attempts, TryAgain(i, attempts), AccountOK',
             shareFailed' \in SUBSET Env, unanswered' \in SUBSET Env
      PROVE  TypeInd'
  BY <1>1 DEF TryAgain, SignalInv, Up
<1>2. CASE Start(i)
  <2>1. AccountOK'
    BY <1>2, AccountKept DEF Start
  <2>2. PICK step \in {"overview", "enable"} : pc' = [pc EXCEPT ![i] = step]
    BY <1>2, SwitchAssumption DEF Start
  <2>3. ProcessOK'
    BY <1>2, <2>2 DEF Start, observed
  <2>4. SignalInv'
    BY <1>2, <2>2 DEF Start, SignalInv, Up
  <2> QED BY <2>1, <2>3, <2>4
<1>3. CASE EnableEnvironment(i) /\ ~TryAgain(i, EnableAttempts)
  <2>1. AccountOK'
    BY <1>3, AccountKept DEF EnableEnvironment, EnablingFails
  <2>2. Enable => issued + 1 \in Env /\ issued + 1 # None
    BY BoundAssumption DEF Enable, CanEnable, AccountOK, Env, None
  <2>3. PICK step \in {"reserve", "share", "down"} :
            /\ pc' = [pc EXCEPT ![i] = step]
            /\ step = "down" => mine' = mine
            /\ step # "down" => Enable /\ mine' = [mine EXCEPT ![i] = issued + 1]
    BY <1>3, SwitchAssumption DEF EnableEnvironment, Exit
  <2>4. mine' \in [Instance -> Env \cup {None}] /\ unanswered' \in SUBSET Env
    BY <1>3, <2>2 DEF EnableEnvironment, EnablingFails, observed
  <2>5. ProcessOK'
    <3>1. /\ sig' \in [Instance -> {"none", "waiting", "closing", "release"}]
          /\ gone' \in [Instance -> {"running", "exit", "signal", "kill"}]
          /\ attempt' = [attempt EXCEPT ![i] = 1]
          /\ UNCHANGED <<stale, seen, once, shareFailed, disableFailed, killed>>
      BY <1>3 DEF EnableEnvironment, Exit, observed
    <3>2. step \in {"reserve", "share"} => mine'[i] # None
      BY <2>2, <2>3
    <3>3. \A j \in Instance \ {i} : pc'[j] = pc[j] /\ mine'[j] = mine[j] /\ stale'[j] = stale[j]
      BY <2>3, <3>1
    <3> QED BY <2>3, <2>4, <3>1, <3>2, <3>3
  <2>6. SignalInv'
    BY <1>3, <2>3 DEF EnableEnvironment, Exit, SignalInv, Up
  <2> QED BY <2>1, <2>5, <2>6
<1>4. CASE ReserveName(i)
  <2>1. reserved' \in BOOLEAN
    BY <1>4 DEF ReserveName, AccountOK
  <2>2. AccountOK'
    BY <1>4, <2>1, AccountKept DEF ReserveName
  <2>3. PICK step \in {"share", "give_up"} : pc' = [pc EXCEPT ![i] = step]
    BY <1>4 DEF ReserveName
  <2>4. ProcessOK'
    <3>1. /\ pc[i] = "reserve" /\ attempt' = [attempt EXCEPT ![i] = 1]
          /\ UNCHANGED <<sig, stale, seen, mine, once, gone, observed>>
      BY <1>4 DEF ReserveName
    <3> QED BY <2>3, <3>1 DEF observed
  <2>5. SignalInv'
    BY <1>4, <2>3 DEF ReserveName, SignalInv, Up
  <2> QED BY <2>2, <2>4, <2>5
<1>5. CASE CreateShare(i) /\ ~TryAgain(i, ShareAttempts)
  <2>1. mine[i] \in Env
    BY <1>5 DEF CreateShare
  <2>2. AccountOK'
    BY <1>5, <2>1, AccountKept DEF CreateShare, SharingFails
  <2>3. shareFailed' \in SUBSET Env
    BY <1>5, <2>1 DEF CreateShare, SharingFails, observed
  <2>4. PICK step \in {"listen", "give_up"} : pc' = [pc EXCEPT ![i] = step]
    BY <1>5 DEF CreateShare
  <2>5. /\ pc[i] = "share" /\ attempt' = [attempt EXCEPT ![i] = 1]
        /\ UNCHANGED <<sig, stale, seen, mine, once, gone, disableFailed, unanswered, killed>>
    BY <1>5 DEF CreateShare, observed
  <2>6. ProcessOK' /\ SignalInv'
    BY <2>3, <2>4, <2>5 DEF SignalInv, Up
  <2> QED BY <2>2, <2>6
<1>6. CASE GiveUp(i)
  <2>1. mine[i] \in Env
    BY <1>6 DEF GiveUp
  <2>2. AccountOK'
    BY <1>6, <2>1, AccountKept DEF GiveUp
  <2>3. disableFailed' \in SUBSET Env
    BY <1>6, <2>1 DEF GiveUp
  <2>4. ProcessOK' /\ SignalInv'
    BY <1>6, <2>3 DEF GiveUp, Exit, SignalInv, Up
  <2> QED BY <2>2, <2>4
<1>7. CASE Listen(i) \/ Notify(i) \/ ServeReturns(i)
  <2>1. AccountOK'
    BY <1>7, AccountKept DEF Listen, Notify, ServeReturns
  <2>2. ProcessOK' /\ SignalInv'
    BY <1>7 DEF Listen, Notify, ServeReturns, observed, SignalInv, Up
  <2> QED BY <2>1, <2>2
<1>8. CASE EnableEnvironment(i) /\ TryAgain(i, EnableAttempts)
  <2>1. \/ UNCHANGED <<account, unanswered, shareFailed>>
        \/ Enable /\ unanswered' = unanswered \cup {issued + 1} /\ UNCHANGED shareFailed
    BY <1>8 DEF EnableEnvironment, EnablingFails, TryAgain, Goto, Exit, observed
  <2>2. AccountOK'
    BY <2>1, AccountKept DEF account
  <2>3. shareFailed' \in SUBSET Env /\ unanswered' \in SUBSET Env
    <3>1. Enable => issued + 1 \in Env
      BY BoundAssumption DEF Enable, CanEnable, AccountOK, Env
    <3> QED BY <2>1, <3>1
  <2> QED BY <1>1, <1>8, <2>2, <2>3
<1>9. CASE CreateShare(i) /\ TryAgain(i, ShareAttempts)
  <2>1. mine[i] \in Env
    BY <1>9 DEF CreateShare
  <2>2. /\ UNCHANGED unanswered
        /\ \/ UNCHANGED <<account, shareFailed>>
           \/ Share(mine[i]) /\ shareFailed' \in {shareFailed, shareFailed \cup {mine[i]}}
    BY <1>9 DEF CreateShare, SharingFails, observed
  <2>3. AccountOK'
    BY <2>1, <2>2, AccountKept DEF account
  <2>4. shareFailed' \in SUBSET Env /\ unanswered' \in SUBSET Env
    BY <2>1, <2>2
  <2> QED BY <1>1, <1>9, <2>3, <2>4
<1> QED BY <1>2, <1>3, <1>4, <1>5, <1>6, <1>7, <1>8, <1>9

LEMMA EndTypes ==
    ASSUME TypeInd, NEW i \in Instance,
           \/ CloseListener(i) \/ ReleaseShare(i) \/ ReleaseEnvironment(i) \/ Released(i)
           \/ Signal(i) \/ EarlySignal(i) \/ Kill(i)
    PROVE  TypeInd'
<1> USE DEF TypeInd, ProcessOK, Goto, MainStep, Starting
<1>1. CASE CloseListener(i) \/ Released(i) \/ Signal(i)
  <2>1. AccountOK'
    BY <1>1, AccountKept DEF CloseListener, Released, Signal
  <2>2. ProcessOK' /\ SignalInv'
    BY <1>1 DEF CloseListener, Released, Signal, Exit, observed, SignalInv, Up
  <2> QED BY <2>1, <2>2
<1>2. CASE ReleaseShare(i) \/ ReleaseEnvironment(i)
  <2>1. pc[i] \in {"serving", "release"} /\ mine[i] \in Env
    BY <1>2 DEF ReleaseShare, ReleaseEnvironment, Releasing, SignalInv, Up
  <2>2. AccountOK'
    BY <1>2, <2>1, AccountKept DEF ReleaseShare, ReleaseEnvironment
  <2>3. shareFailed' \in SUBSET Env /\ disableFailed' \in SUBSET Env
    BY <1>2, <2>1 DEF ReleaseShare, ReleaseEnvironment
  <2>4. ProcessOK'
    BY <1>2, <2>3 DEF ReleaseShare, ReleaseEnvironment
  <2>5. SignalInv'
    BY <1>2, <2>1 DEF ReleaseShare, ReleaseEnvironment, SignalInv, Up
  <2> QED BY <2>2, <2>4, <2>5
<1>3. ASSUME NEW how \in {"signal", "kill"}, Die(i, how) PROVE TypeInd'
  <2>1. AccountOK'
    BY <1>3, AccountKept DEF Die
  <2>2. killed' \in SUBSET Env
    BY <1>3 DEF Die
  <2>3. ProcessOK'
    BY <1>3, <2>2 DEF Die
  <2>4. SignalInv'
    BY <1>3 DEF Die, SignalInv, Up
  <2> QED BY <2>1, <2>3, <2>4
<1> QED BY <1>1, <1>2, <1>3 DEF EarlySignal, Kill

LEMMA TypeNext == TypeInd /\ [Next]_vars => TypeInd'
<1>1. ASSUME TypeInd, UNCHANGED vars PROVE TypeInd'
  BY <1>1, AccountKept DEF vars, account, observed, TypeInd, ProcessOK, SignalInv, Up
<1> QED BY <1>1, ReapTypes, StartTypes, EndTypes DEF Next, Work

LEMMA TypeIndAlways == Spec => []TypeInd
<1>1. Init => TypeInd
  BY TypeInit, BoundAssumption DEF Init, TypeOK, TypeInd, AccountOK, ProcessOK, SignalInv, Up, Env, None
<1> QED BY <1>1, TypeNext, PTL DEF Spec

\* The account and the processes keep their shape: in particular a share has
\* its environment, and the name's holder shares or is gone.
THEOREM TypeCorrect == Spec => []TypeOK
<1>1. TypeInd => TypeOK
  BY DEF TypeInd, AccountOK, ProcessOK, TypeOK
<1> QED BY <1>1, TypeIndAlways, PTL

---------------------------------------------------------------------------
(* One process after another: the name and the next start *)

\* No restart overlaps the process it replaces.
OneAtATime == \A i, j \in Instance : i = j

\* The share of environment e is gone, or a call that concerned it failed.
Unshared(e) == e \notin shared \/ e \in shareFailed

\* What the order of the calls keeps true of a process that runs alone.  While
\* it reaps, all there is was in its overview, shares included, and what is
\* left was not reached yet or failed; no environment is disabled, by the
\* reaper, on the way out or in the release, before its share was dealt with.
ReapInv ==
    \A i \in Instance :
        /\ pc[i] \in {"reap", "unshare_stale", "disable_stale"} =>
             /\ shared \subseteq seen[i]
             /\ enabled \subseteq stale[i] \cup disableFailed
        /\ pc[i] = "disable_stale" => Unshared(Target(i))
        /\ pc[i] \in {"reserve", "share", "give_up"} => Unshared(mine[i])
        /\ once[i] = "unshared" => Unshared(mine[i])
        /\ UniqueName /\ pc[i] = "enable" /\ attempt[i] = 1 => enabled \subseteq disableFailed

AloneInv == TypeInd /\ OwnInv /\ ReapInv /\ NameStuckOnlyAfterFailure

\* The calls of the controller keep the name with an environment that is
\* there, if none is disabled before its share was dealt with.
LEMMA NameKept ==
    ASSUME AccountOK, NameStuckOnlyAfterFailure, shareFailed \subseteq shareFailed',
           \/ UNCHANGED <<enabled, holder>>
           \/ Enable
           \/ \E e \in Env : \/ Share(e) \/ Unshare(e)
                             \/ Disable(e) /\ Unshared(e)
    PROVE  NameStuckOnlyAfterFailure'
<1> USE DEF NameStuckOnlyAfterFailure
<1>1. CASE UNCHANGED <<enabled, holder>> \/ Enable
  BY <1>1 DEF Enable
<1>2. ASSUME NEW e \in Env, Share(e) PROVE NameStuckOnlyAfterFailure'
  BY <1>2 DEF Share, CanShare
<1>3. ASSUME NEW e \in Env, Unshare(e) PROVE NameStuckOnlyAfterFailure'
  BY <1>3 DEF Unshare
<1>4. ASSUME NEW e \in Env, Disable(e), Unshared(e) PROVE NameStuckOnlyAfterFailure'
  BY <1>4 DEF Disable, CanDisable, Unshared, AccountOK
<1> QED BY <1>1, <1>2, <1>3, <1>4

\* A call of the controller that neither shares nor enables anything leaves
\* what was dealt with dealt with.
LEMMA StaysUnshared ==
    ASSUME NEW e, Unshared(e), shared' \subseteq shared, shareFailed \subseteq shareFailed'
    PROVE  e \notin shared' \/ e \in shareFailed'
BY DEF Unshared

\* With one process, what holds of it is all there is to show.
LEMMA AloneReapInv ==
    ASSUME OneAtATime, NEW i \in Instance,
           /\ pc'[i] \in {"reap", "unshare_stale", "disable_stale"} =>
                /\ shared' \subseteq seen'[i]
                /\ enabled' \subseteq stale'[i] \cup disableFailed'
           /\ pc'[i] = "disable_stale" => Unshared(Target(i))'
           /\ pc'[i] \in {"reserve", "share", "give_up"} => Unshared(mine[i])'
           /\ once'[i] = "unshared" => Unshared(mine[i])'
           /\ UniqueName /\ pc'[i] = "enable" /\ attempt'[i] = 1 => enabled' \subseteq disableFailed'
    PROVE  ReapInv'
<1>1. \A j \in Instance : j = i
  BY DEF OneAtATime
<1> QED BY <1>1 DEF ReapInv

LEMMA ReapingKeepsAlone ==
    ASSUME OneAtATime, AloneInv, NEW i \in Instance, Overview(i) \/ Reap(i)
    PROVE  ReapInv' /\ NameStuckOnlyAfterFailure'
<1> USE DEF AloneInv, TypeInd
<1>1. NameStuckOnlyAfterFailure'
  BY NameKept DEF Overview, Reap, account, observed
<1>2. CASE Overview(i)
  <2>1. /\ pc'[i] \in {"reap", "enable"} /\ once'[i] = "free"
        /\ UNCHANGED <<enabled, shared>>
    BY <1>2 DEF Overview, Goto, ProcessOK, OwnInv, account
  <2>2. pc'[i] = "reap" => stale'[i] = enabled /\ seen'[i] = shared
    BY <1>2 DEF Overview, Goto, ProcessOK
  <2>3. pc'[i] = "enable" => enabled \subseteq disableFailed'
    BY <1>2 DEF Overview, Goto, ProcessOK
  <2> QED BY <1>1, <2>1, <2>2, <2>3, AloneReapInv
<1>3. CASE Reap(i)
  <2>1. /\ pc'[i] \in {"enable", "unshare_stale", "disable_stale"} /\ once'[i] = "free"
        /\ UNCHANGED <<account, stale, seen, mine, observed>>
        /\ pc'[i] = "enable" => stale[i] = {}
        /\ pc'[i] = "disable_stale" => Target(i) \notin seen[i]
    BY <1>3 DEF Reap, Goto, ProcessOK, OwnInv
  <2>2. shared \subseteq seen[i] /\ enabled \subseteq stale[i] \cup disableFailed
    BY <1>3 DEF Reap, ReapInv
  <2>3. Target(i)' = Target(i)
    BY <2>1 DEF Target
  <2>4. pc'[i] = "disable_stale" => Unshared(Target(i))'
    BY <2>1, <2>2, <2>3 DEF Unshared, account
  <2> QED BY <1>1, <2>1, <2>2, <2>4, AloneReapInv DEF account, observed
<1> QED BY <1>1, <1>2, <1>3

LEMMA UnshareStaleKeepsAlone ==
    ASSUME OneAtATime, AloneInv, NEW i \in Instance, UnshareStale(i)
    PROVE  ReapInv' /\ NameStuckOnlyAfterFailure'
<1> USE DEF AloneInv, TypeInd
<1> DEFINE e == Target(i)
<1>1. e \in Env /\ pc[i] = "unshare_stale" /\ once[i] = "free"
  BY TargetIsStale DEF UnshareStale, OwnInv
<1>2. /\ UNCHANGED <<enabled, stale, seen, mine, once, disableFailed>>
      /\ UNCHANGED account \/ Unshare(e)
      /\ shared' \subseteq shared /\ shareFailed \subseteq shareFailed'
  BY DEF UnshareStale, TryAgain, Unshare, account
<1>3. NameStuckOnlyAfterFailure'
  BY <1>1, <1>2, NameKept DEF account
<1>4. /\ pc'[i] \in {"unshare_stale", "disable_stale"}
      /\ pc'[i] = "disable_stale" => e \notin shared' \/ e \in shareFailed'
  BY <1>1 DEF UnshareStale, TryAgain, Goto, ProcessOK, Unshare
<1>5. Target(i)' = Target(i)
  BY <1>2 DEF Target
<1>6. pc'[i] = "disable_stale" => Unshared(Target(i))'
  BY <1>4, <1>5 DEF Unshared
<1>7. shared \subseteq seen[i] /\ enabled \subseteq stale[i] \cup disableFailed
  BY <1>1 DEF ReapInv
<1>8. shared' \subseteq seen'[i] /\ enabled' \subseteq stale'[i] \cup disableFailed'
  BY <1>2, <1>7
<1> QED BY <1>1, <1>2, <1>3, <1>4, <1>6, <1>8, AloneReapInv

LEMMA DisableStaleKeepsAlone ==
    ASSUME OneAtATime, AloneInv, NEW i \in Instance, DisableStale(i)
    PROVE  ReapInv' /\ NameStuckOnlyAfterFailure'
<1> USE DEF AloneInv, TypeInd
<1> DEFINE e == Target(i)
<1>1. e \in Env /\ pc[i] = "disable_stale" /\ once[i] = "free"
  BY TargetIsStale DEF DisableStale, OwnInv
<1>2. Unshared(e) /\ shared \subseteq seen[i] /\ enabled \subseteq stale[i] \cup disableFailed
  BY <1>1 DEF ReapInv
<1>3. /\ UNCHANGED <<seen, mine, once, shareFailed>>
      /\ UNCHANGED account \/ Disable(e)
      /\ shared' \subseteq shared /\ enabled' \subseteq enabled
      /\ disableFailed \subseteq disableFailed'
  BY DEF DisableStale, TryAgain, Disable, account
<1>4. NameStuckOnlyAfterFailure'
  BY <1>1, <1>2, <1>3, NameKept DEF account
<1>5. CASE TryAgain(i, ReapAttempts)
  <2>1. pc'[i] = "disable_stale" /\ stale' = stale
    BY <1>1, <1>5 DEF TryAgain
  <2>2. Target(i)' = Target(i)
    BY <2>1 DEF Target
  <2>3. Unshared(Target(i))'
    BY <1>2, <1>3, <2>2 DEF Unshared
  <2> QED BY <1>1, <1>2, <1>3, <1>4, <2>1, <2>3, AloneReapInv
<1>6. CASE ~TryAgain(i, ReapAttempts)
  <2>1. pc'[i] = "reap" /\ stale'[i] = stale[i] \ {e}
    BY <1>6 DEF DisableStale, Goto, ProcessOK
  <2>2. e \notin enabled' \/ e \in disableFailed'
    BY <1>6 DEF DisableStale, Disable
  <2>3. enabled' \subseteq stale'[i] \cup disableFailed'
    BY <1>2, <1>3, <2>1, <2>2
  <2> QED BY <1>1, <1>2, <1>3, <1>4, <2>1, <2>3, AloneReapInv
<1> QED BY <1>5, <1>6

\* Enabling makes an environment without a share.
LEMMA EnablingKeepsAlone ==
    ASSUME OneAtATime, AloneInv, NEW i \in Instance, EnableEnvironment(i)
    PROVE  ReapInv' /\ NameStuckOnlyAfterFailure'
<1> USE DEF AloneInv, TypeInd
<1>1. /\ UNCHANGED account \/ Enable
      /\ UNCHANGED <<shared, once, shareFailed>>
      /\ pc[i] = "enable" /\ once[i] = "free"
  BY DEF EnableEnvironment, EnablingFails, TryAgain, Enable, account, observed, OwnInv
<1>2. NameStuckOnlyAfterFailure'
  BY <1>1, NameKept DEF account
<1>3. CASE TryAgain(i, EnableAttempts)
  <2>1. pc'[i] = "enable" /\ attempt'[i] # 1
    BY <1>1, <1>3 DEF TryAgain, ProcessOK
  <2> QED BY <1>1, <1>2, <2>1, AloneReapInv
<1>4. CASE ~TryAgain(i, EnableAttempts)
  <2>1. /\ pc'[i] \in {"reserve", "share", "down"}
        /\ pc'[i] # "down" => mine'[i] = issued + 1
    BY <1>4 DEF EnableEnvironment, Goto, Exit, ProcessOK
  <2>2. issued + 1 \notin shared
    BY BoundAssumption DEF AccountOK
  <2> QED BY <1>1, <1>2, <2>1, <2>2, AloneReapInv DEF Unshared
<1> QED BY <1>3, <1>4

\* A share that was made without an answer counts as a failed call.
LEMMA SharingKeepsAlone ==
    ASSUME OneAtATime, AloneInv, NEW i \in Instance, ReserveName(i) \/ CreateShare(i)
    PROVE  ReapInv' /\ NameStuckOnlyAfterFailure'
<1> USE DEF AloneInv, TypeInd
<1> DEFINE e == mine[i]
<1>1. /\ pc[i] \in {"reserve", "share"} /\ e \in Env /\ e # None
      /\ UNCHANGED <<enabled, mine, once>>
      /\ shareFailed \subseteq shareFailed'
  BY DEF ReserveName, CreateShare, SharingFails, TryAgain, Share, account, observed, ProcessOK
<1>2. Unshared(e) /\ (once[i] = "unshared" => Unshared(e))
  BY <1>1 DEF ReapInv
<1>3. once[i] # "unshared"
  BY <1>1 DEF SignalInv, Up
<1>4. NameStuckOnlyAfterFailure'
  <2>1. UNCHANGED <<enabled, holder>> \/ Share(e)
    BY DEF ReserveName, CreateShare, SharingFails, account
  <2> QED BY <1>1, <2>1, NameKept
<1>5. /\ pc'[i] \in {"share", "listen", "give_up"}
      /\ pc'[i] # "listen" => e \notin shared' \/ e \in shareFailed'
  <2>1. CASE ReserveName(i)
    BY <1>2, <2>1 DEF ReserveName, Goto, ProcessOK, observed, Unshared
  <2>2. CASE CreateShare(i)
    <3>1. CASE SharingFails(e)
      <4>1. e \notin shared' \/ e \in shareFailed'
        BY <1>2, <3>1 DEF SharingFails, account, Unshared
      <4>2. pc'[i] \in {"share", "listen", "give_up"}
        BY <2>2 DEF CreateShare, Goto, TryAgain, ProcessOK
      <4> QED BY <4>1, <4>2
    <3>2. CASE ~SharingFails(e)
      BY <2>2, <3>2 DEF CreateShare, Goto, ProcessOK
    <3> QED BY <3>1, <3>2
  <2> QED BY <2>1, <2>2
<1>6. pc'[i] \in {"reserve", "share", "give_up"} => Unshared(mine[i])'
  BY <1>1, <1>5 DEF Unshared
<1> QED BY <1>1, <1>3, <1>4, <1>5, <1>6, AloneReapInv

LEMMA GivingUpKeepsAlone ==
    ASSUME OneAtATime, AloneInv, NEW i \in Instance, GiveUp(i)
    PROVE  ReapInv' /\ NameStuckOnlyAfterFailure'
<1> USE DEF AloneInv, TypeInd
<1>1. /\ pc[i] = "give_up" /\ pc'[i] = "down" /\ mine[i] \in Env
      /\ UNCHANGED <<mine, once, shareFailed>>
      /\ UNCHANGED account \/ Disable(mine[i])
  BY DEF GiveUp, Exit, Goto, ProcessOK
<1>2. Unshared(mine[i]) /\ once[i] # "unshared"
  BY <1>1 DEF ReapInv, SignalInv, Up
<1>3. NameStuckOnlyAfterFailure'
  BY <1>1, <1>2, NameKept DEF account
<1> QED BY <1>1, <1>2, <1>3, AloneReapInv

\* The release unshares first.
LEMMA ReleasingKeepsAlone ==
    ASSUME OneAtATime, AloneInv, NEW i \in Instance,
           ReleaseShare(i) \/ ReleaseEnvironment(i)
    PROVE  ReapInv' /\ NameStuckOnlyAfterFailure'
<1> USE DEF AloneInv, TypeInd
<1> DEFINE e == mine[i]
<1>1. /\ pc[i] \in {"serving", "release"} /\ e \in Env
      /\ UNCHANGED <<pc, mine>>
      /\ shareFailed \subseteq shareFailed'
  BY DEF ReleaseShare, ReleaseEnvironment, Releasing, SignalInv, Up, ProcessOK
<1>2. CASE ReleaseShare(i)
  <2>1. e \notin shared' \/ e \in shareFailed'
    BY <1>2 DEF ReleaseShare, Unshare
  <2>2. NameStuckOnlyAfterFailure'
    BY <1>1, <1>2, NameKept DEF ReleaseShare, account
  <2> QED BY <1>1, <2>1, <2>2, AloneReapInv DEF Unshared
<1>3. CASE ReleaseEnvironment(i)
  <2>1. once[i] = "unshared" /\ once'[i] = "done"
    BY <1>3 DEF ReleaseEnvironment, ProcessOK
  <2>2. Unshared(e)
    BY <2>1 DEF ReapInv
  <2>3. NameStuckOnlyAfterFailure'
    BY <1>1, <1>3, <2>2, NameKept DEF ReleaseEnvironment, account
  <2> QED BY <1>1, <2>1, <2>3, AloneReapInv
<1> QED BY <1>2, <1>3

\* Steps that ask the controller nothing.
LEMMA LocalStepKeepsAlone ==
    ASSUME OneAtATime, AloneInv, NEW i \in Instance,
           \/ Start(i) \/ Listen(i) \/ Notify(i) \/ ServeReturns(i) \/ CloseListener(i)
           \/ Signal(i) \/ Released(i) \/ \E how : Die(i, how)
    PROVE  ReapInv' /\ NameStuckOnlyAfterFailure'
<1> USE DEF AloneInv, TypeInd
<1>1. UNCHANGED <<account, shareFailed, disableFailed>>
  BY DEF Start, Listen, Notify, ServeReturns, CloseListener, Signal, Released, Die, observed
<1>2. NameStuckOnlyAfterFailure'
  BY <1>1 DEF NameStuckOnlyAfterFailure, account
<1>3. CASE Start(i)
  <2>1. /\ once'[i] = "free"
        /\ pc'[i] = IF UniqueName THEN "overview" ELSE "enable"
    BY <1>3 DEF Start, Goto, ProcessOK
  <2> QED BY <1>2, <2>1, AloneReapInv
<1>4. CASE ~Start(i)
  <2>1. /\ UNCHANGED <<mine, once>>
        /\ pc'[i] \in {"release", "notify", "serving", "down"}
    BY <1>4 DEF Start, Listen, Notify, ServeReturns, CloseListener, Signal, Released, Die,
                Exit, Goto, ProcessOK, SignalInv, Up
  <2>2. once[i] = "unshared" => Unshared(mine[i])
    BY DEF ReapInv
  <2>3. once'[i] = "unshared" => Unshared(mine[i])'
    BY <1>1, <2>1, <2>2 DEF Unshared, account
  <2> QED BY <1>2, <2>1, <2>3, AloneReapInv
<1> QED BY <1>3, <1>4

LEMMA AloneNext ==
    ASSUME OneAtATime, AloneInv, [Next]_vars
    PROVE  ReapInv' /\ NameStuckOnlyAfterFailure'
<1>1. CASE UNCHANGED vars
  BY <1>1 DEF vars, account, observed, AloneInv, ReapInv, NameStuckOnlyAfterFailure,
              Unshared, Target
<1>2. ASSUME NEW i \in Instance, Work(i) PROVE ReapInv' /\ NameStuckOnlyAfterFailure'
  BY <1>2, ReapingKeepsAlone, UnshareStaleKeepsAlone, DisableStaleKeepsAlone,
     EnablingKeepsAlone, SharingKeepsAlone, GivingUpKeepsAlone, ReleasingKeepsAlone,
     LocalStepKeepsAlone DEF Work
<1>3. ASSUME NEW i \in Instance,
             \/ Start(i) \/ ServeReturns(i) \/ Signal(i) \/ EarlySignal(i) \/ Kill(i)
      PROVE  ReapInv' /\ NameStuckOnlyAfterFailure'
  BY <1>3, LocalStepKeepsAlone DEF EarlySignal, Kill
<1> QED BY <1>1, <1>2, <1>3 DEF Next

LEMMA AloneAlways ==
    ASSUME OneAtATime
    PROVE  Spec => [](TypeInd /\ ReapInv /\ NameStuckOnlyAfterFailure)
<1>1. Init => ReapInv /\ NameStuckOnlyAfterFailure
  BY DEF Init, ReapInv, NameStuckOnlyAfterFailure
<1>2. TypeInd /\ IInv /\ ReapInv /\ NameStuckOnlyAfterFailure /\ [Next]_vars
        => ReapInv' /\ NameStuckOnlyAfterFailure'
  BY AloneNext DEF IInv, AloneInv
<1>3. Spec => []IInv
  BY InitIInv, NextKeepsIInv, PTL DEF Spec
<1> QED BY <1>1, <1>2, <1>3, TypeIndAlways, PTL DEF Spec

\* As long as no restart overlaps the process it replaces, the reserved name
\* is left with a share nobody can see only after a call about it failed.
THEOREM NameIsGivenBack ==
    ASSUME OneAtATime
    PROVE  Spec => []NameStuckOnlyAfterFailure
BY AloneAlways, PTL

\* A start with a unique name finds what its predecessors left gone, but for
\* what calls failed to take down.
THEOREM RestartsHeal ==
    ASSUME OneAtATime, UniqueName
    PROVE  Spec => []StartsClean
<1>1. ReapInv /\ NameStuckOnlyAfterFailure => StartsClean
  BY DEF ReapInv, NameStuckOnlyAfterFailure, StartsClean
<1> QED BY <1>1, AloneAlways, PTL

=============================================================================
