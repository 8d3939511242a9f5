---------------------------- MODULE ZrokTunnel ----------------------------
(***************************************************************************)
(* The life of the built-in zrok tunnel (cmd/workspace-mcp/zrok.go): what  *)
(* serveZrok makes on the zrok account at startup and gives back at the    *)
(* end, over restarts, kills, signals and failing calls.                   *)
(*                                                                         *)
(* An instance is one process after another at one place (a supervisor, a  *)
(* shell); two instances model a restart that overlaps the process it      *)
(* replaces.  All of them have the same account and uniqueName, hence the  *)
(* same environment description.  An action is one call to the zrok        *)
(* controller with its outcome, or one step of a goroutine between calls.  *)
(*                                                                         *)
(* The controller is not part of the repository; it is modelled from what  *)
(* zrok.go calls and says of it: an environment holds at most the one      *)
(* share its process creates, a share bound to the reserved name holds     *)
(* that name, unsharing gives the name back and disabling an environment   *)
(* drops its share WITHOUT giving the name back.                           *)
(***************************************************************************)
EXTENDS Integers, FiniteSets

CONSTANTS
    Instance,        \* places a process is started at
    MaxEnv,          \* bound: environments ever enabled in a run
    EnvCap,          \* the account's limit on enabled environments
    UniqueName,      \* whether server.zrok.uniqueName is set
    MayFail,         \* whether calls to the controller and the overlay fail
    EnableAttempts, ShareAttempts, ReapAttempts

ASSUME BoundAssumption ==
    /\ MaxEnv \in Nat /\ EnvCap \in Nat
    /\ EnableAttempts \in Nat \ {0} /\ ShareAttempts \in Nat \ {0}
    /\ ReapAttempts \in Nat \ {0}
ASSUME SwitchAssumption == UniqueName \in BOOLEAN /\ MayFail \in BOOLEAN

Env == 1 .. MaxEnv
None == 0          \* no environment

VARIABLES
    enabled,       \* controller: the enabled environments of the account
    shared,        \* controller: those of them whose share exists
    holder,        \* controller: the environment whose share has the name
    reserved,      \* controller: the name is reserved in the namespace
    issued,        \* controller: environments enabled so far
    pc,            \* main goroutine of each instance
    sig,           \* its signal goroutine
    attempt,       \* of the call being retried
    stale,         \* reapStaleZrokEnvs: what is left of the overview
    seen,          \* reapStaleZrokEnvs: the shares the overview showed
    mine,          \* zenv
    once,          \* releaseOnce, with how far its function is
    gone,          \* how the last process of an instance ended
    shareFailed,   \* observation: environments whose share a call failed to make or delete
    disableFailed, \* observation: environments for which a disable call failed
    unanswered,    \* observation: environments whose enabling got no answer
    killed         \* observation: environments whose process was killed

account == <<enabled, shared, holder, reserved, issued>>
observed == <<shareFailed, disableFailed, unanswered, killed>>
vars == <<account, pc, sig, attempt, stale, seen, mine, once, gone, observed>>

\* main: up to the listener, serving, and on the way out
Starting == {"overview", "reap", "unshare_stale", "disable_stale", "enable",
             "reserve", "share", "listen", "notify"}
MainStep == Starting \cup {"serving", "give_up", "release", "down"}

Up(i) == pc[i] # "down"

---------------------------------------------------------------------------
(* The controller *)

\* The account's limit; in a run, also the bound.
CanEnable == Cardinality(enabled) < EnvCap /\ issued < MaxEnv
CanUnshare(e) == e \in enabled \cap shared
CanDisable(e) == e \in enabled

Enable ==
    /\ CanEnable
    /\ issued' = issued + 1
    /\ enabled' = enabled \cup {issued + 1}
    /\ UNCHANGED <<shared, holder, reserved>>

\* A share takes the reserved name, if one is asked for.
CanShare(e) == e \in enabled \ shared /\ (UniqueName => reserved /\ holder = None)
Share(e) ==
    /\ CanShare(e)
    /\ shared' = shared \cup {e}
    /\ holder' = IF UniqueName THEN e ELSE holder
    /\ UNCHANGED <<enabled, reserved, issued>>

Unshare(e) ==
    /\ CanUnshare(e)
    /\ shared' = shared \ {e}
    /\ holder' = IF holder = e THEN None ELSE holder
    /\ UNCHANGED <<enabled, reserved, issued>>

Disable(e) ==
    /\ CanDisable(e)
    /\ enabled' = enabled \ {e}
    /\ shared' = shared \ {e}
    /\ UNCHANGED <<holder, reserved, issued>>

---------------------------------------------------------------------------
(* Steps of the main goroutine *)

Goto(i, step) ==
    /\ pc' = [pc EXCEPT ![i] = step]
    /\ attempt' = [attempt EXCEPT ![i] = 1]

\* Mutant: after the last attempt the count starts over.
TryAgainForever(i, attempts) ==
    /\ MayFail
    /\ attempt' = [attempt EXCEPT ![i] = (@ % attempts) + 1]
    /\ UNCHANGED <<pc, sig, stale, seen, mine, once, gone, disableFailed, killed>>

\* retryTransientZrok: a 5xx, whether or not the controller did what it was
\* asked before, and attempts are left.
TryAgain(i, attempts) ==
    /\ MayFail
    /\ attempt[i] < attempts
    /\ attempt' = [attempt EXCEPT ![i] = @ + 1]
    /\ UNCHANGED <<pc, sig, stale, seen, mine, once, gone, disableFailed, killed>>

\* A new process.
Start(i) ==
    /\ ~Up(i)
    /\ Goto(i, IF UniqueName THEN "overview" ELSE "enable")
    /\ sig' = [sig EXCEPT ![i] = "none"]
    /\ mine' = [mine EXCEPT ![i] = None]
    /\ once' = [once EXCEPT ![i] = "free"]
    /\ stale' = [stale EXCEPT ![i] = {}]
    /\ seen' = [seen EXCEPT ![i] = {}]
    /\ gone' = [gone EXCEPT ![i] = "running"]
    /\ UNCHANGED <<account, observed>>

\* Mutant: environments without a share are not listed.
OverviewSharedOnly(i) ==
    /\ pc[i] = "overview"
    /\ stale' = [stale EXCEPT ![i] = shared]
    /\ seen' = [seen EXCEPT ![i] = shared]
    /\ Goto(i, "reap")
    /\ UNCHANGED <<account, sig, mine, once, gone, observed>>

\* reapStaleZrokEnvs: what the account has under this description.  A failure
\* only warns.
Overview(i) ==
    /\ pc[i] = "overview"
    /\ \/ /\ stale' = [stale EXCEPT ![i] = enabled]
          /\ seen' = [seen EXCEPT ![i] = shared]
          /\ Goto(i, "reap")
          /\ UNCHANGED disableFailed
       \/ /\ MayFail
          /\ Goto(i, "enable")
          /\ disableFailed' = disableFailed \cup enabled
          /\ UNCHANGED <<stale, seen>>
    /\ UNCHANGED <<account, sig, mine, once, gone, shareFailed, unanswered, killed>>

\* The environment the reaper is at; the overview has them in some order.
Target(i) == CHOOSE e \in stale[i] : TRUE

\* Mutant: environments are disabled with their shares.
ReapWithoutUnshare(i) ==
    /\ pc[i] = "reap"
    /\ Goto(i, IF stale[i] = {} THEN "enable" ELSE "disable_stale")
    /\ UNCHANGED <<account, sig, stale, seen, mine, once, gone, observed>>

\* The loop: the share the overview showed goes first, then its environment.
Reap(i) ==
    /\ pc[i] = "reap"
    /\ Goto(i, IF stale[i] = {} THEN "enable"
               ELSE IF Target(i) \in seen[i] THEN "unshare_stale"
               ELSE "disable_stale")
    /\ UNCHANGED <<account, sig, stale, seen, mine, once, gone, observed>>

UnshareStale(i) ==
    LET e == Target(i) IN
    /\ pc[i] = "unshare_stale"
    /\ \/ /\ TryAgain(i, ReapAttempts)
          /\ UNCHANGED account \/ Unshare(e)
          /\ UNCHANGED <<shareFailed, unanswered>>
       \/ /\ \/ Unshare(e) /\ shareFailed' \in {shareFailed} \cup
                    (IF MayFail THEN {shareFailed \cup {e}} ELSE {})
             \/ /\ ~CanUnshare(e) \/ MayFail
                /\ shareFailed' = shareFailed \cup {e}
                /\ UNCHANGED account
          /\ Goto(i, "disable_stale")
          /\ UNCHANGED <<sig, stale, seen, mine, once, gone, disableFailed, unanswered, killed>>

DisableStale(i) ==
    LET e == Target(i) IN
    /\ pc[i] = "disable_stale"
    /\ \/ /\ TryAgain(i, ReapAttempts)
          /\ UNCHANGED account \/ Disable(e)
          /\ UNCHANGED <<shareFailed, unanswered>>
       \/ /\ \/ Disable(e) /\ UNCHANGED disableFailed
             \/ /\ ~CanDisable(e) \/ MayFail
                /\ disableFailed' = disableFailed \cup {e}
                /\ UNCHANGED account
          /\ Goto(i, "reap")
          /\ stale' = [stale EXCEPT ![i] = @ \ {e}]
          /\ UNCHANGED <<sig, seen, mine, once, gone, shareFailed, unanswered, killed>>

\* A process ends by itself: run returns an error, or os.Exit(0).
Exit(i) ==
    /\ Goto(i, "down")
    /\ sig' = [sig EXCEPT ![i] = "none"]
    /\ gone' = [gone EXCEPT ![i] = "exit"]

\* The controller refuses, or does it and the answer is lost.
EnablingFails ==
    \/ (MayFail \/ ~CanEnable) /\ UNCHANGED <<account, unanswered>>
    \/ MayFail /\ Enable /\ unanswered' = unanswered \cup {issued + 1}

\* Mutant: the error of the last attempt is not looked at.
EnableEnvironmentUnchecked(i) ==
    /\ pc[i] = "enable"
    /\ \/ TryAgain(i, EnableAttempts) /\ UNCHANGED <<account, shareFailed, unanswered>>
       \/ /\ \/ Enable /\ mine' = [mine EXCEPT ![i] = issued + 1]
             \/ (MayFail \/ ~CanEnable) /\ UNCHANGED <<account, mine>>
          /\ Goto(i, IF UniqueName THEN "reserve" ELSE "share")
          /\ UNCHANGED <<sig, stale, seen, once, gone, observed>>

\* sdk.EnableEnvironment with the longest retry; nothing to give back when it fails.
EnableEnvironment(i) ==
    /\ pc[i] = "enable"
    /\ \/ TryAgain(i, EnableAttempts) /\ EnablingFails /\ UNCHANGED shareFailed
       \/ /\ Enable
          /\ mine' = [mine EXCEPT ![i] = issued + 1]
          /\ Goto(i, IF UniqueName THEN "reserve" ELSE "share")
          /\ UNCHANGED <<sig, stale, seen, once, gone, observed>>
       \/ /\ EnablingFails
          /\ Exit(i)
          /\ UNCHANGED <<stale, seen, mine, once, shareFailed, disableFailed, killed>>

\* reserveZrokName: idempotent, a conflict is what is wanted.
ReserveName(i) ==
    /\ pc[i] = "reserve"
    /\ \/ reserved' = TRUE /\ Goto(i, "share")
       \/ MayFail /\ reserved' \in {reserved, TRUE} /\ Goto(i, "give_up")
    /\ UNCHANGED <<enabled, shared, holder, issued, sig, stale, seen, mine, once, gone, observed>>

SharingFails(e) ==
    \/ (MayFail \/ ~CanShare(e)) /\ UNCHANGED <<account, shareFailed>>
    \/ MayFail /\ Share(e) /\ shareFailed' = shareFailed \cup {e}

\* Mutant: a failed share leaves the environment to the next start.
CreateShareKeepingEnvironment(i) ==
    LET e == mine[i] IN
    /\ pc[i] = "share"
    /\ \/ TryAgain(i, ShareAttempts) /\ SharingFails(e)
       \/ Share(e) /\ Goto(i, "listen") /\ UNCHANGED <<sig, gone, shareFailed>>
       \/ SharingFails(e) /\ Exit(i)
    /\ UNCHANGED <<stale, seen, mine, once, disableFailed, unanswered, killed>>

CreateShare(i) ==
    LET e == mine[i] IN
    /\ pc[i] = "share"
    /\ \/ TryAgain(i, ShareAttempts) /\ SharingFails(e) /\ UNCHANGED unanswered
       \/ /\ Share(e)
          /\ Goto(i, "listen")
          /\ UNCHANGED <<sig, stale, seen, mine, once, gone, observed>>
       \/ /\ SharingFails(e)
          /\ Goto(i, "give_up")
          /\ UNCHANGED <<sig, stale, seen, mine, once, gone, disableFailed, unanswered, killed>>

\* disableEnv on the way out of a start that got no share.
GiveUp(i) ==
    LET e == mine[i] IN
    /\ pc[i] = "give_up"
    /\ \/ Disable(e) /\ UNCHANGED disableFailed
       \/ /\ ~CanDisable(e) \/ MayFail
          /\ disableFailed' = disableFailed \cup {e}
          /\ UNCHANGED account
    /\ Exit(i)
    /\ UNCHANGED <<stale, seen, mine, once, shareFailed, unanswered, killed>>

\* The ziti identity, context and listener, all before any signal handler.
Listen(i) ==
    /\ pc[i] = "listen"
    /\ \/ mine[i] \in enabled \cap shared /\ Goto(i, "notify")
       \/ (MayFail \/ mine[i] \notin enabled \cap shared) /\ Goto(i, "release")
    /\ UNCHANGED <<account, sig, stale, seen, mine, once, gone, observed>>

\* signal.Notify and the goroutine that waits on it.
Notify(i) ==
    /\ pc[i] = "notify"
    /\ Goto(i, "serving")
    /\ sig' = [sig EXCEPT ![i] = "waiting"]
    /\ UNCHANGED <<account, stale, seen, mine, once, gone, observed>>

\* http.Serve returns: the listener was closed, or broke.
ServeReturns(i) ==
    /\ pc[i] = "serving"
    /\ Goto(i, "release")
    /\ UNCHANGED <<account, sig, stale, seen, mine, once, gone, observed>>

---------------------------------------------------------------------------
(* release, run by whichever goroutine calls it first *)

Releasing(i) == pc[i] = "release" \/ sig[i] = "release"

\* sdk.DeleteShare inside releaseOnce.Do
ReleaseShare(i) ==
    LET e == mine[i] IN
    /\ Releasing(i)
    /\ once[i] = "free"
    /\ once' = [once EXCEPT ![i] = "unshared"]
    /\ \/ Unshare(e) /\ UNCHANGED shareFailed
       \/ /\ ~CanUnshare(e) \/ MayFail
          /\ shareFailed' = shareFailed \cup {e}
          /\ UNCHANGED account
    /\ UNCHANGED <<pc, sig, attempt, stale, seen, mine, gone, disableFailed, unanswered, killed>>

\* disableEnv, after which Do returns to everybody waiting in it
ReleaseEnvironment(i) ==
    LET e == mine[i] IN
    /\ Releasing(i)
    /\ once[i] = "unshared"
    /\ once' = [once EXCEPT ![i] = "done"]
    /\ \/ Disable(e) /\ UNCHANGED disableFailed
       \/ /\ ~CanDisable(e) \/ MayFail
          /\ disableFailed' = disableFailed \cup {e}
          /\ UNCHANGED account
    /\ UNCHANGED <<pc, sig, attempt, stale, seen, mine, gone, shareFailed, unanswered, killed>>

\* release returns: the process ends, whichever goroutine is first.
Released(i) ==
    /\ Releasing(i)
    /\ once[i] = "done"
    /\ Exit(i)
    /\ UNCHANGED <<account, stale, seen, mine, once, observed>>

---------------------------------------------------------------------------
(* Signals and kills *)

\* Mutant: the signal is logged and the goroutine waits for the next one.
SwallowSignal(i) ==
    /\ sig[i] = "closing"
    /\ sig' = [sig EXCEPT ![i] = "waiting"]
    /\ UNCHANGED <<account, pc, attempt, stale, seen, mine, once, gone, observed>>

\* The signal goroutine: listener.Close(), then release().
CloseListener(i) ==
    /\ sig[i] = "closing"
    /\ sig' = [sig EXCEPT ![i] = "release"]
    /\ UNCHANGED <<account, pc, attempt, stale, seen, mine, once, gone, observed>>

\* SIGINT or SIGTERM once they are caught; a later one finds nobody waiting.
Signal(i) ==
    /\ Up(i)
    /\ sig[i] = "waiting"
    /\ sig' = [sig EXCEPT ![i] = "closing"]
    /\ UNCHANGED <<account, pc, attempt, stale, seen, mine, once, gone, observed>>

\* The process dies on the spot, by how.
Die(i, how) ==
    /\ Up(i)
    /\ Goto(i, "down")
    /\ sig' = [sig EXCEPT ![i] = "none"]
    /\ gone' = [gone EXCEPT ![i] = how]
    /\ killed' = killed \cup ({mine[i]} \ {None})
    /\ UNCHANGED <<account, stale, seen, mine, once, shareFailed, disableFailed, unanswered>>

\* SIGINT or SIGTERM with the default disposition, and SIGKILL or a crash.
EarlySignal(i) == sig[i] = "none" /\ Die(i, "signal")
Kill(i) == Die(i, "kill")

---------------------------------------------------------------------------
(* The specification *)

Init ==
    /\ enabled = {} /\ shared = {} /\ holder = None /\ issued = 0
    /\ reserved \in BOOLEAN
    /\ pc = [i \in Instance |-> "down"]
    /\ sig = [i \in Instance |-> "none"]
    /\ attempt = [i \in Instance |-> 1]
    /\ stale = [i \in Instance |-> {}]
    /\ seen = [i \in Instance |-> {}]
    /\ mine = [i \in Instance |-> None]
    /\ once = [i \in Instance |-> "free"]
    /\ gone = [i \in Instance |-> "exit"]
    /\ shareFailed = {} /\ disableFailed = {} /\ unanswered = {} /\ killed = {}

\* What a running process does by itself.
Work(i) ==
    \/ Overview(i) \/ Reap(i) \/ UnshareStale(i) \/ DisableStale(i)
    \/ EnableEnvironment(i) \/ ReserveName(i) \/ CreateShare(i) \/ GiveUp(i)
    \/ Listen(i) \/ Notify(i)
    \/ CloseListener(i) \/ ReleaseShare(i) \/ ReleaseEnvironment(i) \/ Released(i)

Next ==
    \E i \in Instance :
        \/ Start(i)
        \/ Work(i)
        \/ ServeReturns(i)
        \/ Signal(i) \/ EarlySignal(i) \/ Kill(i)

Spec == Init /\ [][Next]_vars

\* Goroutines run, and every call to the controller is answered or times out.
FairSpec == Spec /\ \A i \in Instance : WF_vars(Work(i))

---------------------------------------------------------------------------
(* Properties *)

\* The type invariant, with what the controller keeps: the holder of the name
\* shares, unless its environment is gone.
TypeOK ==
    /\ enabled \subseteq Env /\ shared \subseteq enabled
    /\ holder \in Env \cup {None} /\ (holder \in enabled => holder \in shared)
    /\ reserved \in BOOLEAN /\ issued \in 0 .. MaxEnv
    /\ pc \in [Instance -> MainStep]
    /\ sig \in [Instance -> {"none", "waiting", "closing", "release"}]
    /\ attempt \in [Instance -> Nat \ {0}]
    /\ stale \in [Instance -> SUBSET Env] /\ seen \in [Instance -> SUBSET Env]
    /\ \A i \in Instance : pc[i] \in {"unshare_stale", "disable_stale"} => stale[i] # {}
    /\ mine \in [Instance -> Env \cup {None}]
    /\ \A i \in Instance :
          pc[i] \in {"reserve", "share", "listen", "notify", "serving", "give_up", "release"} =>
              mine[i] # None
    /\ once \in [Instance -> {"free", "unshared", "done"}]
    /\ gone \in [Instance -> {"running", "exit", "signal", "kill"}]
    /\ shareFailed \cup disableFailed \cup unanswered \cup killed \subseteq Env

\* "so clean shutdowns leave nothing behind" (serveZrok): an environment
\* outlives the process that enabled it only if that process was killed or a
\* call of the controller failed; no way out of serveZrok forgets it, and no
\* race of the signal goroutine with http.Serve cuts its release short.
LeftBehindOnlyByAccident ==
    \A e \in enabled :
        \/ \E i \in Instance : Up(i) /\ mine[i] = e
        \/ e \in disableFailed \cup unanswered \cup killed

\* The name is stuck (held by a share of an environment that is gone, which no
\* later reaping can see) only after a call that concerned its holder failed:
\* the order unshare, then disable holds on every path, the reaper's included.
NameStuckOnlyAfterFailure ==
    holder \in enabled \cup {None} \cup shareFailed

\* "We make restarts self-healing" (reapStaleZrokEnvs): when a start first asks
\* for its environment, the account holds under this description only what a
\* call failed to disable, and the name is free unless such an environment, or
\* a share that a call failed to make or delete, has it: wherever the
\* predecessor was killed, and whatever answer it never got.
StartsClean ==
    \A i \in Instance :
        pc[i] = "enable" /\ attempt[i] = 1 =>
            /\ enabled \subseteq disableFailed
            /\ holder \in {None} \cup enabled \cup shareFailed

\* Reaping, retries and failing calls never block startup for ever.
StartupEnds ==
    \A i \in Instance : pc[i] \in Starting ~> pc[i] \notin Starting

\* A signal that was caught ends the process, whatever the main goroutine and
\* the controller do.
ShutdownEnds ==
    \A i \in Instance : sig[i] = "closing" ~> pc[i] = "down"

---------------------------------------------------------------------------
(* What the documentation says beyond that *)

\* "so the name is free again by the time we disable the environment"
\* (reapStaleZrokEnvs): a holder of the name is an environment that exists.
NameIsFreeWhenDisabled == holder \in enabled \cup {None}

=============================================================================
