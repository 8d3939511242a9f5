--------------------------- MODULE ServiceProofs ---------------------------
(***************************************************************************)
(* What a running server is, for any configuration, and that a rotation of *)
(* tokens cuts nobody off, for any number of clients, tokens and edits.    *)
(***************************************************************************)
EXTENDS Service, FiniteSetTheorems, TLAPS

Checked == phase \in {"build", "listen", "serving", "stdio"}

TypeInv ==
    /\ NothingRead \in Config
    /\ config \in Config /\ cfg \in Config
    /\ dotenv \in Environment /\ environ \in Environment /\ read \in Environment
    /\ broken \subseteq {"config", "dotenv"} /\ dirs \subseteq RootDirs
    /\ edits \in 0 .. MaxEdits /\ outdated \in BOOLEAN
    /\ client \in [Clients -> Credential]
    /\ phase \in Phases /\ flags \in Flags
    /\ held \in Seq([name : Names, root : RootDirs])

\* What has been read passed the checks, with the directories of that moment.
CheckedInv ==
    Checked => /\ SecretsResolve
               /\ \E then \in SUBSET RootDirs : Validate(cfg, Tokens, ~ flags.stdio, then)

\* Where run can be for which flags.
PathInv ==
    /\ phase \in {"listen", "serving"} => ~ flags.stdio
    /\ phase = "stdio" => flags.stdio /\ Select(flags.workspace, held) # {}
    /\ phase = "serving" => TunnelTokenResolves

\* The roots are opened in the order of the configuration, all of them before
\* anything is served.
HeldInv ==
    /\ Len(held) <= Len(cfg.workspaces)
    /\ \A i \in DOMAIN held :
           held[i] = [name |-> cfg.workspaces[i].name, root |-> cfg.workspaces[i].root]
    /\ ~ Checked => held = <<>>
    /\ phase \in {"listen", "serving", "stdio"} => Len(held) = Len(cfg.workspaces)

\* A client's token is one that the files stand for, one that what is read so
\* far stands for together with what is still to be read, and both are the same
\* as long as nobody edits.
RotationInv ==
    /\ NobodyIsCutOff(config.auth, dotenv)
    /\ phase = "config" => NobodyIsCutOff(cfg.auth, dotenv)
    /\ phase \notin {"down", "config"} => NobodyIsCutOff(cfg.auth, read)
    /\ ~ outdated /\ phase # "down" => cfg = config /\ (phase # "config" => read = dotenv)

IInv == TypeInv /\ CheckedInv /\ PathInv /\ HeldInv /\ RotationInv

---------------------------------------------------------------------------
(* Lemmas about references and rotations *)

\* What run resolves is what the files it read stand for.
LEMMA StandsIsResolved == \A ref \in Ref : Resolved(ref, env) = Stands(ref, read)
  BY DEF Resolved, env, Merged, Stands

\* A reference that resolves stands for a secret, and the other way round.
LEMMA ResolvesToASecret ==
    \A ref \in Ref, e \in Environment : Resolves(ref, e) <=> Resolved(ref, e) \in Secrets
  BY ConfigurationAssumption DEF Resolves, Resolved, Ref

LEMMA ElementType ==
    ASSUME NEW S, NEW s \in Seq(S), NEW i \in DOMAIN s
    PROVE  s[i] \in S
  OBVIOUS

LEMMA MergedIsEnvironment == TypeInv => env \in Environment
  BY DEF TypeInv, env, Merged, Environment

LEMMA TokenRefsType ==
    ASSUME NEW auth \in AuthConfig
    PROVE  /\ TokenRefs(auth) \in Seq(Ref)
           /\ \A i \in DOMAIN TokenRefs(auth) : TokenRefs(auth)[i] \in Refs(auth) \cap Ref
           /\ RefsAgree(auth) => \A ref \in Refs(auth) \ {NoRef} :
                  \E i \in DOMAIN TokenRefs(auth) : TokenRefs(auth)[i] = ref
           /\ Refs(auth) \subseteq Ref
  BY DEF AuthConfig, TokenRefs, Refs, RefsAgree, SetRef

\* The tokens of a configuration that resolves.
LEMMA TokensType ==
    ASSUME TypeInv, ~ flags.stdio => SecretsResolve
    PROVE  /\ Tokens \in Seq(Secrets)
           /\ DOMAIN Tokens = IF flags.stdio THEN {} ELSE DOMAIN TokenRefs(cfg.auth)
           /\ ~ flags.stdio => \A i \in DOMAIN Tokens :
                  Tokens[i] = Stands(TokenRefs(cfg.auth)[i], read)
<1>1. CASE flags.stdio
  BY <1>1 DEF Tokens
<1>2. CASE ~ flags.stdio
  <2>1. cfg.auth \in AuthConfig
    BY DEF TypeInv, Config
  <2>2. \A i \in DOMAIN TokenRefs(cfg.auth) :
          /\ TokenRefs(cfg.auth)[i] \in Ref
          /\ Resolved(TokenRefs(cfg.auth)[i], env) \in Secrets
          /\ Resolved(TokenRefs(cfg.auth)[i], env) = Stands(TokenRefs(cfg.auth)[i], read)
    BY <1>2, <2>1, TokenRefsType, ResolvesToASecret, MergedIsEnvironment, StandsIsResolved
       DEF SecretsResolve, TokensResolve
  <2>3. Tokens = [i \in DOMAIN TokenRefs(cfg.auth) |-> Resolved(TokenRefs(cfg.auth)[i], env)]
    BY <1>2 DEF Tokens, BearerTokens
  <2>4. TokenRefs(cfg.auth) \in Seq(Ref)
    BY <2>1, TokenRefsType
  <2> QED BY <1>2, <2>2, <2>3, <2>4
<1> QED BY <1>1, <1>2

\* Nobody is cut off by a configuration as long as none of its references is
\* given another value.
LEMMA SettingKeepsTokens ==
    ASSUME NEW auth \in AuthConfig, NEW v \in Variables, NEW value, TypeInv,
           NobodyIsCutOff(auth, dotenv), v \notin Refs(auth)
    PROVE  NobodyIsCutOff(auth, [dotenv EXCEPT ![v] = value])
  BY DEF NobodyIsCutOff, Stands, Environment, TypeInv

---------------------------------------------------------------------------
(* The invariant *)

LEMMA StateTypes ==
    /\ Http \in Flags /\ "down" \in Phases
    /\ \A s \in Secrets : Static(s) \in Credential /\ Sealed(s) \in Credential
  BY DEF Http, Flags, Phases, Static, Sealed, Credential

LEMMA InitIInv == Init => IInv
<1> SUFFICES ASSUME Init PROVE IInv
  OBVIOUS
<1>1. NothingRead \in InitialConfigs
  BY DEF Init, NothingRead
<1>2. TypeInv
  <2>1. client \in [Clients -> Credential]
    BY StateTypes, ServiceAssumption DEF Init
  <2>2. edits \in 0 .. MaxEdits
    BY ServiceAssumption DEF Init
  <2> QED BY <1>1, <2>1, <2>2, StateTypes, ServiceAssumption DEF Init, TypeInv
<1>3. CheckedInv /\ PathInv
  BY DEF Init, CheckedInv, PathInv, Checked
<1>4. HeldInv
  <2>1. cfg.workspaces \in Seq(WorkspaceConfig) /\ held = <<>>
    BY <1>2 DEF TypeInv, Config, Init
  <2> QED BY <2>1 DEF Init, HeldInv
<1>5. RotationInv
  <2>1. PICK ref \in Refs(config.auth) :
          Resolved(ref, Merged(InitialDotenv, environ)) = InitialToken
    BY RotationAssumption DEF Init
  <2>2. Stands(ref, dotenv) = InitialToken
    BY <2>1, <1>2, TokenRefsType DEF Init, Stands, Resolved, Merged
  <2>3. NobodyIsCutOff(config.auth, dotenv)
    BY <2>2 DEF Init, NobodyIsCutOff, Static
  <2> QED BY <2>3 DEF Init, RotationInv
<1> QED BY <1>2, <1>3, <1>4, <1>5 DEF IInv

\* Steps of the world around leave the process alone.
LEMMA AroundKeepsIInv ==
    ASSUME IInv, TypeInv', RotationInv',
           UNCHANGED <<phase, flags, cfg, read, held, environ>>
    PROVE  IInv'
<1>1. CheckedInv'
  BY DEF IInv, CheckedInv, Checked, SecretsResolve, Tokens, env
<1>2. PathInv' /\ HeldInv'
  BY DEF IInv, PathInv, HeldInv, Checked, TunnelTokenResolves, env
<1> QED BY <1>1, <1>2 DEF IInv

\* An end of the process.
LEMMA DownKeepsIInv ==
    ASSUME IInv, Down, UNCHANGED <<files, dirs, edits, outdated, client>>
    PROVE  IInv'
<1>1. TypeInv'
  BY ServiceAssumption, StateTypes DEF IInv, TypeInv, Down, files
<1>2. CheckedInv' /\ PathInv'
  BY DEF Down, CheckedInv, PathInv, Checked
<1>3. HeldInv'
  <2>1. cfg'.workspaces \in Seq(WorkspaceConfig) /\ held' = <<>>
    BY <1>1 DEF TypeInv, Config, Down
  <2> QED BY <2>1 DEF Down, HeldInv
<1>4. RotationInv'
  BY DEF IInv, RotationInv, NobodyIsCutOff, Stands, Down, files
<1> QED BY <1>1, <1>2, <1>3, <1>4 DEF IInv

\* A step of run that reads nothing.
LEMMA RunKeepsIInv ==
    ASSUME IInv, phase \notin {"down", "config"}, phase' \notin {"down", "config"},
           phase' \in Phases, UNCHANGED <<files, dirs, edits, outdated, client, flags, cfg, read>>,
           held' \in Seq([name : Names, root : RootDirs]), CheckedInv', PathInv', HeldInv'
    PROVE  IInv'
<1>1. TypeInv'
  BY DEF IInv, TypeInv, files
<1>2. RotationInv'
  BY DEF IInv, RotationInv, NobodyIsCutOff, Stands, files
<1> QED BY <1>1, <1>2 DEF IInv

LEMMA StartKeepsIInv == IInv /\ (\E f \in Flags : Start(f)) => IInv'
<1> SUFFICES ASSUME IInv, NEW f \in Flags, Start(f) PROVE IInv'
  OBVIOUS
<1>1. TypeInv'
  BY DEF IInv, TypeInv, Start, files, Phases
<1>2. CheckedInv' /\ PathInv'
  BY DEF Start, CheckedInv, PathInv, Checked
<1>3. HeldInv'
  <2>1. cfg'.workspaces \in Seq(WorkspaceConfig) /\ held' = <<>>
    BY <1>1 DEF TypeInv, Config, Start, IInv, HeldInv, Checked
  <2> QED BY <2>1 DEF Start, HeldInv
<1>4. RotationInv'
  BY DEF IInv, RotationInv, NobodyIsCutOff, Stands, Start, files
<1> QED BY <1>1, <1>2, <1>3, <1>4 DEF IInv

LEMMA LoadEnvKeepsIInv == IInv /\ LoadEnv => IInv'
<1> SUFFICES ASSUME IInv, LoadEnv PROVE IInv'
  OBVIOUS
<1>1. CASE Down
  BY <1>1, DownKeepsIInv DEF LoadEnv
<1>2. CASE phase' = "env" /\ read' = dotenv /\ UNCHANGED <<flags, cfg, held>>
  <2>1. TypeInv'
    BY <1>2 DEF IInv, TypeInv, LoadEnv, files, Phases
  <2>2. CheckedInv' /\ PathInv'
    BY <1>2 DEF CheckedInv, PathInv, Checked
  <2>3. HeldInv'
    BY <1>2 DEF IInv, HeldInv, LoadEnv, Checked
  <2>4. RotationInv'
    BY <1>2 DEF IInv, RotationInv, NobodyIsCutOff, Stands, LoadEnv, files
  <2> QED BY <2>1, <2>2, <2>3, <2>4 DEF IInv
<1> QED BY <1>1, <1>2 DEF LoadEnv

LEMMA CheckKeepsIInv == IInv /\ Check => IInv'
<1> SUFFICES ASSUME IInv, Check PROVE IInv'
  OBVIOUS
<1>1. CASE Down
  BY <1>1, DownKeepsIInv DEF Check
<1>2. CASE /\ SecretsResolve /\ Validate(cfg, Tokens, ~ flags.stdio, dirs)
           /\ phase' = "build" /\ UNCHANGED <<flags, cfg, read, held>>
  <2>1. CheckedInv'
    BY <1>2 DEF IInv, TypeInv, CheckedInv, Checked, SecretsResolve, Tokens, env, Check, files
  <2>2. PathInv' /\ HeldInv'
    BY <1>2 DEF IInv, PathInv, HeldInv, Check, Checked
  <2> QED BY <1>2, <2>1, <2>2, RunKeepsIInv DEF Check, Phases, IInv, TypeInv
<1> QED BY <1>1, <1>2 DEF Check

LEMMA BuildNextKeepsIInv == IInv /\ BuildNext => IInv'
<1> SUFFICES ASSUME IInv, BuildNext PROVE IInv'
  OBVIOUS
<1> DEFINE w == cfg.workspaces[Len(held) + 1]
<1>1. CASE Down
  BY <1>1, DownKeepsIInv DEF BuildNext
<1>2. CASE /\ held' = Append(held, [name |-> w.name, root |-> w.root])
           /\ UNCHANGED <<phase, flags, cfg, read>>
  <2>1. /\ cfg.workspaces \in Seq(WorkspaceConfig)
        /\ held \in Seq([name : Names, root : RootDirs])
        /\ Len(held) < Len(cfg.workspaces) /\ phase = "build"
    BY DEF IInv, TypeInv, Config, BuildNext
  <2>2. w \in WorkspaceConfig
    BY <2>1
  <2>3. held' \in Seq([name : Names, root : RootDirs])
    BY <1>2, <2>1, <2>2 DEF WorkspaceConfig
  <2>4. HeldInv'
    BY <1>2, <2>1, <2>2 DEF IInv, HeldInv, Checked
  <2>5. CheckedInv' /\ PathInv'
    BY <1>2, <2>1 DEF IInv, PathInv, CheckedInv, Checked, SecretsResolve, Tokens, env,
       BuildNext, files
  <2> QED BY <1>2, <2>1, <2>3, <2>4, <2>5, RunKeepsIInv DEF BuildNext, Phases
<1> QED BY <1>1, <1>2 DEF BuildNext

LEMMA BuiltKeepsIInv == IInv /\ Built => IInv'
<1> SUFFICES ASSUME IInv, Built PROVE IInv'
  OBVIOUS
<1>1. CASE Down
  BY <1>1, DownKeepsIInv DEF Built
<1>2. CASE /\ phase' = IF flags.stdio THEN "stdio" ELSE "listen"
           /\ flags.stdio => Select(flags.workspace, held) # {}
           /\ UNCHANGED <<flags, cfg, read, held>>
  <2>1. CheckedInv'
    BY <1>2 DEF IInv, CheckedInv, Checked, SecretsResolve, Tokens, env, Built, files
  <2>2. PathInv' /\ HeldInv'
    BY <1>2 DEF IInv, PathInv, HeldInv, Built, Checked
  <2> QED BY <1>2, <2>1, <2>2, RunKeepsIInv DEF Built, Phases, IInv, TypeInv
<1> QED BY <1>1, <1>2 DEF Built

LEMMA ListenKeepsIInv == IInv /\ Listen => IInv'
<1> SUFFICES ASSUME IInv, Listen PROVE IInv'
  OBVIOUS
<1>1. CASE Down
  BY <1>1, DownKeepsIInv DEF Listen
<1>2. CASE /\ TunnelTokenResolves
           /\ phase' = "serving" /\ UNCHANGED <<flags, cfg, read, held>>
  <2>1. CheckedInv'
    BY <1>2 DEF IInv, CheckedInv, Checked, SecretsResolve, Tokens, env, Listen, files
  <2>2. PathInv' /\ HeldInv'
    BY <1>2 DEF IInv, PathInv, HeldInv, Listen, Checked, TunnelTokenResolves, env, files
  <2> QED BY <1>2, <2>1, <2>2, RunKeepsIInv DEF Listen, Phases, IInv, TypeInv
<1> QED BY <1>1, <1>2 DEF Listen

LEMMA StopKeepsIInv == IInv /\ Stop => IInv'
  BY DownKeepsIInv DEF Stop

LEMMA ServerKeepsIInv == IInv /\ Server => IInv'
  BY StartKeepsIInv, LoadEnvKeepsIInv, CheckKeepsIInv, BuildNextKeepsIInv, BuiltKeepsIInv,
     ListenKeepsIInv, StopKeepsIInv DEF Server

LEMMA SetVariableKeepsIInv ==
    ASSUME IInv, NEW v \in Variables, NEW value \in Secrets \cup {Unset}, SetVariable(v, value)
    PROVE  IInv'
<1>1. TypeInv'
  BY DEF IInv, TypeInv, SetVariable, Edit, Environment
<1>2. RotationInv'
  <2>1. config.auth \in AuthConfig /\ cfg.auth \in AuthConfig
    BY DEF IInv, TypeInv, Config
  <2>2. NobodyIsCutOff(config.auth, dotenv')
    BY <2>1, SettingKeepsTokens DEF SetVariable, IInv, RotationInv
  <2>3. phase = "config" => NobodyIsCutOff(cfg.auth, dotenv')
    BY <2>1, SettingKeepsTokens DEF SetVariable, IInv, RotationInv
  <2> QED BY <2>2, <2>3 DEF IInv, RotationInv, NobodyIsCutOff, Stands, SetVariable, Edit
<1> QED BY <1>1, <1>2, AroundKeepsIInv DEF SetVariable, Edit

\* An edit of the token references that cuts nobody off.
LEMMA RefsKeepIInv ==
    ASSUME IInv, Edit, config' \in Config, NobodyIsCutOff(config'.auth, dotenv),
           UNCHANGED <<dotenv, broken, edits>>
    PROVE  IInv'
<1>1. TypeInv'
  BY DEF IInv, TypeInv, Edit
<1>2. RotationInv'
  BY DEF IInv, RotationInv, NobodyIsCutOff, Stands, Edit
<1> QED BY <1>1, <1>2, AroundKeepsIInv DEF Edit

LEMMA AddRefKeepsIInv ==
    ASSUME IInv, NEW v \in Variables, AddRef(v)
    PROVE  IInv'
<1>1. config \in Config /\ config.auth \in AuthConfig /\ v \in Ref
  BY DEF IInv, TypeInv, Config, Ref
<1>2. PICK refs \in {<<v>> \o TokenRefs(config.auth), TokenRefs(config.auth) \o <<v>>, <<v>>} :
        config' = [config EXCEPT
             !.auth.bearerTokens = refs,
             !.auth.bearerToken = IF refs = <<v>> THEN @ ELSE NoRef]
  BY DEF AddRef
<1>3. refs \in Seq(Ref)
  <2>1. <<v>> \in Seq(Ref) /\ TokenRefs(config.auth) \in Seq(Ref)
    BY <1>1, TokenRefsType
  <2>2. \A a, b \in Seq(Ref) : a \o b \in Seq(Ref)
    OBVIOUS
  <2>3. <<v>> \o TokenRefs(config.auth) \in Seq(Ref)
    BY <2>1, <2>2, Zenon
  <2>4. TokenRefs(config.auth) \o <<v>> \in Seq(Ref)
    BY <2>1, <2>2, Zenon
  <2> QED BY <1>2, <2>1, <2>3, <2>4, Zenon
<1>4. config' \in Config
  BY <1>1, <1>2, <1>3 DEF Config, AuthConfig, Ref
<1> QED BY <1>4, RefsKeepIInv DEF AddRef

LEMMA DropRefKeepsIInv ==
    ASSUME IInv, NEW v \in Variables, DropRef(v)
    PROVE  IInv'
<1>1. config \in Config /\ config.auth \in AuthConfig
  BY DEF IInv, TypeInv, Config
<1>2. CASE config' = [config EXCEPT !.auth.bearerToken = NoRef]
  <2>1. config' \in Config
    BY <1>1, <1>2 DEF Config, AuthConfig, Ref
  <2> QED BY <2>1, RefsKeepIInv DEF DropRef
<1>3. CASE \E i \in DOMAIN config.auth.bearerTokens :
             config' = [config EXCEPT
                !.auth.bearerTokens = SubSeq(@, 1, i - 1) \o SubSeq(@, i + 1, Len(@))]
  <2>1. PICK i \in DOMAIN config.auth.bearerTokens :
          config' = [config EXCEPT
             !.auth.bearerTokens = SubSeq(@, 1, i - 1) \o SubSeq(@, i + 1, Len(@))]
    BY <1>3
  <2> DEFINE refs == config.auth.bearerTokens
             rest == SubSeq(refs, 1, i - 1) \o SubSeq(refs, i + 1, Len(refs))
  <2>2. refs \in Seq(Ref) /\ i \in 1 .. Len(refs)
    BY <1>1, <2>1 DEF AuthConfig
  <2>3. rest \in Seq(Ref)
    <3>1. SubSeq(refs, 1, i - 1) \in Seq(Ref) /\ SubSeq(refs, i + 1, Len(refs)) \in Seq(Ref)
      BY <2>2
    <3> QED BY <3>1
  <2>4. config' \in Config
    BY <1>1, <2>1, <2>3 DEF Config, AuthConfig
  <2> QED BY <2>4, RefsKeepIInv DEF DropRef
<1> QED BY <1>2, <1>3 DEF DropRef

LEMMA ReconfigureKeepsIInv == IInv /\ Reconfigure => IInv'
<1> SUFFICES ASSUME IInv, Reconfigure PROVE IInv'
  OBVIOUS
<1>1. /\ config \in Config /\ config.auth \in AuthConfig
      /\ edits' \in 0 .. MaxEdits
  <2>1. MaxEdits \in Nat
    BY ServiceAssumption
  <2>2. edits \in 0 .. MaxEdits /\ edits < MaxEdits /\ edits' = edits + 1
    BY DEF IInv, TypeInv, Reconfigure
  <2> QED BY <2>1, <2>2 DEF IInv, TypeInv, Config
<1>2. config' \in Config /\ Refs(config'.auth) = Refs(config.auth)
  <2>1. ASSUME NEW s \in Servers, config' = [config EXCEPT !.server = s]
        PROVE  config' \in Config /\ config'.auth = config.auth
    BY <1>1, <2>1, ServiceAssumption DEF Config
  <2>2. ASSUME NEW w \in WorkspaceLists, config' = [config EXCEPT !.workspaces = w]
        PROVE  config' \in Config /\ config'.auth = config.auth
    BY <1>1, <2>2, ServiceAssumption DEF Config
  <2>3. ASSUME NEW o \in OAuths, config' = [config EXCEPT !.auth.clientID = o.clientID,
                                                         !.auth.clientSecret = o.clientSecret]
        PROVE  config' \in Config /\ Refs(config'.auth) = Refs(config.auth)
    BY <1>1, <2>3, ServiceAssumption DEF Config, AuthConfig, Refs
  <2>4. \/ config' = config
        \/ \E s \in Servers : config' = [config EXCEPT !.server = s]
        \/ \E w \in WorkspaceLists : config' = [config EXCEPT !.workspaces = w]
        \/ \E o \in OAuths : config' = [config EXCEPT !.auth.clientID = o.clientID,
                                                     !.auth.clientSecret = o.clientSecret]
    BY DEF Reconfigure
  <2> QED BY <1>1, <2>1, <2>2, <2>3, <2>4
<1>3. TypeInv'
  <2>1. broken' \subseteq {"config", "dotenv"}
    BY DEF IInv, TypeInv, Reconfigure
  <2> QED BY <1>1, <1>2, <2>1 DEF IInv, TypeInv, Reconfigure, Edit
<1>4. RotationInv'
  BY <1>2 DEF IInv, RotationInv, NobodyIsCutOff, Stands, Reconfigure, Edit
<1> QED BY <1>3, <1>4, AroundKeepsIInv DEF Reconfigure, Edit

LEMMA RepairKeepsIInv == IInv /\ Repair => IInv'
<1> SUFFICES ASSUME IInv, Repair PROVE IInv'
  OBVIOUS
<1>1. TypeInv'
  BY DEF IInv, TypeInv, Repair, Edit
<1>2. RotationInv'
  BY DEF IInv, RotationInv, NobodyIsCutOff, Stands, Repair, Edit
<1> QED BY <1>1, <1>2, AroundKeepsIInv DEF Repair, Edit

\* A server that serves what the files say knows the token a client gets.
LEMMA SwitchClientKeepsIInv ==
    ASSUME IInv, NEW c \in Clients, NEW ref \in Variables, SwitchClient(c, ref)
    PROVE  IInv'
<1>1. TypeInv'
  BY StateTypes DEF IInv, TypeInv, SwitchClient, files
<1>2. RotationInv'
  BY DEF IInv, TypeInv, RotationInv, NobodyIsCutOff, Stands, Static, SwitchClient, files
<1> QED BY <1>1, <1>2, AroundKeepsIInv DEF SwitchClient, files

LEMMA ConnectByOAuthKeepsIInv ==
    ASSUME IInv, NEW c \in Clients, ConnectByOAuth(c)
    PROVE  IInv'
<1>1. Resolved(cfg.auth.clientSecret, env) \in Secrets
  <2>1. SecretsResolve /\ ~ flags.stdio
    BY DEF IInv, CheckedInv, PathInv, Checked, ConnectByOAuth
  <2>2. cfg.auth.clientSecret \in Ref
    BY DEF IInv, TypeInv, Config, AuthConfig
  <2> QED BY <2>1, <2>2, ResolvesToASecret, MergedIsEnvironment
          DEF IInv, SecretsResolve, ConnectByOAuth
<1>2. TypeInv'
  BY <1>1, StateTypes DEF IInv, TypeInv, ConnectByOAuth, files
<1>3. RotationInv'
  BY DEF IInv, TypeInv, RotationInv, NobodyIsCutOff, Stands, Sealed, ConnectByOAuth, files
<1> QED BY <1>2, <1>3, AroundKeepsIInv DEF ConnectByOAuth, files

LEMMA MountKeepsIInv ==
    ASSUME IInv, NEW d \in RootDirs, Mount(d)
    PROVE  IInv'
<1>1. TypeInv'
  BY ServiceAssumption DEF IInv, TypeInv, Mount, files
<1>2. RotationInv'
  BY DEF IInv, RotationInv, NobodyIsCutOff, Stands, Mount, files
<1> QED BY <1>1, <1>2, AroundKeepsIInv DEF Mount, files

LEMMA NextKeepsIInv == IInv /\ [Next]_vars => IInv'
<1> SUFFICES ASSUME IInv, [Next]_vars PROVE IInv'
  OBVIOUS
<1>1. CASE Around
  BY <1>1, SetVariableKeepsIInv, AddRefKeepsIInv, DropRefKeepsIInv, ReconfigureKeepsIInv,
     RepairKeepsIInv, SwitchClientKeepsIInv, ConnectByOAuthKeepsIInv, MountKeepsIInv
     DEF Around
<1>2. CASE UNCHANGED vars
  <2>1. TypeInv'
    BY <1>2 DEF IInv, TypeInv, vars
  <2>2. RotationInv'
    BY <1>2 DEF IInv, RotationInv, NobodyIsCutOff, Stands, vars
  <2> QED BY <1>2, <2>1, <2>2, AroundKeepsIInv DEF vars
<1> QED BY <1>1, <1>2, ServerKeepsIInv DEF Next

LEMMA IInvAlways == Spec => []IInv
  BY InitIInv, NextKeepsIInv, PTL DEF Spec

---------------------------------------------------------------------------
(* The theorems *)

\* The type invariant of the process and of what surrounds it.
THEOREM TypeCorrect == Spec => []TypeOK
<1>1. ASSUME IInv PROVE TypeOK
  <2>1. phase \in {"build", "listen", "serving"} => Tokens \in Seq(Secrets)
    BY <1>1, TokensType DEF IInv, CheckedInv, Checked, SecretsResolve
  <2> QED BY <1>1, <2>1 DEF IInv, TypeInv, TypeOK
<1> QED BY <1>1, IInvAlways, PTL

\* What the checks of the configuration leave.
LEMMA Validated ==
    ASSUME NEW c, NEW tokens, NEW bearer, NEW then, Validate(c, tokens, bearer, then)
    PROVE  /\ c.server.tunnels # Tunnels
           /\ bearer => (tokens # <<>> \/ OAuthEnabled(c.auth)) /\ LongEnough(tokens)
           /\ \A i, j \in DOMAIN c.workspaces :
                  c.workspaces[i].name = c.workspaces[j].name => i = j
           /\ \E i \in DOMAIN c.workspaces : c.workspaces[i].name = Default
<1>1. c.server.tunnels # Tunnels
  BY Zenon DEF Validate
<1>2. bearer => (tokens # <<>> \/ OAuthEnabled(c.auth)) /\ LongEnough(tokens)
  BY Zenon DEF Validate
<1>3. \A i, j \in DOMAIN c.workspaces :
         c.workspaces[i].name = c.workspaces[j].name => i = j
  BY Zenon DEF Validate
<1>4. \E i \in DOMAIN c.workspaces : c.workspaces[i].name = Default
  BY Zenon DEF Validate, HasDefault
<1> QED BY <1>1, <1>2, <1>3, <1>4

\* What holds of a process that serves over HTTP.
LEMMA Serving ==
    ASSUME IInv, phase = "serving"
    PROVE  /\ cfg.auth \in AuthConfig /\ cfg.workspaces \in Seq(WorkspaceConfig)
           /\ cfg.server \in ServerConfig
           /\ ~ flags.stdio /\ SecretsResolve /\ RefsAgree(cfg.auth)
           /\ \E then \in SUBSET RootDirs : Validate(cfg, Tokens, TRUE, then)
           /\ Len(held) = Len(cfg.workspaces) /\ held \in Seq([name : Names, root : RootDirs])
           /\ \A i \in DOMAIN held :
                  held[i] = [name |-> cfg.workspaces[i].name, root |-> cfg.workspaces[i].root]
           /\ \A i, j \in DOMAIN cfg.workspaces :
                  cfg.workspaces[i].name = cfg.workspaces[j].name => i = j
<1>1. /\ cfg.auth \in AuthConfig /\ cfg.workspaces \in Seq(WorkspaceConfig)
      /\ cfg.server \in ServerConfig
  BY DEF IInv, TypeInv, Config
<1>2. ~ flags.stdio /\ SecretsResolve /\ RefsAgree(cfg.auth)
  BY DEF IInv, PathInv, CheckedInv, Checked, SecretsResolve, TokensResolve
<1>3. \E then \in SUBSET RootDirs : Validate(cfg, Tokens, TRUE, then)
  BY <1>2 DEF IInv, CheckedInv, Checked
<1>4. \A i, j \in DOMAIN cfg.workspaces :
          cfg.workspaces[i].name = cfg.workspaces[j].name => i = j
  BY <1>3, Validated, Zenon
<1> QED BY <1>1, <1>2, <1>3, <1>4 DEF IInv, HeldInv, TypeInv

\* The tokens that are compared are the secrets the references stand for.
LEMMA TokensStandForRefs ==
    ASSUME IInv, phase = "serving", NEW secret \in Secrets
    PROVE  (\E i \in DOMAIN Tokens : Tokens[i] = secret)
               <=> (\E ref \in Refs(cfg.auth) : Stands(ref, read) = secret)
<1>1. /\ DOMAIN Tokens = DOMAIN TokenRefs(cfg.auth)
      /\ \A i \in DOMAIN Tokens : Tokens[i] = Stands(TokenRefs(cfg.auth)[i], read)
  BY Serving, TokensType DEF IInv
<1>2. Stands(NoRef, read) = NoRef /\ NoRef \notin Secrets
  BY ConfigurationAssumption DEF Stands
<1> QED BY <1>1, <1>2, Serving, TokenRefsType

\* A rotation that follows the rule cuts nobody off: whatever the server has
\* read, and whenever it read it, a client's static token is among its tokens.
THEOREM RotationLocksNobodyOut == Spec => []ClientsStayIn
<1>1. ASSUME IInv PROVE ClientsStayIn
  <2> SUFFICES ASSUME phase = "serving", NEW c \in Clients, NEW i \in DOMAIN held,
                      client[c].kind = "static"
               PROVE  Answer([route |-> held[i].name, origin |-> NoOrigin,
                              credential |-> client[c]]) = "served"
    BY DEF ClientsStayIn
  <2>1. held[i].name \in Names /\ held[i].name # Healthz
    <3>1. held \in Seq([name : Names, root : RootDirs])
      BY <1>1 DEF IInv, TypeInv
    <3>2. held[i] \in [name : Names, root : RootDirs]
      BY <3>1, ElementType
    <3>3. Healthz \notin Names
      BY ServiceAssumption
    <3> QED BY <3>2, <3>3
  <2>2. client[c] \in Credential
    BY <1>1 DEF IInv, TypeInv
  <2>3. MatchesToken(client[c])
    BY <1>1, <2>2, TokensStandForRefs
       DEF IInv, RotationInv, NobodyIsCutOff, MatchesToken, Credential
  <2> QED BY <2>1, <2>3 DEF Answer, AllowsOrigin, Authorized
<1> QED BY <1>1, IInvAlways, PTL

\* A request gets in exactly with a configured name, no foreign Origin and one
\* of the configured credentials, and is served that workspace's directory.
THEOREM OnlyCredentialsAreServed == Spec => []OnlyCredentialsGetIn
<1>1. ASSUME IInv PROVE OnlyCredentialsGetIn
  <2> SUFFICES ASSUME phase = "serving", NEW name \in Names,
                      NEW origin \in Origins \cup {NoOrigin},
                      NEW credential \in Credential \cup {NoCredential}
               PROVE
        LET request == [route |-> name, origin |-> origin, credential |-> credential]
            homes == {i \in DOMAIN cfg.workspaces : cfg.workspaces[i].name = name}
            auth == cfg.auth
        IN /\ Answer(request) = "served" <=>
                /\ homes # {}
                /\ origin \in cfg.server.origins \cup {NoOrigin} \/ cfg.server.anyOrigin
                /\ \/ /\ credential.kind = "static" /\ credential.secret \notin Weak
                      /\ \E ref \in Refs(auth) : Stands(ref, read) = credential.secret
                   \/ /\ credential.kind = "sealed" /\ auth.clientID
                      /\ Stands(auth.clientSecret, read) = credential.secret
           /\ Answer(request) = "served" =>
                \A i \in homes : RootServed(request) = cfg.workspaces[i].root
    BY DEF OnlyCredentialsGetIn
  <2> DEFINE request == [route |-> name, origin |-> origin, credential |-> credential]
             homes == {i \in DOMAIN cfg.workspaces : cfg.workspaces[i].name = name}
             auth == cfg.auth
  <2>1. {i \in DOMAIN held : held[i].name = name} = homes
    BY <1>1, Serving
  <2>2. name # Healthz
    BY ServiceAssumption
  <2>3. AllowsOrigin(origin)
          <=> origin \in cfg.server.origins \cup {NoOrigin} \/ cfg.server.anyOrigin
    BY DEF AllowsOrigin
  <2>4. MatchesToken(credential)
          <=> /\ credential.kind = "static" /\ credential.secret \notin Weak
              /\ \E ref \in Refs(auth) : Stands(ref, read) = credential.secret
    <3>1. \A i \in DOMAIN Tokens : Tokens[i] \notin Weak
      BY <1>1, Serving, Validated, Zenon DEF LongEnough
    <3>2. credential.kind = "static" => credential.secret \in Secrets
      BY DEF Credential, NoCredential
    <3> QED BY <1>1, <3>1, <3>2, TokensStandForRefs DEF MatchesToken
  <2>5. Unseals(credential)
          <=> /\ credential.kind = "sealed" /\ auth.clientID
              /\ Stands(auth.clientSecret, read) = credential.secret
    <3>1. auth.clientSecret \in Ref /\ auth.clientID \in BOOLEAN
      BY <1>1, Serving DEF AuthConfig
    <3>2. credential.kind = "sealed" => credential.secret \in Secrets
      BY DEF Credential, NoCredential
    <3>3. Stands(NoRef, read) = NoRef /\ NoRef \notin Secrets
      BY ConfigurationAssumption DEF Stands
    <3>4. Resolved(auth.clientSecret, env) = Stands(auth.clientSecret, read)
      BY <3>1, StandsIsResolved
    <3> QED BY <3>1, <3>2, <3>3, <3>4 DEF Unseals, OAuthEnabled, SetRef
  <2>6. Answer(request) = "served"
          <=> homes # {} /\ AllowsOrigin(origin) /\ Authorized(credential)
    BY <2>1, <2>2 DEF Answer
  <2>7. ASSUME NEW i \in homes
        PROVE  RootServed(request) = cfg.workspaces[i].root
    <3>1. \A j \in DOMAIN held : held[j].name = name <=> j = i
      BY <1>1, <2>1, Serving
    <3>2. i \in DOMAIN held /\ held[i].root = cfg.workspaces[i].root
      BY <1>1, Serving
    <3> QED BY <3>1, <3>2 DEF RootServed
  <2> QED BY <2>3, <2>4, <2>5, <2>6, <2>7 DEF Authorized
<1> QED BY <1>1, IInvAlways, PTL

\* Distinct names are as many as the workspaces.
LEMMA NamesAreCounted ==
    ASSUME NEW list, NEW n \in Nat, DOMAIN list = 1 .. n,
           \A i, j \in 1 .. n : list[i].name = list[j].name => i = j
    PROVE  Cardinality({list[i].name : i \in DOMAIN list}) = n
<1> DEFINE names == {list[i].name : i \in 1 .. n}
           f == [i \in 1 .. n |-> list[i].name]
<1>1. f \in Bijection(1 .. n, names)
  BY DEF Bijection, Injection, Surjection, IsInjective
<1>2. ExistsBijection(1 .. n, names)
  BY <1>1 DEF ExistsBijection
<1>3. IsFiniteSet(1 .. n) /\ Cardinality(1 .. n) = n
  BY FS_Interval
<1> QED BY <1>2, <1>3, FS_Bijection

\* At most one of the two tunnels.
LEMMA OneTunnel ==
    ASSUME NEW S \in SUBSET Tunnels, S # Tunnels
    PROVE  Cardinality(S) <= 1
<1>1. S = {} \/ S = {"ngrok"} \/ S = {"zrok"}
  BY DEF Tunnels
<1>2. Cardinality({}) = 0 /\ Cardinality({"ngrok"}) = 1 /\ Cardinality({"zrok"}) = 1
  BY FS_EmptySet, FS_Singleton
<1> QED BY <1>1, <1>2

\* Nothing is served short of a workspace, under two names or none, behind two
\* tunnels, or without a credential to ask for; stdio serves the one asked for.
THEOREM OnlySoundIsServed == Spec => []ServesOnlySound
<1>1. ASSUME IInv, phase = "serving"
      PROVE
        /\ [i \in DOMAIN held |-> held[i].name] = [i \in DOMAIN cfg.workspaces |-> cfg.workspaces[i].name]
        /\ Cardinality({held[i].name : i \in DOMAIN held}) = Len(held)
        /\ \E i \in DOMAIN held : held[i].name = Default
        /\ Cardinality(cfg.server.tunnels) <= 1
        /\ cfg.server.tunnels # {} => Stands(cfg.server.tunnelToken, read) \in Secrets
        /\ \E ref \in Refs(cfg.auth) \cup (IF cfg.auth.clientID THEN {cfg.auth.clientSecret} ELSE {}) :
               Stands(ref, read) \in Secrets
        /\ RefsAgree(cfg.auth)
  <2> USE <1>1
  <2>1. PICK then \in SUBSET RootDirs : Validate(cfg, Tokens, TRUE, then)
    BY Serving
  <2>2. DOMAIN held = DOMAIN cfg.workspaces /\ DOMAIN held = 1 .. Len(held) /\ Len(held) \in Nat
    BY Serving
  <2>3. \A i \in DOMAIN held : held[i].name = cfg.workspaces[i].name
    BY Serving, <2>2
  <2>4. Cardinality({held[i].name : i \in DOMAIN held}) = Len(held)
    <3>1. \A i, j \in 1 .. Len(held) : held[i].name = held[j].name => i = j
      BY <2>2, <2>3, Serving
    <3> QED BY <2>2, <3>1, NamesAreCounted
  <2>5. \E i \in DOMAIN held : held[i].name = Default
    BY <2>1, <2>2, <2>3, Validated
  <2>6. Cardinality(cfg.server.tunnels) <= 1
    <3>1. cfg.server.tunnels \in SUBSET Tunnels
      BY Serving DEF ServerConfig
    <3>2. cfg.server.tunnels # Tunnels
      BY <2>1, Validated, Zenon
    <3> QED BY <3>1, <3>2, OneTunnel
  <2>7. cfg.server.tunnels # {} => Stands(cfg.server.tunnelToken, read) \in Secrets
    <3>1. cfg.server.tunnelToken \in Ref
      BY Serving DEF ServerConfig
    <3> QED BY <3>1, ResolvesToASecret, StandsIsResolved, MergedIsEnvironment
            DEF IInv, PathInv, TunnelTokenResolves
  <2>8. \E ref \in Refs(cfg.auth) \cup (IF cfg.auth.clientID THEN {cfg.auth.clientSecret} ELSE {}) :
               Stands(ref, read) \in Secrets
    <3>1. CASE OAuthEnabled(cfg.auth)
      <4>1. cfg.auth.clientSecret \in Ref
        BY Serving DEF AuthConfig
      <4>2. Stands(cfg.auth.clientSecret, read) \in Secrets
        BY <3>1, <4>1, Serving, ResolvesToASecret, StandsIsResolved, MergedIsEnvironment
           DEF IInv, SecretsResolve
      <4> QED BY <3>1, <4>2 DEF OAuthEnabled
    <3>2. CASE Tokens # <<>>
      <4>1. Tokens \in Seq(Secrets)
        BY Serving, TokensType DEF IInv
      <4>2. 1 \in DOMAIN Tokens /\ Tokens[1] \in Secrets
        BY <3>2, <4>1
      <4> QED BY <4>2, TokensStandForRefs
    <3>3. Tokens # <<>> \/ OAuthEnabled(cfg.auth)
      BY <2>1, Validated, Zenon
    <3> QED BY <3>1, <3>2, <3>3
  <2> QED BY <2>2, <2>3, <2>4, <2>5, <2>6, <2>7, <2>8, Serving
<1>2. ASSUME IInv, phase = "stdio"
      PROVE
        \E i \in DOMAIN cfg.workspaces :
            /\ Select(flags.workspace, held)
                   = {[name |-> cfg.workspaces[i].name, root |-> cfg.workspaces[i].root]}
            /\ flags.workspace = "" => Len(cfg.workspaces) = 1
            /\ flags.workspace # "" => cfg.workspaces[i].name = flags.workspace
  <2> USE <1>2
  <2>1. PICK then \in SUBSET RootDirs : Validate(cfg, Tokens, FALSE, then)
    BY DEF IInv, CheckedInv, PathInv, Checked
  <2>2. /\ held \in Seq([name : Names, root : RootDirs])
        /\ cfg.workspaces \in Seq(WorkspaceConfig)
        /\ Len(held) = Len(cfg.workspaces)
        /\ \A i \in DOMAIN held :
               held[i] = [name |-> cfg.workspaces[i].name, root |-> cfg.workspaces[i].root]
    BY DEF IInv, TypeInv, HeldInv, Config
  <2>3. DOMAIN held = DOMAIN cfg.workspaces
    BY <2>2
  <2>4. \A i, j \in DOMAIN held : held[i].name = held[j].name => i = j
    <3>1. \A i, j \in DOMAIN cfg.workspaces :
            cfg.workspaces[i].name = cfg.workspaces[j].name => i = j
      BY <2>1, Validated, Zenon
    <3>2. \A i \in DOMAIN held : held[i].name = cfg.workspaces[i].name
      BY <2>2
    <3> QED BY <2>3, <3>1, <3>2
  <2>5. PICK i \in DOMAIN held :
          IF flags.workspace = "" THEN Len(held) = 1 ELSE held[i].name = flags.workspace
    BY DEF IInv, PathInv, Select
  <2>6. \A j \in DOMAIN held :
          (IF flags.workspace = "" THEN Len(held) = 1 ELSE held[j].name = flags.workspace)
              <=> j = i
    <3>1. CASE flags.workspace = ""
      <4>1. Len(held) = 1
        BY <2>5, <3>1, Zenon
      <4>2. DOMAIN held = 1 .. Len(held)
        BY <2>2
      <4>3. DOMAIN held = {1} /\ i = 1
        BY <4>1, <4>2
      <4> QED BY <3>1, <4>1, <4>3
    <3>2. CASE flags.workspace # ""
      BY <2>4, <2>5, <3>2
    <3> QED BY <3>1, <3>2
  <2>7. Select(flags.workspace, held) = {held[i]}
    BY <2>6 DEF Select
  <2>8. held[i] = [name |-> cfg.workspaces[i].name, root |-> cfg.workspaces[i].root]
    BY <2>2
  <2>9. held[i].name = cfg.workspaces[i].name
    BY <2>8
  <2>10. flags.workspace = "" => Len(cfg.workspaces) = 1
    BY <2>2, <2>5
  <2>11. flags.workspace # "" => cfg.workspaces[i].name = flags.workspace
    BY <2>5, <2>9
  <2> QED BY <2>3, <2>7, <2>8, <2>10, <2>11
<1>3. ASSUME IInv PROVE ServesOnlySound
  BY <1>1, <1>2, <1>3 DEF ServesOnlySound
<1> QED BY <1>3, IInvAlways, PTL
=============================================================================
