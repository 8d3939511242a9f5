------------------------------ MODULE Service ------------------------------
(***************************************************************************)
(* The life of the process: run (cmd/workspace-mcp/main.go) from its files *)
(* to its listener, Build (mcp/registry.go), BuildHandler with the Origin  *)
(* and bearer checks in front of each workspace (mcp/handler.go,           *)
(* mcp/origin.go, mcp/auth.go); and around it the operator who edits the   *)
(* files and rotates tokens as docs/design.md says, the clients, crashes   *)
(* and restarts, and workspace directories that come and go.               *)
(*                                                                         *)
(* The server reads its files once, one after the other, and never again.  *)
(* A request is a route, an Origin header and a credential; its answer     *)
(* depends on what was read at the start alone, so it is an operator.      *)
(***************************************************************************)
EXTENDS Configuration

CONSTANTS
    Clients,
    InitialConfigs, OsEnvironments, \* what a history may begin with
    InitialDotenv, InitialToken,
    Servers, WorkspaceLists, OAuths, \* what the operator may write elsewhere
    MaxEdits                         \* bound on that

NoOrigin == "no origin"
Healthz == "healthz"
Static(s) == [kind |-> "static", secret |-> s]
Sealed(s) == [kind |-> "sealed", secret |-> s]   \* an access token under the client secret s
Credential == [kind : {"static", "sealed"}, secret : Secrets]
NoCredential == [kind |-> "none", secret |-> Empty]
Http == [stdio |-> FALSE, workspace |-> ""]
Flags == {Http} \cup [stdio : {TRUE}, workspace : Names \cup {""}]

ASSUME ServiceAssumption ==
    /\ InitialConfigs \subseteq Config /\ OsEnvironments \subseteq Environment
    /\ InitialDotenv \in Environment /\ InitialToken \in Secrets
    /\ Servers \subseteq ServerConfig /\ WorkspaceLists \subseteq Seq(WorkspaceConfig)
    /\ OAuths \subseteq [clientID : BOOLEAN, clientSecret : Ref]
    /\ InitialConfigs # {} /\ MaxEdits \in Nat /\ NoOrigin \notin Origins /\ Healthz \notin Names

\* The clients begin with a token of the configuration.
ASSUME RotationAssumption ==
    \A c \in InitialConfigs, os \in OsEnvironments :
        \E ref \in Refs(c.auth) : Resolved(ref, Merged(InitialDotenv, os)) = InitialToken

VARIABLES
    config, dotenv, \* the files as they are now
    environ,        \* the environment the process is started with
    broken,         \* of the two files, the ones that do not parse now
    dirs,           \* the workspace directories there are now
    edits,
    outdated,       \* a file was edited since the server began to read them
    client,         \* the credential each client presents
    phase,          \* how far run has come
    flags,          \* the command line
    cfg, read,      \* the configuration and the dotenv file as it read them
    held            \* the opened roots, in the order of the configuration

files == <<config, dotenv, environ, broken>>
vars == <<config, dotenv, environ, broken, dirs, edits, outdated, client, phase, flags,
          cfg, read, held>>

Phases == {"down", "config", "env", "build", "listen", "serving", "stdio"}

\* What cfg is while nothing is read.
NothingRead == CHOOSE c \in InitialConfigs : TRUE

Init ==
    /\ config \in InitialConfigs /\ dotenv = InitialDotenv /\ environ \in OsEnvironments
    /\ broken = {} /\ dirs = RootDirs /\ edits = 0 /\ outdated = TRUE
    /\ client = [c \in Clients |-> Static(InitialToken)]
    /\ phase = "down" /\ flags = Http /\ cfg = NothingRead /\ read = InitialDotenv
    /\ held = <<>>

---------------------------------------------------------------------------
(* Starting up *)

env == Merged(read, environ)
Tokens == IF flags.stdio THEN <<>> ELSE BearerTokens(cfg.auth, env)

\* The process is gone, and the roots it held with it.
Down ==
    /\ phase' = "down" /\ held' = <<>>
    /\ flags' = Http /\ cfg' = NothingRead /\ read' = InitialDotenv

\* LoadConfig; a file that does not parse ends run at once.
Start(f) ==
    /\ phase = "down"
    /\ "config" \notin broken
    /\ phase' = "config" /\ flags' = f /\ cfg' = config
    /\ outdated' = FALSE
    /\ UNCHANGED <<files, dirs, edits, client, read, held>>

LoadEnv ==
    /\ phase = "config"
    /\ IF "dotenv" \in broken THEN Down
       ELSE phase' = "env" /\ read' = dotenv /\ UNCHANGED <<flags, cfg, held>>
    /\ UNCHANGED <<files, dirs, edits, outdated, client>>

\* The secrets the transport needs, then the checks.
SecretsResolve ==
    flags.stdio \/ /\ TokensResolve(cfg.auth, env)
                   /\ OAuthEnabled(cfg.auth) => Resolves(cfg.auth.clientSecret, env)

Check ==
    /\ phase = "env"
    /\ IF SecretsResolve /\ Validate(cfg, Tokens, ~ flags.stdio, dirs)
       THEN phase' = "build" /\ UNCHANGED <<flags, cfg, read, held>>
       ELSE Down
    /\ UNCHANGED <<files, dirs, edits, outdated, client>>

\* Build: open the next root; a failure closes the others and ends run.
BuildNext ==
    /\ phase = "build" /\ Len(held) < Len(cfg.workspaces)
    /\ LET w == cfg.workspaces[Len(held) + 1]
       IN IF w.root \in dirs
          THEN /\ held' = Append(held, [name |-> w.name, root |-> w.root])
               /\ UNCHANGED <<phase, flags, cfg, read>>
          ELSE Down
    /\ UNCHANGED <<files, dirs, edits, outdated, client>>

\* selectStdioWorkspace: the one named, or the only one.
Select(name, list) ==
    {list[i] : i \in {j \in DOMAIN list :
        IF name = "" THEN Len(list) = 1 ELSE list[j].name = name}}

\* All roots are open.
Built ==
    /\ phase = "build" /\ Len(held) = Len(cfg.workspaces)
    /\ IF ~ flags.stdio THEN phase' = "listen" /\ UNCHANGED <<flags, cfg, read, held>>
       ELSE IF Select(flags.workspace, held) = {} THEN Down
       ELSE phase' = "stdio" /\ UNCHANGED <<flags, cfg, read, held>>
    /\ UNCHANGED <<files, dirs, edits, outdated, client>>

\* serveZrok and serveNgrok resolve their token only now ...
TunnelTokenResolves == cfg.server.tunnels # {} => Resolves(cfg.server.tunnelToken, env)

\* ... and any listener may fail.
Listen ==
    /\ phase = "listen"
    /\ \/ /\ TunnelTokenResolves
          /\ phase' = "serving" /\ UNCHANGED <<flags, cfg, read, held>>
       \/ Down
    /\ UNCHANGED <<files, dirs, edits, outdated, client>>

Stop ==
    /\ phase # "down"
    /\ Down
    /\ UNCHANGED <<files, dirs, edits, outdated, client>>

Server == (\E f \in Flags : Start(f)) \/ LoadEnv \/ Check \/ BuildNext \/ Built \/ Listen \/ Stop

---------------------------------------------------------------------------
(* A request to the running server *)

\* Mutant: the first token alone is compared.
MatchesFirst(credential) ==
    credential.kind = "static" /\ Tokens # <<>> /\ credential.secret = Tokens[1]

\* Bearer: any of the tokens.  extractBearer trims what the header carries, so
\* secrets here are ones without white space around them: a configured token
\* that has some is presented by nobody.
MatchesToken(credential) ==
    credential.kind = "static" /\ \E i \in DOMAIN Tokens : Tokens[i] = credential.secret

\* CheckToken, when OAuth is on: what the same client secret sealed.
Unseals(credential) ==
    /\ OAuthEnabled(cfg.auth)
    /\ credential.kind = "sealed"
    /\ credential.secret = Resolved(cfg.auth.clientSecret, env)

Authorized(credential) == MatchesToken(credential) \/ Unseals(credential)

\* OriginCheck: no header passes, and so does a listed one.
AllowsOrigin(origin) ==
    origin = NoOrigin \/ cfg.server.anyOrigin \/ origin \in cfg.server.origins

\* The mux: the open route, a workspace's behind its two checks, or 404.
Answer(request) ==
    LET routes == {i \in DOMAIN held : held[i].name = request.route}
    IN IF request.route = Healthz THEN "ok"
       ELSE IF routes = {} THEN "404"
       ELSE IF ~ AllowsOrigin(request.origin) THEN "403"
       ELSE IF ~ Authorized(request.credential) THEN "401" ELSE "served"

RootServed(request) == held[CHOOSE i \in DOMAIN held : held[i].name = request.route].root

---------------------------------------------------------------------------
(* The operator, the clients, the directories *)

\* What a variable, or a reference, stands for in the files as they are: the
\* process environment overrides dotenv.
Stands(ref, file) ==
    IF ref \notin Variables THEN ref
    ELSE IF environ[ref] # Unset THEN environ[ref] ELSE file[ref]

\* The rule of a rotation: no token is dropped that a client still presents.
NobodyIsCutOff(auth, file) ==
    \A c \in Clients : client[c].kind = "static" =>
        \E ref \in Refs(auth) : Stands(ref, file) = client[c].secret

Edit == outdated' = TRUE /\ UNCHANGED <<environ, dirs, client, phase, flags, cfg, read, held>>

\* A variable is given a value while neither the configuration nor a process
\* that runs refers to it: the two files are not read at one moment.
SetVariable(v, value) ==
    /\ value # dotenv[v] /\ environ[v] = Unset
    /\ v \notin Refs(config.auth) /\ (phase # "down" => v \notin Refs(cfg.auth))
    /\ dotenv' = [dotenv EXCEPT ![v] = value]
    /\ Edit /\ UNCHANGED <<config, broken, edits>>

\* Add a reference: to the list, or by turning the single form into a list;
\* a slip leaves both forms in the file.
AddRef(v) ==
    /\ v \notin Refs(config.auth)
    /\ \E refs \in {<<v>> \o TokenRefs(config.auth), TokenRefs(config.auth) \o <<v>>, <<v>>} :
         config' = [config EXCEPT
             !.auth.bearerTokens = refs,
             !.auth.bearerToken = IF refs = <<v>> THEN @ ELSE NoRef]
    /\ NobodyIsCutOff(config'.auth, dotenv)
    /\ Edit /\ UNCHANGED <<dotenv, broken, edits>>

\* Drop one: of the list, or the single form that should be gone.
DropRef(v) ==
    /\ \/ /\ config.auth.bearerToken = v
          /\ config' = [config EXCEPT !.auth.bearerToken = NoRef]
       \/ \E i \in DOMAIN config.auth.bearerTokens :
            /\ config.auth.bearerTokens[i] = v
            /\ config' = [config EXCEPT
                  !.auth.bearerTokens = SubSeq(@, 1, i - 1) \o SubSeq(@, i + 1, Len(@))]
    /\ NobodyIsCutOff(config'.auth, dotenv)
    /\ Edit /\ UNCHANGED <<dotenv, broken, edits>>

\* Any other part of the configuration, for better or worse.
Reconfigure ==
    /\ edits < MaxEdits
    /\ edits' = edits + 1
    /\ \/ \E s \in Servers : config' = [config EXCEPT !.server = s] /\ UNCHANGED broken
       \/ \E w \in WorkspaceLists : config' = [config EXCEPT !.workspaces = w] /\ UNCHANGED broken
       \/ \E o \in OAuths :
            /\ config' = [config EXCEPT !.auth.clientID = o.clientID,
                                        !.auth.clientSecret = o.clientSecret]
            /\ UNCHANGED broken
       \/ \E file \in {"config", "dotenv"} : broken' = broken \cup {file} /\ UNCHANGED config
    /\ Edit /\ UNCHANGED dotenv

Repair ==
    /\ broken # {}
    /\ broken' = {}
    /\ Edit /\ UNCHANGED <<config, dotenv, edits>>

\* A client is switched over to a token of the files, after a restart since
\* they were last edited.
SwitchClient(c, ref) ==
    /\ phase = "serving" /\ ~ outdated
    /\ ref \in Refs(config.auth) /\ Stands(ref, dotenv) \in Secrets
    /\ client' = [client EXCEPT ![c] = Static(Stands(ref, dotenv))]
    /\ UNCHANGED <<files, dirs, edits, outdated, phase, flags, cfg, read, held>>

\* A client goes through the OAuth flow instead.
ConnectByOAuth(c) ==
    /\ phase = "serving" /\ OAuthEnabled(cfg.auth)
    /\ client' = [client EXCEPT ![c] = Sealed(Resolved(cfg.auth.clientSecret, env))]
    /\ UNCHANGED <<files, dirs, edits, outdated, phase, flags, cfg, read, held>>

\* A directory is unmounted, and mounted again.
Mount(d) ==
    /\ \/ d \in dirs /\ edits < MaxEdits /\ edits' = edits + 1 /\ dirs' = dirs \ {d}
       \/ d \notin dirs /\ dirs' = dirs \cup {d} /\ UNCHANGED edits
    /\ UNCHANGED <<files, outdated, client, phase, flags, cfg, read, held>>

Around ==
    \/ \E v \in Variables :
        \/ \E value \in Secrets \cup {Unset} : SetVariable(v, value)
        \/ AddRef(v) \/ DropRef(v)
    \/ Reconfigure \/ Repair
    \/ \E c \in Clients : (\E ref \in Variables : SwitchClient(c, ref)) \/ ConnectByOAuth(c)
    \/ \E d \in RootDirs : Mount(d)

Next == Server \/ Around

Spec == Init /\ [][Next]_vars

---------------------------------------------------------------------------
(* Properties *)

\* Types of the state.
TypeOK ==
    /\ config \in Config /\ cfg \in Config
    /\ dotenv \in Environment /\ environ \in Environment /\ read \in Environment
    /\ broken \subseteq {"config", "dotenv"} /\ dirs \subseteq RootDirs
    /\ edits \in 0 .. MaxEdits /\ outdated \in BOOLEAN
    /\ client \in [Clients -> Credential]
    /\ phase \in Phases /\ flags \in Flags
    /\ held \in Seq([name : Names, root : RootDirs])
    /\ phase \in {"build", "listen", "serving"} => Tokens \in Seq(Secrets)

\* Rotating as documented (add the new token, restart, switch the clients, drop
\* the old) cuts nobody off: whatever the order of the tokens, whenever the
\* server crashes and starts again, in the middle of an edit too, a client's
\* static token is never answered with 401.
ClientsStayIn ==
    phase = "serving" =>
        \A c \in Clients, i \in DOMAIN held :
            client[c].kind = "static" =>
                Answer([route |-> held[i].name, origin |-> NoOrigin,
                        credential |-> client[c]]) = "served"

\* A request is served exactly if it names a configured workspace, has no
\* foreign Origin, and carries a token that the configuration stands for (the
\* environment before the file), of enough bytes, or one sealed with the client
\* secret of an OAuth that is configured in full; and what it is served is that
\* workspace's directory.
OnlyCredentialsGetIn ==
    phase = "serving" =>
        \A name \in Names, origin \in Origins \cup {NoOrigin},
           credential \in Credential \cup {NoCredential} :
            LET request == [route |-> name, origin |-> origin, credential |-> credential]
                homes == {i \in DOMAIN cfg.workspaces : cfg.workspaces[i].name = name}
                auth == cfg.auth
            IN /\ Answer(request) = "served" <=>
                    /\ homes # {}
                    /\ origin \in cfg.server.origins \cup {NoOrigin} \/ cfg.server.anyOrigin
                    /\ \/ /\ credential.kind = "static" /\ credential.secret \notin Weak
                          /\ \E ref \in Refs(auth) : Stands(ref, read) = credential.secret
                       \/ /\ credential.kind = "sealed" /\ auth.clientID
                          /\ Stands(auth.clientSecret, read) = credential.secret
               /\ Answer(request) = "served" =>
                    \A i \in homes : RootServed(request) = cfg.workspaces[i].root

\* A server that serves holds the directory of every workspace, "default" among
\* them, under one name each, behind at most one tunnel whose token it has and
\* with some credential to ask for; over stdio it serves one workspace, the one
\* asked for, and never picks one of several.
ServesOnlySound ==
    /\ phase = "serving" =>
        /\ [i \in DOMAIN held |-> held[i].name] = [i \in DOMAIN cfg.workspaces |-> cfg.workspaces[i].name]
        /\ Cardinality({held[i].name : i \in DOMAIN held}) = Len(held)
        /\ \E i \in DOMAIN held : held[i].name = Default
        /\ Cardinality(cfg.server.tunnels) <= 1
        /\ cfg.server.tunnels # {} => Stands(cfg.server.tunnelToken, read) \in Secrets
        /\ \E ref \in Refs(cfg.auth) \cup (IF cfg.auth.clientID THEN {cfg.auth.clientSecret} ELSE {}) :
               Stands(ref, read) \in Secrets
        /\ RefsAgree(cfg.auth)
    /\ phase = "stdio" =>
        \E i \in DOMAIN cfg.workspaces :
            /\ Select(flags.workspace, held)
                   = {[name |-> cfg.workspaces[i].name, root |-> cfg.workspaces[i].root]}
            /\ flags.workspace = "" => Len(cfg.workspaces) = 1
            /\ flags.workspace # "" => cfg.workspaces[i].name = flags.workspace
============================================================================
