--------------------------- MODULE Configuration ---------------------------
(***************************************************************************)
(* What the server makes of its two files and its environment:             *)
(* mcp/secrets.go and the checks of mcp/config.go.                         *)
(*                                                                         *)
(* A secret reference is the name of a variable, a secret written inline,  *)
(* or nothing.  Both files decode as they are written; how YAML and dotenv *)
(* are parsed is left to their libraries.                                  *)
(***************************************************************************)
EXTENDS Integers, Sequences, FiniteSets

CONSTANTS
    Variables, Secrets, \* names of variables, values that are not empty
    Weak,               \* secrets shorter than 32 bytes
    Empty, Unset, NoRef,
    Names, Default,     \* workspace names, "default"
    RootDirs, Origins   \* directories, values of an Origin header

ASSUME ConfigurationAssumption ==
    /\ Weak \subseteq Secrets /\ Default \in Names
    /\ Variables \cap Secrets = {}
    /\ Empty \notin Secrets /\ Unset \notin Secrets \cup {Empty}
    /\ NoRef \notin Variables \cup Secrets

Ref == Variables \cup Secrets \cup {NoRef}
Environment == [Variables -> Secrets \cup {Empty, Unset}]
Tunnels == {"ngrok", "zrok"}

WorkspaceConfig == [name : Names, root : RootDirs, globsAreValid : BOOLEAN, maxBytes : Int]
ServerConfig == [tunnels : SUBSET Tunnels, tunnelToken : Ref, port : Int,
                 origins : SUBSET Origins, anyOrigin : BOOLEAN]
AuthConfig == [bearerToken : Ref, bearerTokens : Seq(Ref), clientID : BOOLEAN,
               clientSecret : Ref]
Config == [server : ServerConfig, auth : AuthConfig, workspaces : Seq(WorkspaceConfig)]

SetRef(ref) == ref # NoRef

\* LoadEnv: a variable of the process environment hides the file's, even if it
\* is empty there.
Merged(dotenv, os) == [v \in Variables |-> IF os[v] # Unset THEN os[v] ELSE dotenv[v]]

\* Mutant: a variable that is set to nothing resolves to it.
ResolvesToEmpty(ref, env) == ref \in Secrets \/ (ref \in Variables /\ env[ref] # Unset)

\* SecretRef.Resolve: whether there is a value, and which.
Resolves(ref, env) == ref \in Secrets \/ (ref \in Variables /\ env[ref] \in Secrets)
Resolved(ref, env) == IF ref \in Variables THEN env[ref] ELSE ref

\* tokenRefs: one form or the other.
RefsAgree(auth) == ~ (SetRef(auth.bearerToken) /\ auth.bearerTokens # <<>>)
TokenRefs(auth) ==
    IF auth.bearerTokens # <<>> THEN auth.bearerTokens
    ELSE IF SetRef(auth.bearerToken) THEN <<auth.bearerToken>> ELSE <<>>

\* All that is written in either.
Refs(auth) == {auth.bearerToken} \cup {auth.bearerTokens[i] : i \in DOMAIN auth.bearerTokens}

\* ResolveBearerTokens: every one of them, or an error.
TokensResolve(auth, env) ==
    /\ RefsAgree(auth)
    /\ \A i \in DOMAIN TokenRefs(auth) : Resolves(TokenRefs(auth)[i], env)
BearerTokens(auth, env) ==
    [i \in DOMAIN TokenRefs(auth) |-> Resolved(TokenRefs(auth)[i], env)]

\* OAuthConfig.Enabled.
OAuthEnabled(auth) == auth.clientID /\ SetRef(auth.clientSecret)

\* Mutant: the last token alone is measured.
LastIsLongEnough(tokens) == tokens # <<>> => tokens[Len(tokens)] \notin Weak

\* At least 32 bytes each.
LongEnough(tokens) == \A i \in DOMAIN tokens : tokens[i] \notin Weak

\* Mutant: nothing asks for a workspace "default".
SomeWorkspace(workspaces) == workspaces # <<>>

HasDefault(workspaces) == \E i \in DOMAIN workspaces : workspaces[i].name = Default

IsPort(port) == port \in 1 .. 65535

\* Config.Validate; dirs are the directories there now.
Validate(c, tokens, requireBearer, dirs) ==
    /\ c.server.tunnels # Tunnels
    /\ requireBearer =>
        /\ c.server.tunnels = {} => IsPort(c.server.port)
        /\ tokens # <<>> \/ OAuthEnabled(c.auth)
        /\ LongEnough(tokens)
    /\ c.server.tunnels # {} => SetRef(c.server.tunnelToken)
    /\ c.workspaces # <<>>
    /\ \A i \in DOMAIN c.workspaces :
        /\ \A j \in DOMAIN c.workspaces :
               c.workspaces[i].name = c.workspaces[j].name => i = j
        /\ c.workspaces[i].root \in dirs
        /\ c.workspaces[i].globsAreValid
        /\ c.workspaces[i].maxBytes > 0
    /\ HasDefault(c.workspaces)
============================================================================
