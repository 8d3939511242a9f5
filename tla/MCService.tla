----------------------------- MODULE MCService -----------------------------
\* Two clients, two variables, two workspaces; the operator can get any part
\* of the configuration wrong.
EXTENDS Service, TLC

CONSTANTS A, B, s1, s2, short, Other, home, away, site, c1, c2

Symmetry == Permutations(Clients)

Space(n, d) == [name |-> n, root |-> d, globsAreValid |-> TRUE, maxBytes |-> 1]
Both == <<Space(Default, home), Space(Other, away)>>
Plain == [tunnels |-> {}, tunnelToken |-> NoRef, port |-> 80, origins |-> {site},
          anyOrigin |-> FALSE]

MCInitialConfigs ==
    { [server |-> Plain, workspaces |-> Both,
       auth |-> [bearerToken |-> A, bearerTokens |-> <<>>, clientID |-> FALSE,
                 clientSecret |-> NoRef]] }
MCInitialDotenv == (A :> s1) @@ (B :> Unset)
\* Nothing, the same token as the file, or a leftover that hides the file's B.
MCOsEnvironments ==
    { (A :> Unset) @@ (B :> Unset), (A :> s1) @@ (B :> Unset), (A :> Unset) @@ (B :> s2),
      (A :> Unset) @@ (B :> Empty) }

MCServers ==
    { [Plain EXCEPT !.tunnels = Tunnels, !.tunnelToken = s2],
      [Plain EXCEPT !.tunnels = {"zrok"}, !.tunnelToken = B, !.port = 0],
      [Plain EXCEPT !.tunnels = {"ngrok"}, !.tunnelToken = NoRef, !.anyOrigin = TRUE],
      [Plain EXCEPT !.port = 0], [Plain EXCEPT !.port = 65535, !.anyOrigin = TRUE] }
MCWorkspaceLists ==
    { <<>>, <<Space(Default, away)>>, <<Space(Other, away)>>,
      <<Space(Default, home), Space(Default, away)>>,
      <<[Space(Default, home) EXCEPT !.globsAreValid = FALSE]>>,
      <<[Space(Default, home) EXCEPT !.maxBytes = 0]>> }
MCOAuths == { [clientID |-> TRUE, clientSecret |-> s2], [clientID |-> TRUE, clientSecret |-> NoRef],
              [clientID |-> TRUE, clientSecret |-> B] }
============================================================================
