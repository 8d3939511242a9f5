------------------------------- MODULE Stdio -------------------------------
(***************************************************************************)
(* One workspace served over a pair of pipes: the start-up look of Build   *)
(* (mcp/registry.go), the loop of serveStdioRW                             *)
(* (cmd/workspace-mcp/main.go), the dispatch of mcp/server.go and the      *)
(* workspace_info tool (mcp/tools.go), while others edit the directory.    *)
(*                                                                         *)
(* A look at the directory takes several steps, with edits in between: the *)
(* entries of the root, then its ignore file, then one file after another. *)
(* A line is its kind and whether its newline was written; its place in    *)
(* sent is its id.  The answers of the other tools are modelled elsewhere. *)
(***************************************************************************)
EXTENDS Orientation, Sequences

CONSTANTS
    Workspaces,     \* the configurations a run may be started with
    Trees,          \* the directories it may find
    Texts, Ignores, \* what others may write into a file, the root's ignore file
    Kinds,          \* the kinds of lines the client writes
    InCap, OutCap,  \* bound: lines a pipe, with its buffers, holds
    MaxLines, MaxEdits  \* bounds: lines of the client, edits by others

Silent == {"notifications/initialized", "blank"}
LineKinds == Silent \cup {"initialize", "ping", "tools/list", "workspace_info", "unknown tool"}

Workspace == [policy : Policy, configured : Sections \cup {NoProse}, writable : BOOLEAN]
Tree == [present : SUBSET Paths, text : [Files -> Text], patterns : [Dirs -> IgnoreFile]]

ASSUME StdioAssumption ==
    /\ Workspaces \subseteq Workspace /\ Trees \subseteq Tree
    /\ Texts \subseteq Text /\ Ignores \subseteq IgnoreFile /\ Kinds \subseteq LineKinds
    /\ InCap \in Nat \ {0} /\ OutCap \in Nat \ {0} /\ MaxLines \in Nat /\ MaxEdits \in Nat

VARIABLES
    workspace,  \* the configuration of the workspace
    tree,       \* the tree the os.Root holds, and the ignore file at its path
    inPlace,    \* the directory at the path is the one the os.Root holds
    edits,      \* edits so far
    touched,    \* an edit since the look under way began
    stage,      \* where the server is
    entries, files, opened, desc,   \* the look under way
    snapshot,   \* Workspace.WellKnownFiles and Description
    reply,      \* of the request under way, once known
    sent,       \* the lines the client wrote
    taken,      \* how many of them the server has read
    input,      \* the server's stdin
    toClient,   \* ids of the replies in the pipe
    listening,  \* the client has not closed the end it reads from
    got         \* ids of the replies the client read

disk == <<workspace, tree, inPlace, edits>>
look == <<entries, files, opened, desc>>
LookIsOver == entries' = {} /\ files' = <<>> /\ opened' = 0 /\ desc' = NoProse
pipes == <<sent, input, toClient, listening, got>>
vars == <<workspace, tree, inPlace, edits, touched, stage, entries, files, opened, desc,
          snapshot, reply, sent, taken, input, toClient, listening, got>>

Starting == taken = 0
Over == stage \in {"exited", "failed"}
Kind == sent[taken].kind

\* What renderInstructions is given.
Told(names, description) ==
    [files |-> names, description |-> description, writable |-> workspace.writable]
NothingTold == [files |-> <<>>, description |-> NoProse, writable |-> FALSE]
Reply == [error : BOOLEAN, editing : BOOLEAN, told : [files : Seq(Files),
          description : Sections \cup {NoProse}, writable : BOOLEAN],
          preview : Seq([path : Files, text : Text, truncated : BOOLEAN, totalLines : Nat])]
Empty == [error |-> FALSE, editing |-> FALSE, told |-> NothingTold, preview |-> <<>>]

Init ==
    /\ workspace \in Workspaces /\ tree \in Trees /\ inPlace = TRUE
    /\ edits = 0 /\ touched = FALSE
    /\ stage = "scan" /\ entries = {} /\ files = <<>> /\ opened = 0 /\ desc = NoProse
    /\ snapshot = NothingTold /\ reply = Empty
    /\ sent = <<>> /\ taken = 0 /\ input = "open"
    /\ toClient = <<>> /\ listening = TRUE /\ got = <<>>

---------------------------------------------------------------------------
(* The look: Build's at the start, workspace_info's at each call *)

\* fs.ReadDir of the root.
Scan ==
    /\ stage = "scan"
    /\ entries' = Entries(tree.present)
    /\ stage' = "list"
    /\ UNCHANGED <<disk, touched, files, opened, desc, snapshot, reply, taken, pipes>>

\* Mutant: a description from the configuration is kept at the start only.
DescriptionOnce == Starting /\ workspace.configured # NoProse

\* The description the configuration gives is never derived again.
HasConfigDescription == workspace.configured # NoProse

\* The Lister reads the root's ignore file by its path; the files follow.
List ==
    /\ stage = "list"
    /\ files' = DetectOrientation(workspace.policy, tree.patterns, entries)
    /\ UNCHANGED <<entries, opened>>
    /\ IF HasConfigDescription
       THEN desc' = workspace.configured /\ stage' = "described"
       ELSE desc' = NoProse /\ stage' = "describe"
    /\ UNCHANGED <<disk, touched, snapshot, reply, taken, pipes>>

\* deriveDescription, one file a step: the first with prose decides.
Describe ==
    /\ stage = "describe"
    /\ IF opened = Len(files) THEN stage' = "described" /\ UNCHANGED <<opened, desc>>
       ELSE LET f == files[opened + 1]
                d == IF Opens(workspace.policy, tree.present, f) THEN Section(tree.text[f])
                                                                 ELSE NoProse
            IN /\ desc' = d
               /\ opened' = opened + 1
               /\ stage' = IF d # NoProse THEN "described" ELSE "describe"
    /\ UNCHANGED <<disk, touched, entries, files, snapshot, reply, taken, pipes>>

\* Build is done: what initialize will say from now on.
KeepSnapshot ==
    /\ stage = "described" /\ Starting
    /\ snapshot' = Told(files, desc)
    /\ stage' = "read"
    /\ LookIsOver
    /\ UNCHANGED <<disk, touched, reply, taken, pipes>>

\* workspace_info: the preview of the foremost file, and the answer.
Preview ==
    /\ stage = "described" /\ ~ Starting
    /\ reply' = [Empty EXCEPT
           !.told = Told(files, desc),
           !.preview = IF files # <<>> /\ Opens(workspace.policy, tree.present, files[1])
                       THEN PreviewOf(files[1], tree.text[files[1]]) ELSE <<>>]
    /\ stage' = "write"
    /\ LookIsOver
    /\ UNCHANGED <<disk, touched, snapshot, taken, pipes>>

---------------------------------------------------------------------------
(* The loop *)

\* Mutant: the notification is answered like a request.
AnswersAll(kind) == kind # "blank"

\* dispatchStdio returns bytes to write: a notification is not answered, a
\* blank line not even dispatched.
Answered(kind) == kind \notin Silent

\* Initialize, ToolsList, Ping, ToolsCall of an unknown tool.
Handled(kind) ==
    [Empty EXCEPT !.error = kind = "unknown tool",
                  !.editing = kind = "tools/list" /\ workspace.writable,
                  !.told = IF kind = "initialize" THEN snapshot ELSE NothingTold]

\* ReadBytes returns a line: whole, or what there is when the input has ended.
Readable(line) == line.ended \/ input # "open"

ReadLine ==
    /\ stage = "read" /\ taken < Len(sent) /\ Readable(sent[taken + 1])
    /\ taken' = taken + 1
    /\ LET kind == sent[taken + 1].kind
       IN IF ~ Answered(kind) THEN UNCHANGED <<stage, reply, touched>>
          ELSE IF kind = "workspace_info"
          THEN stage' = "scan" /\ touched' = FALSE /\ UNCHANGED reply
          ELSE stage' = "write" /\ reply' = Handled(kind) /\ UNCHANGED touched
    /\ UNCHANGED <<disk, look, snapshot, pipes>>

\* Mutant: at the end of the input the loop goes on.
KeepReading == input = "broken"

\* ReadBytes returns an error and nothing more: the end of the input once all
\* is read, or a failure at any time.
InputIsOver == (input = "closed" /\ taken = Len(sent)) \/ input = "broken"

StopReading ==
    /\ stage = "read" /\ InputIsOver
    /\ stage' = IF input = "closed" THEN "exited" ELSE "failed"
    /\ UNCHANGED <<disk, touched, look, snapshot, reply, taken, pipes>>

\* Write and Flush; the server waits while the pipe is full.
WriteReply ==
    /\ stage = "write" /\ listening /\ Len(toClient) < OutCap
    /\ toClient' = Append(toClient, taken)
    /\ stage' = "read"
    /\ reply' = Empty
    /\ UNCHANGED <<disk, touched, look, snapshot, taken, sent, input, listening, got>>

WriteFails ==
    /\ stage = "write" /\ ~ listening
    /\ stage' = "failed"
    /\ UNCHANGED <<disk, touched, look, snapshot, reply, taken, pipes>>

Server == Scan \/ List \/ Describe \/ KeepSnapshot \/ Preview
          \/ ReadLine \/ StopReading \/ WriteReply \/ WriteFails

---------------------------------------------------------------------------
(* The client, and whoever edits the directory *)

\* Once the server is gone the pipes have no other end.
Send(kind, ended) ==
    /\ ~ Over
    /\ input = "open" /\ Len(sent) < MaxLines /\ Len(sent) - taken < InCap
    /\ sent # <<>> => sent[Len(sent)].ended
    /\ sent' = Append(sent, [kind |-> kind, ended |-> ended])
    /\ UNCHANGED <<disk, touched, stage, look, snapshot, reply, taken, input, toClient,
                   listening, got>>

EndInput(how) ==
    /\ ~ Over /\ input = "open"
    /\ input' = how
    /\ UNCHANGED <<disk, touched, stage, look, snapshot, reply, taken, sent, toClient,
                   listening, got>>

Receive ==
    /\ toClient # <<>> /\ listening
    /\ got' = Append(got, Head(toClient))
    /\ toClient' = Tail(toClient)
    /\ UNCHANGED <<disk, touched, stage, look, snapshot, reply, taken, sent, input, listening>>

StopListening ==
    /\ ~ Over /\ listening
    /\ listening' = FALSE
    /\ UNCHANGED <<disk, touched, stage, look, snapshot, reply, taken, sent, input, toClient, got>>

Client ==
    \/ \E kind \in Kinds, ended \in BOOLEAN : Send(kind, ended)
    \/ \E how \in {"closed", "broken"} : EndInput(how)
    \/ Receive
    \/ StopListening

Edit ==
    /\ ~ Over /\ edits < MaxEdits
    /\ edits' = edits + 1
    /\ touched' = TRUE
    /\ UNCHANGED <<workspace, stage, look, snapshot, reply, taken, pipes>>

Rewrite(f, t) ==
    /\ Edit /\ inPlace
    /\ tree' = [tree EXCEPT !.present = @ \cup {f}, !.text[f] = t]
    /\ UNCHANGED inPlace

Remove(f) ==
    /\ Edit /\ inPlace
    /\ tree' = [tree EXCEPT !.present = @ \ {f}]
    /\ UNCHANGED inPlace

EditIgnore(i) ==
    /\ Edit
    /\ tree' = [tree EXCEPT !.patterns[Root] = i]
    /\ UNCHANGED inPlace

\* The directory is moved away and another takes its path: the os.Root keeps
\* the first, the ignore file is the other's.
ReplaceRoot(i) ==
    /\ Edit /\ inPlace
    /\ inPlace' = FALSE
    /\ tree' = [tree EXCEPT !.patterns[Root] = i]

Others ==
    \/ \E f \in Files : (\E t \in Texts : Rewrite(f, t)) \/ Remove(f)
    \/ \E i \in Ignores : EditIgnore(i) \/ ReplaceRoot(i)

Next == Server \/ Client \/ Others

\* The server is one goroutine that runs while it can; the client goes on
\* reading for as long as it listens.
Spec == Init /\ [][Next]_vars /\ WF_vars(Server) /\ WF_vars(Receive)

---------------------------------------------------------------------------
(* Properties *)

\* Types of the state.
TypeOK ==
    /\ workspace \in Workspace /\ tree \in Tree /\ inPlace \in BOOLEAN
    /\ edits \in 0 .. MaxEdits /\ touched \in BOOLEAN
    /\ stage \in {"scan", "list", "describe", "described", "read", "write", "exited", "failed"}
    /\ entries \subseteq Paths
    /\ files \in Seq(Files) /\ Len(files) <= MaxWellKnown /\ opened \in 0 .. Len(files)
    /\ desc \in Sections \cup {NoProse}
    /\ reply \in Reply /\ snapshot \in [files : Seq(Files), description : Sections \cup {NoProse},
                                        writable : BOOLEAN]
    /\ sent \in Seq([kind : Kinds, ended : BOOLEAN]) /\ Len(sent) <= MaxLines
    /\ taken \in 0 .. Len(sent) /\ input \in {"open", "closed", "broken"}
    /\ Len(toClient) <= OutCap /\ listening \in BOOLEAN
    /\ toClient \in Seq(1 .. MaxLines) /\ got \in Seq(1 .. MaxLines)

\* The ids of the answers, in the order in which they were made.
Answers ==
    got \o toClient \o IF ~ Starting /\ ~ Over /\ stage # "read" THEN <<taken>> ELSE <<>>

\* Every request read is answered once, in the order of the lines, a
\* notification never; and a server that stops at the end of its input has
\* answered all of them, a last line cut off before its newline included.
AnswersInOrder ==
    /\ stage # "failed" =>
        /\ {Answers[i] : i \in DOMAIN Answers} = {i \in 1 .. taken : sent[i].kind \notin Silent}
        /\ \A i, j \in DOMAIN Answers : i < j => Answers[i] < Answers[j]
    /\ stage = "exited" => taken = Len(sent)

\* A client that keeps listening gets the answer to each line it ended, and the
\* server stops once the input is over, however full the pipes were.
EveryRequestIsAnswered ==
    /\ \A i \in 1 .. MaxLines :
         (Len(sent) >= i /\ sent[i].ended /\ sent[i].kind \notin Silent)
             ~> (\E j \in DOMAIN got : got[j] = i) \/ ~ listening \/ input = "broken"
    /\ (input # "open") ~> Over

\* A file that workspace_info ought to name: a regular file at the root with a
\* known stem that the rules and the root's ignore file let through.
Orients(f) ==
    LET p == workspace.policy i == tree.patterns[Root]
    IN /\ f \in tree.present /\ Above[f] = {Root} /\ StemRank[f] # 0
       /\ f \notin p.block /\ (f \in DotPaths => f \in p.allow)
       /\ p.anyAllow => f \in p.allow
       /\ p.gitignore => f \notin i.hide

\* workspace_info never names, describes or shows a file the rules refuse,
\* whatever others do meanwhile.  If nobody touched the directory during the
\* call, it names the right files in the right order and at most so many, its
\* description is the configured one or else the first that one of them has
\* within the bytes looked at, and it shows the foremost unless that is binary
\* as far as it looks.
InfoTellsWhatIsThere ==
    stage = "write" /\ Kind = "workspace_info" =>
        LET told == reply.told.files
            named == {told[i] : i \in DOMAIN told}
            prose == {i \in DOMAIN told :
                        /\ tree.text[told[i]].section # NoProse
                        /\ tree.text[told[i]].nulAt \notin 1 .. DescriptionWindow}
        IN /\ \A f \in named : f \notin workspace.policy.block
           /\ \A i \in DOMAIN reply.preview : reply.preview[i].path \in named
           /\ ~ touched =>
                /\ \A f \in named : Orients(f)
                /\ \A f \in Files : Orients(f) /\ f \notin named =>
                       Len(told) = MaxWellKnown /\ \A g \in named : Before(g, f)
                /\ \A i, j \in DOMAIN told : i < j => Before(told[i], told[j])
                /\ reply.told.description =
                       IF workspace.configured # NoProse THEN workspace.configured
                       ELSE IF prose = {} THEN NoProse
                       ELSE LET first == CHOOSE i \in prose : \A j \in prose : i <= j
                            IN tree.text[told[first]].section
                /\ reply.preview = <<>> <=>
                       \/ told = <<>>
                       \/ LET nul == tree.text[told[1]].nulAt
                          IN 0 < nul /\ nul <= SniffWindow /\ nul <= MaxBytes /\ nul <= PreviewBytes

\* As long as nobody touched the directory, workspace_info gives the very text
\* that initialize gave.
InfoMirrorsInstructions ==
    stage = "write" /\ Kind = "workspace_info" /\ edits = 0 => reply.told = snapshot
============================================================================
