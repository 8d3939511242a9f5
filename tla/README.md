# A formal model of workspace-mcp

workspace-mcp is an MCP server in Go that gives a language model tools on one or
more directory trees ("workspaces"): read, search, git status and diff and,
where enabled, file edits. It serves them over HTTP behind a tunnel, with bearer
tokens or an OAuth server of its own, or over stdio.

This directory holds TLA+ modules translated from the source, the TLC
configurations that check them on small instances, and proofs that TLAPS checks
for every instance. Source paths below are relative to the repository.

## 1. The system and its parts

| part | source | state | operations | what is hard, what must hold |
|---|---|---|---|---|
| file tools | `mcp/write.go`, `fileRead` of `mcp/tools.go` | none of their own; the disk | file_create, file_overwrite, file_replace, file_read | handlers run concurrently without a lock, and checkouts and editors change the same files: exclusive creation, guards that see what they guard, refusals that change nothing, hashes that can be used as a base |
| sandbox root | `mcp/root.go` | an `os.Root` and a policy | Open, Stat, ReadDir, CreateNew, WriteExisting, WalkDir | policy and write switch asked before each operating-system call, not once per request |
| access policy | `mcp/policy.go` | compiled patterns | Check, CheckFile, CheckDir | file and directory rules differ; block wins over allow |
| listing | `Lister` of `mcp/policy.go`, `mcp/walk.go`, `grrep/ignore.go` | ignore nodes and a directory cache under a mutex | Listed, collectFiles | concurrent walk callbacks; parents before children; listed implies accessible |
| tree_search | `mcp/search.go` | results by file index | Search, scanOne | workers finish in any order, result order and truncation must not depend on it |
| matcher and scanner | `grrep/match.go`, `grrep/scan.go` | none | CompileMatcher, Scan | the literal shortcut and prefilter must agree with the regex; line numbers |
| git tools | `gitaware/*.go`, `gitStatus`, `gitDiff` | none; the repository | status, diff, upstream counts | several reads of a moving worktree; capped walks; policy on every path |
| tool dispatch | `mcp/server.go` | none | initialize, ping, tools/list, tools/call | notifications are not answered; what initialize says is of the start-up |
| registry, orientation | `mcp/registry.go`, `workspaceInfo` of `mcp/tools.go` | workspaces by name, with file list and description, fixed after Build | Build, Get, Close, workspace_info | partial failure of Build; a look at a directory takes many reads; blocked files are never named |
| configuration, secrets | `mcp/config.go`, `mcp/secrets.go` | what was read at the start | LoadConfig, LoadEnv, Validate, Resolve | two files read at two moments; overrides; which checks apply to which transport; rotation of tokens over several restarts |
| OAuth server | `mcp/oauth.go` | nonce and pending codes under a mutex; tokens live outside | authorize, token | races on a nonce or a code; expiry at the boundary; limit; restarts |
| request filters | `mcp/handler.go`, `auth.go`, `origin.go` | none | Process | who gets in, to which workspace, under every configuration that starts |
| zrok tunnel | `cmd/workspace-mcp/zrok.go` | environment, share and name on the zrok account; a signal goroutine | serveZrok, reapStaleZrokEnvs, release | kills and signals at any point; retries of calls that did happen; overlapping restarts |
| entry points | `cmd/workspace-mcp/main.go` | the transport; the buffers of stdin and stdout | run, selectStdioWorkspace, serveNgrok, stdio loop | failure half-way through the start; stdio reads and writes in one goroutine over two bounded pipes; end of input |
| audit log | `mcp/log.go` | output | ToolCall, Process | none |

Interactions. An HTTP request passes the filters (origin, bearer or OAuth token)
to the workspace's Server, whose ToolsCall runs one handler; the handler reaches
files only through Root, which asks Policy first. Each request has a goroutine,
and workspaces share nothing mutable. OAuth endpoints share the state of one
OAuthServer. The tunnel owns the listener that the HTTP server runs on; its
signal goroutine and the main goroutine share the release function. The
controller of zrok, the operating system and whoever else edits the tree are
outside the repository.

## 2. Modules

| module | models |
|---|---|
| `WorkspaceFiles` | the four file tools over Root, as interleaved operating-system calls |
| `OAuth` | the authorization server, as interleaved critical sections |
| `Grants` | abstract: what the authorization server promises, without handlers, mutexes or a map |
| `ZrokTunnel` | serveZrok over restarts, as interleaved controller calls |
| `Visibility` | Policy and Lister: what is served, and what of it is listed |
| `Matcher` | CompileMatcher and ScanBytes: the lines a predicate matches |
| `TreeSearch` | tree_search over `Visibility` and `Matcher`: walk callbacks, workers, cap, edits |
| `Upstream` | ahead and behind over a graph of commits |
| `GitTools` | git_diff and git_status over `Visibility` and `Upstream`, one look at the repository per step |
| `Orientation` | the files by which a workspace introduces itself: detection, description, preview |
| `Stdio` | a session over stdin and stdout: start-up look, loop, dispatch and workspace_info over `Orientation`, with a client and edits |
| `Configuration` | both files and the environment: references, override, Validate |
| `Service` | the life of the process over `Configuration`: start-up, request filters, an operator who rotates tokens, restarts |
| `MCWorkspaceFiles`, `MCOAuth`, `MCZrokTunnel`, `MCTreeSearch`, `MCGitTools`, `MCStdio`, `MCService` | instances for TLC: trees, requests, repositories, configurations, symmetry |
| `Prefixes` | what a loop over a sequence collects that keeps some of its elements |
| `WorkspaceFilesProofs`, `OAuthProofs`, `ZrokTunnelProofs`, `TreeSearchProofs`, `GitToolsProofs`, `StdioProofs`, `ServiceProofs` | theorems and their proofs |
| `PrefixesProofs` | lemmas on `Prefixes`, running totals and induction along a sequence |

`Visibility` and `Matcher` are composed into `TreeSearch`, `Visibility` and
`Upstream` into `GitTools`, `Visibility` and `Orientation` into `Stdio`, and
`Configuration` into `Service`. Beyond that the systems share no state and are not
composed: the file tools take the outcome of the policy as two sets, and `Service`
takes from OAuth only that an access token is sealed under a client secret, and
from the tunnel that a listener comes up or fails. A definition whose
comment begins with "Mutant" is a plausible bug of the definition after it; it
is used nowhere in the specifications, and `PROJECT.json` names the property it
breaks.

### WorkspaceFiles

`disk` maps every path to absent, a directory, or a file with a content. A
handler is at a program counter `pc[c]` that names the operating-system call it
makes next; `req`, `cur` and `reply` are the request, the bytes in hand and the
answer; `linked` says whether the open descriptor still names the file at the
path. `calm` and `touched` are observations that no action's guard reads.

| action | code |
|---|---|
| `Call` | a request reaches its handler (server.go, ToolsCall) |
| `Rejected` | Root asks Writable, then the policy, before a call (root.go) |
| `MkdirAll`, `OpenExclusive` | CreateNew (root.go:203-220) |
| `StatPath` | Stat and what the handler decides on it (root.go:138-165, write.go:190-197, tools.go:376-383) |
| `ReadBase` | readForHash, checkBaseSHA, match count, dry_run (write.go:64-99, 200-215, 272-293) |
| `OpenTruncate` | WriteExisting (root.go:226-238) |
| `WriteAll`, `WriteFails` | the one Write after the open; a failed one may have written a front part |
| `Scan`, `Rehash` | the read of file_read, and hashFileFull when it was truncated |
| `OsError` | any other error of the operating system |
| `OutsideEdit`, `OutsideReplace` | somebody else rewrites, removes or replaces a path |
| `Crash` | the server dies; answers are lost, the disk stays |

Abstractions. Contents are short sequences over a set of cells; a hash is the
content it is the hash of (SHA-256 does not collide). One read of a whole file
and one write are atomic. The tree is two levels deep. `file_replace` replaces
one cell by one cell, so counts matter and lengths do not change. Policy answers
are two sets, AllowFile within AllowDir. Symbolic links, permissions, encodings,
line ranges and binary detection are left out: containment is a promise of
`os.Root`, and the others change no state.

### OAuth

One action is one critical section of `s.mu` with what the handler computes
around it. `EnsureChallenge` runs after `ShowApprovePage` or a wrong entry in
`IssueCode`, in a second critical section; `ExchangeCode` runs after `TakeCode`,
outside the mutex, with the code it took in `job`. `Tick` moves the clock,
`Restart` is a new process: nonce and codes go, tokens in `tokens` stay valid.
Code challenges are the verifier they are made from; tokens are their kind and
expiry (the AEAD is not forged). `printedAt`, `approvals` and `pairs` are
observations for the properties; that a drawn code or nonce was never drawn
before stands for their 32 random bytes. Since Go 1.24 crypto/rand never returns
an error; the error branches the code has are kept behind `RandMayFail`.

`Grants` is the specification an operator would write: an approval makes one
grant, a grant is spent at most once and within both lifetimes, tokens exist only
after a grant was spent, and a grant may be lost at any time. OAuth implements it
(`ImplementsGrants`) under this mapping:

| Grants | OAuth |
|---|---|
| `printed[n]` | `printedAt[n]` |
| `by[k]` | the nonce whose approval the code k came of, in `approvals` |
| `live` | the codes in the map, and those a handler has taken and not judged |
| `spent[k]` | how many entries of `pairs` were exchanged for k |
| `sealed` | `tokens # {}` |

So a step of `TakeCode` is a stutter, a refused exchange, an expiry, a sweep and a
restart are `Lose`, and only an accepted exchange is `Spend`.

### ZrokTunnel

Controller: `enabled` environments, `shared` those with a share, `holder` of the
reserved name, `reserved`, `issued`. Each instance has a main goroutine (`pc`),
a signal goroutine (`sig`), the retry counter, the reaper's overview (`stale`,
`seen`), its environment (`mine`) and the releaseOnce state. Every controller
call may succeed, fail without effect, or fail although it took effect (an
unanswered call), and is retried as `retryTransientZrok` does. `Start` after
`Kill`, `EarlySignal` or an exit is a restart. Two instances model a restart that
overlaps the process it replaces. The controller model is external; it says what
the comments of zrok.go say of the real one (zrok.go:143-149, 168-190).
Environments of other descriptions and the text of labels are left out.

### Visibility, Matcher and TreeSearch

A glob list is the set of paths it matches, an ignore file the paths it hides and
the ones it shows again; doublestar and gogitignore do the matching and are
external. A `lister` has what it has read of each directory's ignore file and its
verdict on each directory it has been through; `Consulted` and `NotIgnored` are
the two halves of what `Listed` does under its mutex. A line is a sequence of
tokens none of which contains another; a predicate carries what regexp/syntax
says of its pattern (its literal, its required literal, its anchor, the tokens it
matches), and `CompileMatcher` chooses between substring and expression from
that, as the code does.

The state of a search is its phase, its Lister, the directories entered
(`toRead`), the entries whose callback is to come (`toVisit`), the files
collected, the sorted list, the channel of indexes (`next`), what each worker
scans (`job`) and the results by index (`slot`).

| action | code |
|---|---|
| `Start` | treeSearch's checks, compiling, the glob's base, which the walk looks at before anything else (tools.go:558-600, search.go:103-139, walk.go:32-43) |
| `ReadDirectory` | fastwalk reads a directory it has entered |
| `Visit` | the callback of collectFiles (walk.go:41-76), on any goroutine, in any order |
| `Collect` | the walk has returned: narrow to the glob and sort (search.go:141-156) |
| `Take`, `Scan` | a worker takes an index, then scans the file into its slot (search.go:161-168) |
| `Answer` | wg.Wait has returned: the cap (search.go:172-195) |
| `EditFile`, `EditIgnoreFile`, `Remove`, `Create` | somebody else edits the tree |

Abstractions. One search at a time: searches share nothing but the disk. A read
is one step, and may stop short where `MayFailRead` is set, since scanOne ignores
its error. Caps on bytes (readCap, metadataProbe) are caps on lines. Matches
across lines, word boundaries, context lines, sizes and notices are left out. The
base of a glob is a directory, a file, which has its callback at once, or neither;
a base that is a symbolic link is left out (`RequestAssumption`), since whether it
is followed is up to fastwalk. What extractLiteral (match.go:94-132)
computes from the syntax tree of an expression is given with the predicate
(`need`), so its recursion over the tree is not checked; no request has an
expression with a `(?i)` of its own. Two observations: `touched` is the files that
an edit or a short read since the search began has to do with (an edit of an ignore
file, all below it), `wasThere` the files that were as asked for at some moment of it.

### Orientation and Stdio

One workspace is served over two pipes. `stage` says where the one goroutine is; the
look that Build makes at the start and workspace_info at each call takes several
steps (`entries`, `files`, `opened`, `desc`), with edits by others in between.
`snapshot` is what Build kept and initialize says. A line is its kind and whether
its newline was written; its place in `sent` is its id, and `toClient` and `got`
hold the ids of the answers in the pipe and at the client.

| action | code |
|---|---|
| `Scan`, `List` | Root.ReadDir: the entries, then the root's ignore file, then detectOrientation (root.go:174-196, registry.go:78-141) |
| `Describe` | deriveDescription, one file a step (registry.go:143-166) |
| `KeepSnapshot` | the end of Build (registry.go:63-74) |
| `Preview` | readOrientationPreview and the answer (tools.go:216-324) |
| `ReadLine` | ReadBytes and dispatchStdio (main.go:224-261), with what initialize, ping, tools/list and an unknown tool answer |
| `StopReading`, `WriteReply`, `WriteFails` | end of input, write and flush (main.go:235-250) |
| `Send`, `EndInput`, `Receive`, `StopListening` | the client |
| `Rewrite`, `Remove`, `EditIgnore`, `ReplaceRoot` | somebody else in the directory |

Abstractions. A name is the rank of its stem and its place in the order of names;
a text is its size, its lines, the place of its first NUL and what firstSection
returns for it; wording is left out. The os.Root holds a directory by its descriptor
while the Lister reads the ignore file by path, so after `ReplaceRoot` the two
are of different trees and the tree can no longer be edited by path. `isGitRepo`
is left out (found once at the start), and so is a ReadDir of the root that
fails. What the JSON-RPC library makes of a line that is not JSON is left to it. Tools that other modules model are not called here.

### Configuration and Service

A reference is the name of a variable, a secret written inline, or nothing.
`config` and `dotenv` are the files as they are now, `cfg` and `read` what the
process read of them, at two moments; `environ` is the environment of the process,
which overrides the file. `held` are the opened roots. A request is a route, an
Origin and a credential, and its answer depends on what was read at the start
alone, so `Answer` is an operator that the properties ask for every request.

| action | code |
|---|---|
| `Start`, `LoadEnv` | LoadConfig, then LoadEnv (main.go:87-108, config.go:166-182, secrets.go:51-76) |
| `Check` | the secrets the transport needs, then Validate (main.go:110-129) |
| `BuildNext`, `Built` | Build, root by root; then http or selectStdioWorkspace (registry.go:37-75, main.go:134-145, 194-210) |
| `Listen` | serveNgrok and serveZrok resolve their token; any listener may fail (main.go:147-192) |
| `Stop` | the process ends or is killed |
| `Answer` | BuildHandler's routes, OriginCheck, Bearer and CheckToken (handler.go, origin.go, auth.go) |
| `SetVariable`, `AddRef`, `DropRef` | the operator rotates a token |
| `Reconfigure`, `Repair` | the operator changes anything else, for better or worse |
| `SwitchClient`, `ConnectByOAuth` | a client presents another credential |
| `Mount` | a directory goes or comes back |

The operator keeps to one rule, that of docs/design.md on rotation: no token is
dropped that a client still presents, and a variable changes its value only while
neither the file nor a running process refers to it. The second half is needed:
config.yaml and secrets.env are read one after the other, so a start in the middle
of an edit that gives a variable another value resolves an old reference to a
new secret. With
`environ` an edit of secrets.env may have no effect at all, which the rule
reckons with (`Stands`). YAML and dotenv syntax, the keepalive stream and the
header of a 401 are left out.

### Upstream and GitTools

`Counts` gives every answer resolveUpstream can give for a graph, one for each set
that the walk of the bases' ancestors may have collected when it stops at the cap
(the preorder of go-git is left open). `git_diff` reads the status, the index,
HEAD and then one worktree file after the other; each is an action, and `status`,
`idx`, `tree` keep what it read. `touched` is an observation: the files that were
edited, staged or committed since the call began.

| action | code |
|---|---|
| `Begin` | checks of gitDiff, then wt.Status (tools.go:696-721, diff.go:66-76) |
| `ReadIndex`, `ReadHead` | the index and the HEAD tree (diff.go:77-91) |
| `DiffFile` | one round of the loop: filter, sides, the read of a worktree file (diff.go:93-121) |
| `AfterDiff`, `StatScope` | an answer, or the question whether a scope without changes is in the worktree (tools.go:742-757) |
| `AskIndex`, `AskHead` | PathInRepo: the index, then HEAD, before NOT_FOUND (diff.go:126-171) |
| `Deliver` | list of files and the text up to its cap (tools.go:759-792) |
| `GitStatus` | git_status, as far as upstream counts go |
| `WriteFile`, `Stage`, `Commit` | somebody else edits, stages, commits |

Abstractions. A content is a model value with a length in patch text; contents
past the read limit and ones with a NUL are marked. A patch is its two sides.
Directories exist as long as a file is in them, and a symbolic link leads
somewhere. `StatusOf` says what go-git says, from how gitaware uses it: a file
that was removed from the index but is still on disk is untracked on both sides,
so it is not among the staged changes (see the divergences in section 3).
Commits of the graph are not connected to the index and HEAD of git_diff, since
no code relates them: git_status chooses any of `Histories`.

## 3. Runs

| run | checks | instance |
|---|---|---|
| `FileTools` | type, exclusive creation, only allowed files are written, only file_create makes files, results, refusals, usable hashes, guarded writes | 2 clients, directory `docs` with file `note`; file_create of both paths, overwrite and replace with and without base and dry_run, reads of all or one byte, a content past the read limit, outside contents of 1 and 2 cells, failures on |
| `OAuthGrants` | type, the pair belongs to its authorization, an active nonce stays, an operator is turned away only by live codes, live codes are kept, Grants is implemented | 2 handlers, 2 nonces, 2 codes, 2 verifiers, 1 redirect_uri, TTLs of 1 (refresh 2), clock to 3, 1 pending code |
| `ZrokRestarts` | type, name, clean start, nothing forgotten, startup and shutdown end | 1 instance, 3 environments ever, account limit 2, 2 attempts, failures on |
| `SearchTree` | type, one reading of ignore files, a file given was there and as asked for at some moment, the cap, of files nobody touched the answer is what is on disk, searches end | 4 directories, one of them a dot directory, 3 files, a symlink, 3 policies, 2 initial trees, 12 arrangements of ignore files and contents, 7 requests, one with a file for its base, 2 workers, 1 edit, cap of 2 matches, read cap of 4 lines, probe of 3, short reads on |
| `GitDiffs` | type, every change of the files nobody touched is told, NOT_FOUND is true of a scope nobody touched, the text's cap, uncapped counts are exact | 3 files, 4 repositories, 2 policies, 3 scopes, 2 edits, text cap 2, 6 histories of up to 6 commits, walk cap 5 |
| `StdioSession` | type, answers in order and complete, workspace_info tells what is there, and repeats initialize while nothing changed, every request of a client that listens is answered | 6 names at the root, 3 trees, 3 workspaces, pipes of 1 line, 2 lines of 4 kinds, 1 edit |
| `ServiceRestarts` | type, rotation locks nobody out, only credentials get in, what serves is sound | 2 clients, 2 variables, 3 secrets (one short), 4 process environments, 2 workspaces, any number of rotations and restarts, 1 other edit |
| `FilesStaleBase` | violated: a guarded edit can destroy another content than its base | 2 clients, 1 file |
| `FilesMixedWrites` | violated: the hash a write reports is that of the resulting file | 2 clients, 1 file, file_create and file_overwrite of 1 and 3 cells, nobody outside, no failures |
| `ZrokStuckName` | violated: overlapping starts lose the name | 2 instances, no failures |
| `SearchPatterns` | violated: a regex predicate finds what it says | the tree of SearchTree, files holding `x.y`, regex `x\.y`, no edits |
| `GitCappedCounts` | violated: capped counts are lower bounds | the repositories of GitDiffs, walk cap 3, no edits |

Why the bounds are enough. Every hazard of the file tools involves at most two
calls and one outsider on one path, and a parent directory; two cells tell
contents, counts and a mixture of two writes apart. Two handlers are needed for
a race, two nonces and codes to confuse them, and a clock of 3 passes the sum of
nonce and code TTLs; a limit of one code makes the limit interesting at once.
With one redirect_uri the run does not see a mismatch of it (the theorem
`PairIsBound` covers any number). Three environments with a limit of two let a
start find the account full, and allow a start, a retry that enabled twice, and
a restart. `MaxEnv` and `MaxTime` only bound a run. The tree of SearchTree has what
the Lister can get wrong: an ignore file above another, a blocked directory
with a file that no pattern blocks, a path shown again further down, and a dot directory
that only an allow list opens; its two workers and three files let one worker be
a whole file behind, its cap falls within a file, between files and after the
last. In GitDiffs the four repositories are a clean one, one without a commit, one
with a change of each kind, and one with everything deleted; two edits are enough
to change a file and its status between any two reads. The histories of six
commits have forks and merges, equal tips and unrelated ones, and a merge edge to
a commit before the merge base. The trees of StdioSession have two READMEs of one
stem, a directory and a link named like orientation files, a name that is none,
an ignore file that hides the foremost, and texts that are binary, binary only past the
bytes a preview looks at, without prose, and longer than the preview; the windows stand
for 8000 < 8192 < 16384 bytes in the same order and the cap of two files stands for five.
Two lines let one wait while another is answered, and with pipes of one line both
sides can wait. Its instance leaves out the kinds ping, tools/list and an unknown
tool, which take the path of initialize; the proofs cover them. In ServiceRestarts two variables
are enough to rotate for ever, since a dropped one is used again; the third secret is too
short, and each entry of `MCServers`, `MCWorkspaceLists` and `MCOAuths` fails
another check or changes another part of an answer.

Deadlock is checked in every run but one: a client may always call, a clock at its
bound still has requests, an instance or a process can always be started or
killed, and an idle search or git tool takes the next request. `StdioSession`
does not check it, since the server stops for good at the end of its input.

Symmetry (clients; handlers, nonces and codes) is used only in runs without
liveness. Fairness is assumed in three places. `FairSpec` of ZrokTunnel has weak fairness of
`Work(i)`, because goroutines are scheduled and every controller call is
answered or fails by its HTTP timeout. Starting, killing, signalling and the end
of http.Serve are never fair, and a failure may be chosen at every call.
In TreeSearch `FairSpec` adds weak fairness of `SearchStep`: fastwalk's goroutines
and the workers are scheduled, the walk waits for all callbacks and Search for
all workers; starting a search and editing are not fair.
In Stdio `Spec` has weak fairness of `Server`, one goroutine that is scheduled
while it can run, and of `Receive`: a client that keeps its end open reads on.
Nothing makes it send, end its input or stop listening, and a write to a full
pipe waits.

The five violated properties state what a comment or document says; each is a
finding in `PROJECT.json` with its quotation.

Three properties say less than their names may suggest. `ResultIsOnDiskWhenAlone`
and `ReadHashIsABase` speak of calls that nobody disturbed; what goes wrong with two
writers at once is shown by FilesMixedWrites, and with a truncated read in the list
below. `InfoTellsWhatIsThere` takes the ignore rules from the path, as the code
does, so that it accepts the mixture of two trees after the workspace directory was
replaced, and speaks of what nobody touched during the look; `LeftBehindOnlyByAccident`
counts a signal before its handler is installed as a kill.

Divergences seen while modelling that have no run of their own:

- A truncated `file_read` takes its hash from a second read (tools.go:437-441),
  so the bytes returned need not belong to the hash, in spite of "carries it
  straight into a ... base_sha256" (tools.go:346-350).
- `file_create` in a parent that is a file answers PATH_EXISTS, "file already
  exists" (write.go:150-151): the error is MkdirAll's, of the parent
  (root.go:214-218), though nothing is at the path itself.
- `file_replace` on a directory answers POLICY_DENIED (outside_root) where
  docs/design.md:713 says NOT_FOUND.
- `MkdirAll` (root.go:214-218) may make parent directories at paths the policy
  denies; docs/design.md:86-87 says a write can never reach such a path.
- A file tool called on a workspace with writes disabled need not answer
  READ_ONLY: its own checks and the policy come first and Writable is asked last
  (root.go:204, 227), where config.go:118 and docs/design.md:655 speak of READ_ONLY.
- An allow glob such as `.github/*.md` makes a file readable, but a search of the
  whole tree prunes the dot directory, which no pattern matches (policy.go:115,
  walk.go), so the file is served and not found; docs/design.md section 2.3 lists
  the two as alike.
- The list of tree_search is "capped at maxMatches" (search.go:100-102), but the file that
  reaches the cap is given whole, with all its lines.
- A regex without a required literal runs over the whole body without (?m), so
  `^[A-Z]` matches on the first line only, while `^Foo`, which has one, is
  tried line by line (scan.go:99).
- A file removed from the index but still on disk is not in a staged `git_diff`,
  which the design calls "index-vs-HEAD like `git diff --cached`"
  (docs/design.md:632): git lists its deletion, go-git's status calls it untracked
  on both sides and stagedSides passes it over. `TellsTheChanges` follows the code.
- An expression with a `(?i)` of its own, such as `(?i)foo`, parses to a literal and
  takes the literal path of SearchPatterns too: it is looked for byte by byte
  (match.go:72). Within a longer expression the prefilter is the literal as
  regexp/syntax folds it, in one case only (match.go:97), and drops lines that match.
- An allow list lets directories be browsed, but git_diff checks its scope as a
  file (tools.go:717), so with one a directory is refused as a scope;
  docs/design.md:631 offers "a directory prefix" and line 105 lets directories pass.
- A signal between the enabling and the installation of the handler
  (zrok.go:396-404) ends the process with the environment enabled, where the
  comment at zrok.go:283 says "released on SIGINT/SIGTERM" and README.md:258 speaks of a "clean
  shutdown (Ctrl-C / SIGTERM)"; the next start reaps it.
- The description is that of the first orientation file that has prose
  (registry.go:149-164), not of "the highest-priority detected file"
  (docs/design.md:526).
- The list and description are "computed once at startup" (registry.go:63,
  docs/design.md:527), but workspace_info computes them again at each call
  (tools.go:230).
- workspace_info looks anew, but `isGitRepo` stays as it was at the start.
- The preview is also absent when the foremost file is binary within the bytes
  looked at or cannot be opened; "Absent when there is no well-known file"
  (docs/design.md:520).
- When the workspace directory is replaced, files are served from the old one and
  ignore files are read from the new one (root.go:69).
- A client that writes without reading stops the session once both pipes are full.
- A configured token with white space around it is never matched, since
  extractBearer trims the header (auth.go:116-122) and Resolve does not trim the
  secret. `Service` takes secrets without.
- `auth.oauth` with a client ID and no secret is not an error but switched off
  (config.go:87-90).
- Writes are in place: a crash between the truncating open and the write leaves
  an empty file.

## 4. Proofs

Assumptions: the ASSUMEs of the modules, which TLC evaluates in every run of the
module. They type the constants (`RequestAssumption`, `DataAssumption` and
`SearchAssumption` of TreeSearch, `GitAssumption`, `ServiceAssumption`,
`StdioAssumption`, the TTLs and attempts that are natural numbers), and say what
the world is like: trees are finite in depth and a path is below what is above it
(`TreeAssumption`; in WorkspaceFiles two levels), AllowFile is within AllowDir,
files and names are finitely many and in order (`FilesAreFinite`,
`NamesAssumption`, `OrderAssumption`), a history of commits is finite, has the
parents of its commits and no cycle (`HistoryAssumption`: a commit's hash is
computed from its parents'), and clients begin with a token of the configuration
(`RotationAssumption`).

Four theorems have a hypothesis besides. `SearchesSayWhatIsThere` and
`SearchesGiveWhatWasThere` assume `PlainRequests`: each predicate is a text looked for as it is, or an expression
that spells its own literal, or one that the scanner really runs on each line: after
a filter for a token that all its matches have, or, without a filter, with no
anchor. The requests of SearchTree are such, and SearchPatterns shows what goes
wrong with one that is not. `NameIsGivenBack` and `RestartsHeal` assume
`OneAtATime`, what the code takes for granted ("there is exactly one live instance",
zrok.go:304): no two processes overlap on the account. ZrokStuckName shows the name
lost when they do. `RestartsHeal` also assumes `UniqueName`, since otherwise no
start reaps anything (zrok.go:308).

Except for `GrantsAreImplemented`, all theorems have the shape Spec => []Inv or Spec => [][A]_vars; each proof module
has an inductive invariant, a lemma that Init implies it and one that every step
preserves it, with one step per action, and the theorems follow by PTL.

- `WorkspaceFilesProofs`. TypeOK alone is not inductive: what a handler holds
  depends on where it is. `IInv` adds which tool can be at which program counter
  (`StepFitsRequest`), that a create past its first check is in a writable
  workspace, and `OpenFilesAreWritable` itself, which says that a linked
  descriptor names a file: without it a write could land on a path that became a
  directory. The two action properties on writes and creation follow step by step
  (`DiskSteps`, `ServerSteps`). `ExclusiveCreate` is inductive relative to IInv: a
  new creator finds the path absent, while every linked writer's path is a file.
  For `GuardedWriteReplacesBase` the strengthening is `CalmGuard`: from
  readForHash to the open, the guards hold of what is on disk as long as nobody
  disturbed the path. What an answer says of the file is followed through the
  call by `CallFits`: only the open for writing marks a call as one that
  touched its file, an undisturbed call writes to a file that is still empty and at its
  path, and between the two reads of a truncated file_read the bytes in hand are the
  front of the file. The other calls keep it because they leave this one alone
  (`LeftAlone`): they change neither its bookkeeping nor, unless they
  disturb it, its file. Theorems: `TypeCorrect`, `OpenFilesAreWritableAlways`,
  `WritesOnlyAllowedFiles`, `OnlyCreateMakes`, `CreateIsExclusive`,
  `CalmWritesReplaceTheirBase`, `RefusalsLeave`, `ReportedResultIsOnDisk`,
  `ReadHashesAreBases`.
- `OAuthProofs`. `IInv` relates the server's memory to the observations: the
  stored nonce was printed when the server says and has approved nothing
  (`NonceInv`); a code in the map, or taken by a handler, is unspent, remembered
  as it was approved, and expires within both lifetimes of its nonce (`MapInv`,
  `JobInv`); it is in one place only (`OwnerInv`). Single use, expiry and binding
  are conjuncts of it, since a restart or a sweep loses the map but never the
  observations. The bound of the map needs that the map is finite (`BoundInv`).
  Theorems: `TypeCorrect`, `ApprovalIsSingleUse`, `CodeIsSingleUse`,
  `ApprovalExpires`, `PairIsBound`, `MapIsBounded`, `NonceIsStable`,
  `LiveCodesStay`, `OnlyFullTurnsAway` (whoever is turned away met the map as the
  sweep left it), `TokensComeFromApproval`. `GrantsAreImplemented` shows the
  refinement: from `IInv`, each action of the server is the step of Grants that
  the table in section 2 names, or a stutter. The hard step is `IssueCode`, which
  sweeps and inserts at once: `Approve` may lose grants.
- `ZrokTunnelProofs`. `IInv` says that a process before its enabling owns nothing
  (`OwnInv`), that a finished release leaves an environment only if a disable of
  it failed (`ReleaseInv`), and that environments are numbered as they are
  enabled (`NumberInv`), so that an enabled one is never confused with a new one.
  From it `NothingIsForgotten`, for any number of overlapping instances, and with
  a second invariant `TypeCorrect`. For processes one after another, `ReapInv`
  follows the order of the calls: while a start reaps, all there is was in its
  overview, and what is left was not reached yet or failed; and on every path, the
  reaper's, the one out of a failed start and the release, an environment is
  disabled only when its share is gone or a call on it failed. The first half gives
  `RestartsHeal`, the second `NameIsGivenBack`.
- `TreeSearchProofs`. TypeOK needs which fields mean something in which phase
  (`PhaseFits`). `SlotInv` is about the workers: a filled slot fits its file,
  the list is in order, and the answer is cut from it at the cap
  (`ReplyKeepsCap`); `OneWriterPerSlot` and `AnswersStopAtTheCap` follow. `ListerInv`
  is about one Lister: a verdict on a directory is there only with those on all
  above it, and follows from what was read of them (`Consistent`), so that no
  order of callbacks can have two readings (`OneReading`). For what
  is said of a file, `WalkIsSound` says that, whoever edits, the walk is only on
  ways that are served, and `Knows`, of each file nobody touched, that the Lister
  has read what is on disk above it, and that the file, if it is visible, is collected
  or still ahead, itself or one of the directories it is in; `NextStepDown` finds the
  next directory of a way, which is where finiteness of ways is used. Then
  `ScanTells`, again of each such file: it is in the list if it is visible and of the
  glob, and a filled slot tells the truth about it. An edit touches the files it
  changes the answer for and leaves the others alone (`EditLeaves`). `TellsInv` puts
  these together. That what is given was there holds of touched files as well:
  `WasThere` follows a file from its callback, without predicates, or from the
  read of its worker, with them, to the answer. Theorems: `TypeCorrect`,
  `OneWriterPerSlot`, `AnswersStopAtTheCap`, `OneReading`, `SearchesSayWhatIsThere`,
  `SearchesGiveWhatWasThere`.
- `GitToolsProofs`. `CallFits` says what the call holds at each of its steps. `DiffInv`
  adds what the call has read of the files nobody touched: status, index and HEAD
  are as they are now and the diffs so far are those of the files passed
  (`TellsUpTo`); and while nobody touched the scope, the questions asked of an
  empty answer were answered with no. The text's cap is a
  fact about running totals of lengths. The counts are about graphs: what a walk
  reaches is the least set closed under parents (`ReachableIsLeast`, since no walk
  has more generations than there are commits), the ancestors of the merge bases
  are the common ancestors (`BasesCoverCommon`: among the common ancestors that
  lead to a given one, one with the most ancestors is a base; this needs that
  histories have no cycle), so a walk that bars them counts what is on one side
  only (`CountsTell`).
  Theorems: `TypeCorrect`, `TextKeeps`, `DiffsTellTheChanges`,
  `NotFoundTellsTheTruth`, `UncappedCountsExact`.
- `PrefixesProofs`. Lemmas the two modules above share: induction over 0 .. N as a
  statement about sets (`InductionTo`), that the functions for running totals and
  for `Picked` exist and satisfy their equations, that totals of positive costs
  rise, and that `Picked` lists the chosen elements, each once and in their order
  (`PickedPlaces`).
- `StdioProofs`. `PlaceInv` says which request is under way at which stage; with
  TypeOK it is inductive. `AnswersInv` is the order and completeness of answers for
  the lines read so far, whoever has them now: read by the client, in the pipe, or
  being made. For the two properties of workspace_info a look must be followed
  through its steps: `LookInv` says what each stage has found as long as nobody touched the
  directory, `BlockInv` what it cannot name whatever others do, `SnapInv` that
  what was seen at the start is still there while there was no edit. That
  `Foremost` lists a set in order needs that ranks within a finite set are unique
  and without gaps (`RankOrders`, `RanksAreTaken`). Theorems: `TypeCorrect`,
  `AnswersComeInOrder`, `InfoTellsTheTruth`, `InfoMirrorsInitialize`.
- `ServiceProofs`. `CheckedInv` says that what was read passed the checks with the
  directories of some moment, `PathInv` where a start can be for which flags,
  `HeldInv` that roots are opened in the order of the configuration. The
  argument for rotations is `RotationInv`: a client's token is one that the files
  stand for now, one that the configuration read stands for together with the
  dotenv file still to be read, and then with the one read; the guard of
  `SetVariable` carries it over the moment between the two reads. Theorems:
  `TypeCorrect`, `RotationLocksNobodyOut`, `OnlyCredentialsAreServed`,
  `OnlySoundIsServed`.

Some invariants are proved and not in a run, since a stronger property of the run
implies them or the proof covers more than an instance can: `OneCodePerApproval`,
`OnePairPerCode`, `CodesBounded`, `PairFollowsApproval`, `TokensNeedAnApproval`,
`OpenFilesAreWritable` and `SlotsHaveOneWriter`.

Only model-checked: liveness (`StartupEnds`, `ShutdownEnds`, `SearchEnds`,
`EveryRequestIsAnswered`), since fairness and ENABLED are out of the prover's reach.
Every invariant and every action property of the passing runs is stated by a theorem.

The provers have no rule of induction with a predicate for a parameter. What a
recursive function computes is proved with sets in its place: the arguments
for which a fact fails have a least one (`LeastNumber`), so a set with 0 that is closed
under successor is all of 0 .. N (`InductionTo`). This is enough for functions
along a sequence or over generations; no module declares a RECURSIVE operator.

## 5. Not modelled, and the plan

In the order of the work to come:

1. `SequentialFiles`: what one call promises when nobody interferes, as an
   abstract specification of atomic edits, and that WorkspaceFiles implements it.
2. A lease on the reserved name that one ZrokTunnel instance implements.
3. Lemmas about Policy and Lister by themselves: what is listed is served.
4. The streaming scan of grrep and WalkDir if a caller appears.

Left out for good: HTML and JSON rendering, well-known metadata, the header of a
401, URL printing, the audit log and the keepalive stream (output without
state), the ngrok SDK call (one call, then http.Serve), Clean and containment
(strings, and a promise of `os.Root`), the syntax of YAML, dotenv, globs, ignore
files and expressions, and what vendored libraries do inside.
