# TLA+ specifications of tony-cli

These modules specify the parts of the repository that hold its own logic: the
agent loop that talks to a language model and runs tools, and the services
around it. They are checked with TLC on small instances, and the theorems of the
eight modules whose names end in `Proofs` are proved with TLAPS for every value
of the constants.

Check one run with `tlc -config MCConversation.cfg MCConversation`, and the
proofs with `tlapm ConversationProofs.tla`. `PROJECT.json` lists the runs, the
source lines behind every definition, the slips each property must detect, and
the hazards the properties were written for.

## The system

Three programs live in the repository. `rust/` is `claw`, an interactive coding
agent in nine crates; `tony/` is a small Python agent with the same loop;
`powergen/` builds presentations in stages. `src/` holds placeholder packages
of another source tree and inventories of it, which have no behaviour of their
own.

    claw-cli ---- owns ----> ConversationRuntime ---- calls ----> ApiClient -> api
       |                        |  |  |
       | command line, editor   |  |  +-- ToolExecutor -> tools -> file, shell, sub-agents
       | session files          |  +----- HookRunner   -> hook commands
       | slash commands         +-------- PermissionPolicy, UsageTracker, compaction
       v
    session.rs, compact.rs, config.rs, plugins, commands

    server (HTTP, events)     runtime/mcp_stdio (MCP servers)     lsp (language servers)

Inventory. "Hard" is what a test would hardly reach.

| component | state | operations | hard | correct means | module |
|---|---|---|---|---|---|
| conversation runtime, `runtime/conversation.rs`, `usage.rs` | session, usage tracker, loop counter | run_turn and the calls it makes | a stream, tool or hook failing in the middle; ids that repeat; the iteration limit | each use has its result in its place, nothing dangles, the transcript says what really ran | `Conversation`, `ToolDialogue` |
| permission policy, `runtime/permissions.rs` | active mode, requirement per tool | authorize | escalation by prompt | no effect without consent | `Conversation` |
| compaction, `runtime/compact.rs` | a session | should_compact, compact_session | repeated compaction; cuts inside a reply | every message kept or counted, order kept, settles | `Compaction` |
| requests and replies, `claw-cli/main.rs`, `api/openai_compat.rs` | a session, seen by a provider | convert, translate, read back | arguments that are empty or no JSON, results after a cut | every call is answered in the request, arguments settle | `ProviderRequests` |
| streamed replies, the same and `tools` | block in progress, calls by index, events so far | ingest, finish, collect, fall back, build the message | calls side by side; a body cut anywhere | what is assembled is what was sent | `StreamAssembly` |
| frames, `api/sse.rs`, `openai_compat.rs`, `runtime/sse.rs` | a buffer | push, finish | chunk boundaries inside separators and characters | the frames are those of the whole body | `ServerSentEvents` |
| retry, `claw_provider.rs`, `openai_compat.rs`, `tony/api_client.py` | attempts, last error | send, stream | two bounds for one loop; a stream read halfway | attempts bounded, the last error told, no mixed reply but where said | `ProviderCalls` |
| the provider of a model, `api/providers/mod.rs`, `client.rs`, `claw-cli/main.rs` | environment, saved tokens | resolve an alias, detect, construct | names in any case, keys that are set and empty, tokens that expire | the provider is the one the name and the keys stand for, a refusal has a reason | `ProviderChoice` |
| credentials, `oauth.rs`, `claw_provider.rs`, `main.rs` | saved tokens | login, refresh, logout | a used-up token; two processes; torn writes | what is saved can be used | `Credentials` |
| session files, `session.rs`, `claw-cli/main.rs` | one JSON file per session, the session in memory, prompt, handle | persist, switch, resume, clear, compact, exit | crash between truncate and write; two processes; replaced runtime | acknowledged turns survive; only the open session's file changes | `SessionFiles` |
| command line, `claw-cli/main.rs`, `commands` | arguments taken, what to do, resumed session | parse_args, resumed commands | flags after -p, a command refused after others ran | the prompt is what was said, in the mode that was asked for | `CommandLine` |
| line editor, `claw-cli/input.rs` | text, cursor, mode, yank, history | keys | byte positions in wider characters; a stale selection | the cursor is between characters, nothing typed is lost | `LineEditor` |
| progress report, `claw-cli/main.rs` | phase shared by two threads | phases, heartbeat, finish | a snapshot written late | lines in order, none after the last | `ProgressReporter` |
| git commands, `commands`, `claw-cli/main.rs` | branches, index, pull requests | branch, worktree, commit, publish | any process of a series fails | no edit lost, the report is true | `GitWorkflow` |
| instruction files, `runtime/prompt.rs` | the files | find, render | budget and cuts | budget kept, what is left out is nearest | `ProviderRequests` |
| project initialisation, `claw-cli/init.rs` | three files | init, again and again | a process that ends as it writes, a user who edits meanwhile | what a user wrote stays, what is reported done is there, and ignored | `RepositoryInit` |
| agents and skills, `commands`, `tools` | the definitions | list, resolve | shadowing, two different searches | listed once, found where it is listed | `Definitions` |
| session server, `server` | sessions, next id, a broadcast channel each | create, send, get, stream | snapshot against live events; slow readers; racing creators | nothing falls between snapshot and events; loss only by overflow | `SessionServer` |
| LSP requests, `lsp/client.rs` | pending senders, next id, pipe | request, reader, replies to the server, shutdown | answers in any order; write or read failures; exit of the server | an answer reaches its own waiter and failure wakes all | `LspRequests` |
| LSP manager and documents, `lsp/manager.rs`, `client.rs` | clients, open documents and versions | open, change, save, close, ask, shutdown | a lock held while a server starts; versions sent out of order | one process per server, client and server agree on a document | `LspDocuments` |
| MCP manager, `runtime/mcp_stdio.rs` | processes, initialised flags, routes, next id | discover, call, shutdown | a child that dies, speaks unasked or fails half way through discovery | routes are current and callable; greeted before used; answers in step | `McpManager` |
| tool registry, `tools`, `claw-cli/main.rs` | allowed tools, tools of plugins | resolve, offer, execute, search | plugins that change after the list was resolved | what is offered is what is reached | `ToolRegistry` |
| sub-agents, `tools` | thread, output, manifest | spawn, turn, record | a write that fails while the end is recorded | a manifest tells how the agent ended | `SubAgents` |
| file tools, `file_ops.rs`, `tools` | the files | write, edit, notebook, to-do, config | overlapping calls, a death between truncation and writing | acknowledged edits are there | `FileTools` |
| file searches, `file_ops.rs` | none | read a window, grep a page | context that overlaps, pages cut by a limit | the pages are the whole | `FileTools` |
| shell tools, `bash.rs`, `sandbox.rs`, `tools` | child, pipes, clock | run, time out, background | pipes that fill, grandchildren, limits | output is whole, a limit ends the call | `ShellCommands` |
| plugins, `plugins` | copies, registry, settings | install, enable, disable, uninstall, update, sync | a crash between any two writes, or inside one | what was installed stays, what is loaded is wanted, a session that cannot start has a known reason | `Plugins` |
| plugin manifests, `plugins` | definitions, what has started | validate, gather, initialise, shut down | several defects at once, files that move, a failure in the middle | every defect told, last started stops first | `PluginManifest` |
| hooks, `hooks.rs` | none | commands before and after a tool | a child that does not read, or prints before it reads | first denial wins, a hook that is heard is judged by its status | `HookCommands`; its verdict in `Conversation` |
| configuration, `config.rs` | five files | discover, merge, validate; the two writers | two names for a setting, precedence | what the program sets is what it reads | `Settings` |
| Python agent, `tony/` | session | run_turn with compaction inside | interruption; retry of a half-read stream | a bad request has a known reason | `TonyAgent` |
| presentation generator, `powergen/` | stage, plan, spec, output | create, revise, approve, render, reset | planning again with a spec in place; two sessions | what is rendered was approved | `PowerGen` |
| MCP names, `mcp.rs` | none | normalise, qualify, sign | names that run together | a name comes apart where it should | `McpNames` |
| remote, JSON, rendering, compat-harness | none that lasts | one-shot I/O and text | - | - | - |

## Modules

Every module is the control of one component; texts, JSON, HTTP and display are
left out. `PROJECT.json` ("map") names the lines of each definition.

### The conversation

**Conversation** is `run_turn`, and the permission policy it asks: the modes in
their declared order and the two conditions of `authorize`, `Grants` and
`MayEscalate`. A step is one call to the outside: a request, a
reply or failure of the provider, a decision of policy or user, a hook command,
the tool. `phase` says where the function is, `pending` is what is left of
`pending_tool_uses`. Histories `approved` and `effects` remember, by place in
the transcript, what the user approved and what really ran; no guard reads
them. `UsageTracker::from_session` is the right side of `UsageMatchesSession`.
Result contents are reduced to how they came about. **ToolDialogue** is the
abstract promise: an exchange in which only the next expected result, a user
message or an assistant message may be appended, and in which every exchange
ends. `Conversation` implements it through `Dialogue`.

**Compaction** is `compact_session` over messages that carry a number, a size
and, for tool results, the message they answer. A summary is what it counts and
the order of its timeline. The environment adds messages the way the runtime
does; compaction may happen between turns.

**ProviderRequests** is a session on its way to a provider and back: whole and
streamed replies, with arguments that are JSON, empty or broken, the refusal of
a tool whose input does not parse, compaction between turns, and `Request`, the
translation to the OpenAI form.

Its second part draws instruction files in the directories from the root to the
working directory, and builds the prompt of them as it is written: blank and
repeated contents dropped, each cut, all within one budget. **RepositoryInit** is `init`,
which makes such a file and two others, as it looks at each and then writes it,
with a user who edits them and a process that may end at any point.
**Definitions** has the roots
of agents and skills as they are walked from the working directory and the
home, the list with its shadowing, and the look-up of the Skill tool.

### Providers

**ServerSentEvents** has a body of frames, byte by byte, and the chunks the
network makes of it; the three parsers differ in separators, in when they
decode, and in what they do with the rest. **StreamAssembly** is one streamed
reply, from the wire to the message. What the provider sent so far is `meant`;
`state` is `StreamState` of `openai_compat.rs`; `pending` and `events` belong
to the client that collects, which has one slot in the CLI and a map by block
index in the sub-agents. A fragment carries its call and its number. `BodyEnds`
may happen at any time and contains `StreamState::finish`, the end that is
supplied and the choice of the second request; `Message` is
`build_assistant_message`.

**ProviderCalls** is one call with its retries, for the two Rust clients and the
two methods of the Python one; each attempt ends as the network likes.
**ProviderChoice** is what comes before: the alias of a model, the provider its
name or the keys of the environment stand for, and the credentials it is built
with, for the session of claw and for a sub-agent, while another process logs
in or out.
**Credentials** has two processes that log in, refresh, log out and end at any
point, the browser, and a provider that may or may not replace a refresh token
that is used.

### The terminal

**CommandLine** takes the arguments one at a time as `parse_args` does, decides,
and carries out the commands of a resumed session. The properties say the same
from the place of each argument alone. **LineEditor** has text in bytes, of
which a character may take two, and one action per key. A panic is a state.
**ProgressReporter** is the thread of a turn and the heartbeat thread, with the
lock of the state and the lock of the output. **GitWorkflow** has each command
as a series of processes over edits that are numbered; any of them may fail and
the user goes on editing. The default branch is looked for as the code does: the
last part of what the clone recorded, which may be stale, then `main`, `master`
and the branch that is checked out. The remote's own default is drawn at the
start, with or without a "/" in its name.

**SessionFiles** has processes of the CLI in one directory. `fs::write` is two
steps, truncate and write, with a failure or a crash possible between. Every
slash command that replaces the open session is an action, with the save it
ends in. Sessions are abstracted to the turns they hold, and `acked` remembers
the turns whose save returned.

### Servers and children

**SessionServer** has each handler cut at its locks: an id is drawn and the
session inserted in separate steps, a message is pushed under the lock and
broadcast after it, while a stream subscribes and takes its snapshot under one
read lock. The tokio channel keeps the last `Capacity` events; a receiver that
fell behind gets the oldest one kept after a `Lagged` error.

**LspRequests** has tasks that draw an id, register a sender, write and wait,
and one reader task. The language server answers in any order, asks requests of
its own, writes frames that do not parse, and exits. **LspDocuments** is what
stands on it: callers of one manager, the start of a server under the lock of
the map, and calls that look, write and record in separate steps. `told` is
what the server heard of each document; `misused` are documents used by two
calls at once, which the code leaves to its callers to avoid.

**McpManager** has the manager, one operation at a time, as its methods borrow
it mutably, and the child processes with a pipe each way. A child may answer
with a result or an error, speak unasked, or die at any time.

### Tools and extensions

**Plugins** is the plugin directories, the registry and the settings, and the
session that loads them. `todo` holds the file steps an operation still has to
do, and each step may be half done when the process ends: a directory with no
manifest, one that does not load, one that loads although files are missing, or
an emptied file. `Reload` is what a session does when it starts and after every
command: sync what comes with claw, scan and prune, load. Of a plugin only its
name, version, tools and default count. Histories: what the user asked for last
(`wish`), what was reported as installed (`acked`), what a death cut short
(`cut`, `lost`).

**PluginManifest** reads manifests with any mix of defects while files come and
go, gathers their tools, and runs the lifecycle commands. **HookCommands** is
the commands of one event, each a child with two pipes to which claw writes
before it reads. **ToolRegistry** is `--allowedTools` against the registry of
the moment, the registry built again later, and the ranked search. **Settings**
is the five files with the paths that have two names, their merge, and the two
ways in which the program writes one. **McpNames** is the qualified names of MCP
tools, letter by letter, and the signatures of command lines.

**SubAgents** is the Agent tool and its thread, step by step, with writes that
fail or are cut. **FileTools** is the tools that read a whole file and write
it back, on threads of one process, and in its second part `read_file` and
`grep_search`, asked for page after page. **ShellCommands** is a child with
pipes of bounded capacity, the readers of the four tools, and the clock; also
the decision of the sandbox.

**TonyAgent** is the Python turn: compaction before each request, a stream that
is asked for again, interrupts. **PowerGen** is two sessions on one project.

## Runs

Components that never meet in the code share a run: a variable `part` of the MC
module picks one at the start, the others stay as they begin, and each has the
fairness of its own specification. The states are the sum of those of the
parts, not their product. `SessionServer` and `LspRequests` need no definitions
for their constants, so `server_streams` and `lsp_exit_hangs` check them as they
are, with `SessionServer.cfg` and `LspRequestsExit.cfg`.

| run | shows |
|---|---|
| conversation_safety | two iterations with two uses each and hooks on both sides, for every mode and every tool of three kinds: a transcript that can be sent, tells the truth, and shows consent and usage |
| conversation_turns | two turns, with failures: a turn ends, and the runtime implements `ToolDialogue` |
| lsp_client | three tasks on a client, a server that asks and breaks: the map of senders is that of the waiters, answers find their waiter, a failing reader wakes all, and answers arrive while the server lives. Two callers of a manager, two documents of two servers: one process per server, a document is opened before it changes and its versions grow, and calls return |
| lsp_exit_hangs | a violation: after a clean exit of the server nobody wakes the waiters |
| server_streams | two sessions, three messages, a channel of one event: nothing between snapshot and events, loss by overflow only, histories only grow, and a connected reader hears every message or is told it lagged |
| mcp_manager | two servers whose tools have one qualified name: routes, greeting, discovery, answers in step; operations end |
| mcp_out_of_step | a violation: one unasked frame shifts all later answers |
| terminal | the prompt is what was written, the editor never cuts a character or loses a draft, acknowledged turns survive two processes and torn writes unless both wrote one file, no progress line follows the last, and git commands lose no edit, report what they did and commit to no branch they mean to merge into |
| terminal_trunk | a violation: with the trunk `release/1.0`, recorded by the clone, what is published is committed to the trunk |
| providers | compaction leaves nothing uncounted and settles, calls are answered in the request, the budget of instruction files is kept and what is left out is nearest, an init loses no file of the user and leaves its own lines in `.gitignore`; calls and text arrive once, whole and unmixed, however frames and chunks are cut; a retry is earned and the last error told; the provider is the one the name and the keys stand for; saved tokens can be used |
| extensions | what was installed stays and a session that does not start has a known reason; all defects are told; a hook that is heard is judged by its exit status and the first denial wins; offered tools are those reached; what the program sets is what it reads; names of MCP tools come apart where they should |
| agents | definitions are listed once, a manifest tells how its agent ended, acknowledged edits are on disk, the pages of a search are the whole, output is whole and limits end a call, a bad request of the Python agent has a known reason, only what was approved is rendered |

Most properties are conjunctions of named parts, such as `ConversationInv ==
TypeOK /\ TranscriptWellFormed /\ UsageMatchesSession`; the comment of each part
says what it means.

Three disagreements between the code and what it says of itself are recorded
under "findings":

* `lsp/client.rs:369` has an error for a request whose channel closed, but when
  the server closes its output the reader ends with `Ok(())` and the senders
  stay in the map, so the request, or `shutdown`, waits for ever.
* `mcp_stdio.rs:708` takes the next frame for the answer. After one
  notification every later response belongs to an earlier request, where the
  tests expect the id of the request.
* `commands/lib.rs:920` keeps what follows the last "/" of the recorded default
  branch. With `release/1.0` the command takes `1.0` for the trunk, so that it
  does not leave the trunk it is on, as the test of the command expects, and
  commits there.

### What the properties concede

Where the code does not keep a promise in full, and nothing in the repository
says that it does, the property states what it keeps. A reader may take these
as the places to look at:

* Two calls for one document that overlap may misorder it (`LspDocuments`,
  `misused`); a server that exits while it starts holds the map of clients for
  ever (`StartHangs`).
* Two processes that save credentials at once share one temporary file, and
  the last writer of a session file wins (`Credentials`, `SessionFiles`).
* Overlapping edits of one file lose one of them, and cell ids of a notebook
  repeat after a deletion (`FileTools`).
* A selection whose text is deleted makes the editor panic (`LineEditor`).
* A bash command goes on after its timeout; a PowerShell command with a limit
  that writes more than a pipe holds always runs into it (`ShellCommands`).
* A compaction may part results from their use, in both agents (`Compaction`,
  `ProviderRequests`, `TonyAgent`); an interrupt of the Python agent leaves uses
  without results.
* The nearest instruction file is the first to be left out
  (`ProviderRequests`), and the Skill tool does not look where `/skills` does
  when a project has definitions of its own (`Definitions`).
* A skipped pull request may leave a new branch, a closed one is reported as
  existing; a stale record of the default branch, or a branch `main` or `master`
  that is not the trunk, is taken for it (`GitWorkflow`, `TrunkIsTold`); commands that ran before a refused one keep their
  effect (`CommandLine`).
* `permissionMode` masks what the program writes under the other name. A
  `plugins.enabled` in any file takes the place of the whole of `enabledPlugins`,
  so that a switch the program writes is never read, not even of a plugin which
  it does not name (`Settings`); a plugin tool named `webfetch` is allowed by
  `WebFetch` (`ToolRegistry`).
* A shutdown that fails leaves the earlier plugins running (`PluginManifest`).
* A hook that denies without reading its input may be taken for one that could
  not start, if it ends before all is written, and the tool runs; one that
  prints more than a pipe holds before it reads as much waits for ever
  (`HookCommands`).
* Two MCP tools may share a qualified name when a server's name has or ends in
  underscores (`McpNames`); the later one takes the route (`McpManager`).
* A page of a search past the first need not name the files of its lines
  (`FileTools`).
* A revised plan keeps the spec approved before it (`PowerGen`).
* Saved tokens that have expired, or a variable that is not text, leave a
  sub-agent without a provider although a key of another one is set
  (`ProviderChoice`).
* An init that ends as it writes leaves a torn file that the next one takes for
  the user's, or a `.gitignore` without the user's lines; a file the user writes
  between the look and the write is replaced; a `.gitignore` that the user edited
  since the look may have lost init's lines. TypeScript that only a
  `tsconfig.json` tells of is named without a check (`RepositoryInit`).

### Bounds

Each bound is a constant that appears in a guard or limits an input set.

* `MaxTurns`, `MaxIterations`, `MaxUses` (Conversation): a second iteration and
  a second use are the first that start from a transcript with results; a
  second turn is the first that starts from what a failed one left. The proofs
  do not depend on them.
* `Tasks` = 3, `ServerAsks` = 1 (LspRequests): answers of two tasks can be
  reordered around a third that fails to write. `MaxCalls` = 2, two callers, two
  servers (LspDocuments): every pair of calls meets, on one server and on two.
* `Capacity` = 1, three messages (SessionServer): a reader can miss one event
  and two, before and after its snapshot. Messages and creators are
  interchangeable, but no symmetry is declared, as the run checks liveness.
* `MaxRequests`, `MaxNoise` = 1 (McpManager): a discovery of two servers with
  two pages and a call after it; one unasked frame is enough for any shift. The
  type of an id is any natural number.
* `MaxTurns` = 2, `MaxClock` = 1 (SessionFiles): two ids and two processes make
  every case of a shared, a separate and an abandoned file.
* `MaxText`, `MaxTyped`, `MaxHistory` (LineEditor): a wide character between two
  others, two lines, one entry of the history. `MaxArguments` (CommandLine): a flag, its
  value, and words on either side of it. `MaxSteps`, `MaxBeats`
  (ProgressReporter) and `MaxEdits` (GitWorkflow): the second is the first that
  can come out of order. `Trunks`, `Names`, `Tags`: a trunk with a "/" and one
  without, each recorded, recorded when it was the other, or not at all; a
  branch `main` that is not the trunk; a tag named like the last part of one.
* `Preserve` = 2, `Threshold` = 4, `MaxMessages` = 8 (Compaction): three
  compactions of one transcript, with cuts at each place of a reply. The code's
  own values are 4 and 10,000 tokens; both appear in it only as compared here.
  `Keep`, `MaxTranscript` (ProviderRequests) likewise.
* `Total`, `PerFile`, `Marker` (ProviderRequests): 6, 4 and 1 for 12,000, 4,000
  and the mark; two contents fill the budget and one is too large.
* `MaxCalls`, `MaxFragments`, `MaxText` = 2 (StreamAssembly): two calls
  interleave, one may be named after its first argument, and a cut falls
  inside, before and after a block. `Frames` = 3 (ServerSentEvents) of every
  kind and line end, cut anywhere.
* `Width` = 4 (ProviderCalls) for the 32 bits of the multiplier, so that a limit
  above it overflows within the run. `MaxGrants` = 3, `MaxLogins` = 2
  (Credentials): a refresh after a refresh, a second login over the first.
* `Spellings`, `Values`, `MaxChanges` = 1 (ProviderChoice): a name of every
  family, an alias, one that is unknown; every state of a variable; tokens that
  change between detection and construction. `MaxUserEdits` = 2, `Markers`
  (RepositoryInit): the user edits before the look and between look and write,
  in a repository of several stacks. The markers are those of every language,
  and of Python both that it has a check for and `setup.py`, which has another.
* `MaxDeaths` = 2 (Plugins): a death inside the repair of an earlier one. One
  name in both marketplaces is where copies shadow each other and tools clash;
  names that differ share nothing but the two files.
* `MaxChanges` = 2 (Settings): a change over another, by program and user, in
  any two of the five files. `MaxWrites` = 2 (PluginManifest): a file moves
  between the two times it is looked for. `ServerLetters` = 3, `ToolLetters` = 2,
  `PartLetters`, `MaxParts` = 2 (McpNames): underscores at both ends and inside
  of a name, an escape at either side of a bar.
* `Hooks` = 2, `Pipe` = 2, `Payload` = 4 (HookCommands): a command after another,
  and a payload and an output that fit a pipe, fill it and exceed it.
* `MaxEdits` = 3 (FileTools): two calls overlap and a third replaces all.
  `SearchFiles` = 2, `DefaultLimit` = 3 for 250: a page that ends
  within a file, at its end, and exactly at the end of all.
  `Capacity` = 2, `MaxOutput` = 4 (ShellCommands): output that fits a pipe,
  fills it, and exceeds it twice. `UsesPerReply` = 3, two turns of two
  iterations (TonyAgent); `MaxPlans` = 2 (PowerGen): a plan over a plan.

Deadlock is checked for McpManager, where an operation must always be able to
go on. The other systems really stop: a session ends, every task is answered,
the bounds of a run are used up.

### Fairness

* `run_turn` is one thread that never waits for another: it goes on while every
  call it makes returns (`WF(RunTurn)`). Nothing makes a user speak again, and
  no call is assumed to succeed.
* The executor polls every LSP task that can go on, and the reader. The server
  is assumed to read and to answer while it is up, and never to exit.
  `LspDocuments` has the same for its callers; there a server may exit at any
  time, and then owes nothing.
* A handler of the session server that holds a message broadcasts it, as no
  await in between can block for ever; a connected client reads on. Creating,
  sending and subscribing are not forced.
* The MCP manager continues an operation that can go on, and a living child
  answers: the code has no time limit, so without that assumption a silent
  child blocks it, which "hazards" says. Noise and death are not forced.
* The thread of a shell tool and its clock run (`WF(Tool)`); the command it
  started owes nothing, neither output nor an end.
* The other properties are safety properties, and no fairness is used for them.

### Environment assumptions

Two commands of a person are more than a millisecond apart, so a session id is
fresh within one process (`SessionFiles`). Two reads of an atomic counter never
return the same id. Another program writing into a session file is not
modelled, apart from a second `claw`. Anthropic sends one block at a time and
nothing in `message_start`; OpenAI sends the id of a call no later than its
name, and nothing about a call after the finish reason. A reply of OpenAI that
is cut inside the arguments of a call is passed on with what there is, as
`finish` does; the tool then refuses arguments that are not JSON. One process
at a time changes the plugins, `enabledPlugins` is set in the settings of the
user only, and claw is upgraded while no session runs (`Plugins`; `Settings` has
the user edit every file). The user's edits of settings and of files under git
are atomic.

## Proofs

The theorems hold for every value of the constants, from the assumption each
module states about its own; TLC evaluates these on every run. Each proof
module states an inductive invariant `IInv`, which is stronger than what the
runs check, and shows that it holds at the start and after every action. `IInv`
was model-checked on the instance of the run before it was proved.

| module | proves | assumes |
|---|---|---|
| ConversationProofs | type correctness; results follow their uses, none is orphaned or missing; the transcript tells the truth; no effect without consent; usage; the safety part of the refinement of `ToolDialogue`: `ConversationInv`, `TranscriptTellsTheTruth`, `EffectsHaveConsent` | the counts are naturals, `Enabled` is a set of tools, a requirement for each tool |
| LspProofs | the map of senders is that of the waiters, an answer reaches its own waiter, a failing reader forgets nobody: `WaitersInv`. Each server has one process, and a client that runs has told it exactly what it believes it has: `DocumentsInv` | finitely many tasks, callers and servers; each document has a server |
| SessionServerProofs | nothing falls between snapshot and events, only overflow is lost, conversations only grow: `ServerInv`, `ConversationsOnlyGrow` | finitely many creators, a channel that holds an event |
| McpManagerProofs | greeted before used, routes are current, what was discovered is callable, a shutdown leaves nothing: `ManagerInv`; a child that never spoke unasked is answered in step: `QuietChildrenAreInStep` | each server is once in the order, and each of its tools has a qualified name (names may be shared) |
| TerminalProofs | acknowledged turns survive unless two processes shared the session or a write was cut short, the prompt speaks of the session that is open, no command leaves a torn file: `SessionFilesInv`; work in one session stays in its file: `OnlyOpenSessionsChange`. Phases are shown once and in order, nothing follows the outcome, a heartbeat never goes back or ahead: `ProgressInv`. A git command loses no edit, reports what it did and commits nothing to the branch it means to merge into, which is the trunk where a record or a name tells which one that is: `GitInv`. No sequence of keys puts the cursor inside a character or loses a draft: `EditorInv`. The file of a resumed session is what the commands that ran made of it (`FileFollows`, `HelpIsTrue`, two of the three parts of `CommandInv`) | there is a process, the bounds are naturals, each trunk has a last part, completions are texts, and a session that is resumed is longer than what a compaction keeps |
| ProvidersProofs | the saved file is whole and its tokens work, unless two processes saved at once or a grant was lost: `CredentialsInv`. The provider is the one the name and the keys stand for: `ChoiceInv`. A retry has its reason and its delay, none is left when a call is given up, and the last error is told: `CallInv`. However often a transcript is compacted, summary and messages account for all of it, in order, and a result is orphaned only at the cut: `CompactionInv`; compacting twice is compacting once: `CompactionSettles`. What a user wrote stays, however often an init runs or dies, and an init that is done found or made every file, its lines in `.gitignore` once: `RepositoryInv` | finitely many processes; a variable is unset, empty, set or garbled; widths, delays and attempts are positive; a message counts for some tokens |
| ExtensionsProofs | a hook that is heard is judged by its status, the first denial is the last verdict, and claw hangs only when both pipes are full: `HooksInv`. What is offered is what is reached, nothing is offered that no word stands for: `RegistryInv`. What was installed stays, what is loaded is wanted, and a session that cannot start has a known reason, whatever was cut short: `PluginsInv`. Of what is configured (`ConfigurationInv`): every defect of a manifest is told, tools have one name each, plugins stop in the reverse of the order they started in (`ManifestInv`); the last file that decides a setting says what it is, and what the program writes is what it reads unless something goes first, as a `plugins.enabled` does before every switch (`SettingsInv`) | a pipe and a payload of at least one unit; finitely many plugins, at least one to start, versions above 0 |
| AgentsProofs | a manifest tells how its agent ended, whichever writes fail, and agents keep to the tools of their type: `SubAgentsInv`. Only what was approved is rendered, with sessions that save over each other: `PowerGenInv`. Output is whole, a limit of PowerShell leaves nothing behind: `ShellInv`. Acknowledged edits are on disk unless calls overlapped or were cut short: `SharedFilesInv`. Results of the Python agent follow their uses through retries, compactions and interrupts: `AgentInv` | the bounds are naturals, what is kept of a transcript and the capacity of a pipe are positive, a file is a notebook, settings, to-dos or text |

Why the properties are not inductive alone, and what the invariants add:

**Conversation.** A result pushed at the end of the transcript is right only if
the head of `pending` is the use whose turn it is. `TranscriptInv` adds
`PendingHasOwner` (the uses still pending belong to the last assistant message)
and `PendingIsRest` (they are exactly those of its uses that have no result
yet). `TruthInv` adds `HereRan`, what is known of the tool under way while its
post hooks run; `ConsentInv` adds `HereHasConsent`, that between authorization
and result the consent is for the head of `pending`; `UsageInv` says that the
count over a sequence grows by one with each message counted. Each part is
preserved on its own, from the parts before it. `StepKinds` sorts the actions by
what they append: nothing, a user message, an assistant message, or the result
of the head. The refinement maps initial states to initial states of
`ToolDialogue`, and every step to a step of it or a stutter.

**LspRequests.** An answer finds its own waiter because no two tasks hold one
id: `IdsAreDrawn` ties the counter to the number of tasks that drew one, which
also keeps ids in their range. `SendersAreOfWaiters` and `WaiterCanBeWoken` are
the two directions between the map and the tasks; `QuestionsWereAsked` says that
a frame in the pipe is what a run of the server can have written.

**LspDocuments.** The map of clients is locked by a call that starts a server.
`ProcessesInv` ties the lock and every start to that call (`LockIsOfStart`,
`StartsAreOfHolders`) and says that a process that runs is in the map or one
that a shutdown will come to (`RunningAreKnown`). `KnowledgeInv` is about client, server and document: a
document has one user at a time (`OneUser`), who knows between look, write and
record how far client and server are apart (`UsersKnow`); at rest the two
agree (`RestKnown`). It excepts the documents that calls used at once.

**SessionServer.** The same count of drawn ids shows that racing creators never
insert over a session. `MessagesAreOnce`: a message is pushed once and broadcast
once. `SnapshotFits` and `SeenIsExact` relate a stream to its session: every
message is in the snapshot, ahead of the cursor or in flight, one in both was in
flight at the subscription, and what was seen is what the cursor passed while
the channel kept it.

**McpManager.** An operation visits each server once (`todo` is injective), and
the remaining tour says what is still to be done: `DiscoveredSoFar` has routes
for the servers behind it, which lead to servers that will not be cleared any
more, and `StoppedSoFar` no process. `GreetingsAreTold` says that a success
of `initialize` in a pipe is of the child that lives now, as a new child gets
new pipes. `QuietPipes` carries the second theorem: between a quiet child and
the manager there is at most one frame, the last request or its answer. The
proof splits it into types, greetings, routes, discovery, shutdown and pipes,
each with its own step lemma.

**Credentials.** `OneWriter`: until two processes save at once only one writes,
and what it is about to rename is what it wrote. `TokensWork`: tokens on their
way to the file work, and those in the file do when none are on their way; while
some are, the file may hold a refresh token that was used up.

**SessionFiles.** What survives is in memory while the file is truncated, so
`MemoryHasAcked` says of every process with a session to itself that it holds
all acknowledged turns of it, and `SharingIsKnown` that a session which is not
`shared` has only one such process: another one's write would bring back its own
turns only. `NoFileNothingAcked` covers the ids that were never written. The
proof has one lemma for the commands, which only fill the memory (`HoldStep`),
one for every way to end, and one for each step of a save.

**ProgressReporter.** A snapshot is never ahead of the state, and no heartbeat
that was written is newer than the last snapshot, whenever that was taken
(`SnapshotsAreOld`); `ThreadsMeet` says who may write at the start and the end,
and that the outcome is written when both threads are over.

**GitWorkflow.** `StepsAreDone` says at each process of a command what the ones
before it did: nothing of what was asked about is unstaged after `git add`,
nothing staged after `git commit`, and the remote has the branch after `git
push`. `RunningKnows` ties what the command remembers to the branches as they
are, and `RepositoryIsSound` has each edit in the work tree, staged or on a
branch. Whether the trunk is told is noted when a command begins (`told`) and
still so when the default branch is looked for, as branches change between
commands only; then the answer is the trunk, and a command that is on it
leaves it before it commits.

**LineEditor.** That the cursor is between characters is not inductive alone:
`dd`, `p` and the keys that go up and down cut and move at newlines, which is
between characters only because in a text the bytes of a wide character are
never apart (`IsText`). `TextsAreWhole` says so of everything that may become the
text: the draft, the history, the command and what was yanked. `SpliceIsText` is
the lemma all edits rest on; `ColumnsAreTaken`, that a line which is long enough
has a place in every column, is proved from the least place beyond the one
reached, without induction.

**CommandLine.** `ResumeIsDecided` ties the commands that are left, and those
carried out, to the decision that was made of the words; nothing else resumes.

**ProviderChoice.** Names are resolved to the end once a provider is looked for
(`NamesAreResolved`). `ChosenForAReason` says of the moment of the choice what
can still be told afterwards: variables stay, saved tokens may have changed
since. `CarriedIsHeld` says the client holds what the chosen provider's
variables and the tokens gave when it was built.

**ProviderCalls.** `AttemptsAreLimited` has both bounds of the loop, the limit and
the width of the multiplier; `AnswersAllowIt` says what every attempt so far
came to and what each end means, `DelaysAreTheirOwn` that the k-th delay is
that of the k-th retry, and `PartsAreKnown` that parts passed on are from
attempts that ran into a timeout, or from the present one.

**HookCommands.** A command has read no more than was written and claw has taken
no more than was printed (`PipesAreSound`); `ProgressIsKnown` says how far each
side is when it is gone or waits, so that a wait without end means two full
pipes; `CommandsAreLeft`, that no command has denied while others are to run.

**ToolRegistry.** `AllowedIsResolved` remembers that each word was known to the
plugins of the moment it was resolved against, whatever is enabled later, and a
session that is up has a registry without two tools of one name, so that the
first of that name, which runs, is the last, whose permission is asked for.

**Plugins.** Of the files alone nothing is inductive: a sync cut after its first
directory leaves what the next one repairs. So the invariant speaks of the
steps an operation still has to do: the next steps leave a plugin's copy, record
and switch as a report to come will say (`AcksAreEarned`), keep what was reported
(`AckedIsKept`) and what was asked for (`WishesAreKept`), and renew what comes
with claw before it is scanned (`BundledAreRenewed`). `WhatIsCutIsKnown` has
a reason for everything that is not whole, `InOrder` says that an operation ends
in sync, scan and load. Four lemmas carry every action: a step half
done, a step done, steps put before the rest, and an end.

**PluginManifest.** That every defect is told holds of each manifest, whatever
was written before: `EntriesAreTold` compares what is told of the tools with
the tools that are defective. `LifecycleIsInOrder` says how many plugins were
started and stopped at each point, in place of the lists.

**Settings.** What is merged is, path by path, what the last file says that
decides it (`Layers`), so that a change of one path leaves what is read of the
others; a report is checked by the step that makes it. The invariant adds that a
file that does not parse counts as one without values.

**SubAgents.** The invariant relates manifest, output, outcome and failed writes
stage by stage (`BeforeTheTurn`, `WhileRecording`, `Afterwards`), and what ran to
what the type may use (`ToolsOfTheType`). Agents share no file, so a step has to
see only to the agent that moves (`OneAgentMoves`).

**PowerGen.** What is saved may be loaded by another session, so soundness is
said of every project in memory and of the one on disk: it is coherent, and a
spec it has was approved, also one kept from an earlier plan. `OneAtATime` and
`RenderingLeavesAFile` say what two sessions and an unfinished rendering may do.

**Compaction.** The scopes of a summary are a sum, and what a fold computes is
proved by a least counterexample: `SumsExist` builds the sums of the parts of a
sequence, `SumsAgree` says that two that agree on the first numbers have the same
sum of them, and `CountedAdds` is what the model needs. `Answers` makes
`OrphansOnlyAtTheCut` inductive: between a result and the message it answers
there are only results, so that when the message is cut off, all before the
result are results too; `Asked` says that the message whose results are owed is
the last of the assistant's, which needs that no compaction comes within a turn.

**RepositoryInit.** `FilesAreFound` says which files are there while an init is
at work, and that one that is torn is being written or was when an init ended;
`LinesAreCarried`, that an init about to write a file the user wrote writes
`.gitignore`, and that their line is in what it writes, unless the file was
written between its look and its write, or an earlier init ended as it wrote it.
`EntriesAreThere` says the same of init's own lines, from the look on.

**ShellCommands.** What a command wrote is in the pipe or was read, but for what
bash gave up (`OutputIsKept`). `NothingLingers` and `EndsAreKnown` say what is
left of a child at each phase; `PollsReadLate`, that PowerShell with a limit
reads nothing while the child runs, so that one that ended by itself wrote no
more than a pipe holds; `AnswersAreTrue`, what each answer says of the end.

**FileTools.** A call works on what it read, so the invariant speaks of each file
and of the calls under way on it. `CleanIsAlone`: where nothing went wrong there
is at most one, it will write its operation on what was acknowledged, and
without one the file is what was acknowledged. `WholeIsWhole`: a call that
replaces everything writes just that, whatever it overlaps with.
`CellsAreNumbered`: the ids of the cells of a notebook are their numbers in some
order until a cell is deleted, on disk and in the hands of every call, so the
next id is free.

**TonyAgent.** `ResultsAreAnswers` and `UsesAreSettled` are the two directions
between uses and results. The cut of a compaction keeps `Keep` messages behind a
summary, so a result without its use can only be the second message, and stays
so when the transcript grows; `ToolsAreOfTheReply` has the uses under way belong
to the last message, `OpenUsesAreKnown` says which use the slot of the collector
may still hold when a text block stops.

Checked by TLC only:

* liveness, which is beyond this prover: that turns and exchanges end, that
  requests and calls return (`RequestsReturn`, `CallsReturn`), `EveryoneHears`,
  `OperationEnds`, and the limits of commands (`LimitsHold`);
* what is computed over data. `ExchangeInv`,
  `InputInv` (but for the two parts named above),
  `ConfigurationInv` (but for `ManifestInv` and `SettingsInv`), `FindingsInv` and `RefusedForAReason` compare the result of a fold, a flattening, a sort or a
  recursion over sequences with a definition of what it should be, and nothing
  installed proves by induction what such an operator computes for every input;
  a least counterexample, as for the sum of Compaction, would have to be spelled
  out for each.

## Not modelled

The "components" of `PROJECT.json` give the reason for each part left out: text
or pure I/O without lasting state (hashes of MCP servers, remote session, JSON,
markdown rendering, manifest extraction, presentation content), third-party code, and the placeholder packages.

Within the modelled parts:

* the words of messages, summaries, prompts, reports and hook feedback; JSON and
  HTTP; display; and the ids the provider chooses, which are any values and may
  repeat;
* PKCE and URLs;
* the stored diagnostics of language servers, glob, web and sleep tools, patterns
  of a search that match across lines, and the `select:` form of ToolSearch, which change nothing;
* `--flag=value`, which does what the flag and its value in two arguments do;
* external plugin directories and plugins fetched with git; OAuth and sandbox
  fields of the settings, parsed like the others.

Three things are modelled although the program does not reach them from its
entry point: the lifecycle commands of plugins (`initialize` and `shutdown` are
for a host to call), the git handlers of the commands crate other than
`/commit`, which the terminal does not call, and the sessions of `powergen`,
whose `main` uses a name that does not exist (`cli.py:53`) before it parses
anything.

## Plan

Modelled in the order of the first plan: the conversation and its dialogue,
permissions, compaction, session files, servers and children, streams, plugins;
then frames, retries and credentials, sub-agents, documents, the Python agent
and the generator, shared files and searches, shell, settings, registry, hooks,
names, terminal; last the choice of a provider and `init`. Proved first: the
conversation, the session server, LSP requests, the MCP manager, session files,
credentials, sub-agents and the generator; then documents, progress and git,
shell commands, shared files and the Python agent, hooks, the registry and the
plugins, the choice of a provider and calls, the line editor, compaction,
`init`, plugin manifests and settings. Left: `CompactedConversation`, the
runtime with compaction between its turns, as one specification.
