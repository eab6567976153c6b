# A verification of cxxmcp-examples

The repository holds example programs and validation harnesses for the C++ MCP SDK
`cxxmcp`. The SDK itself is not in it. Most programs are straight-line users of the
SDK; the ones with logic and state of their own are the two conformance harnesses,
`validation/conformance/conformance_everything_server.cpp` and
`conformance_everything_client.cpp`. In the server, a task store runs one thread per
task under concurrent request handlers, and a set of tools converses with clients in
several rounds without keeping anything between them. In the client, an authorization
session follows a resource from one authorization server to another. Beside them stand
nine tool servers under `examples/servers`, a transport that blocks, and programs that
time requests out and cancel them. All of these are modelled and model-checked, and every
safety property that holds is proved as well. What is left are straight-line uses of the
SDK; section 5 lists them.

## 1. Inventory

| Component | State | Operations and interactions | Hard behaviour | Correct when |
|---|---|---|---|---|
| Task store (server, 577-918) | `g_tasks` (registry), one `TaskRecord` per task with a mutex and a condition variable, a detached thread per task | `start_task` from tools/call; `run_task` in the thread; tasks/get, tasks/update, tasks/cancel from any request thread | threads against handlers, waits and notifications, unlocked reads, exceptions in a detached thread | outcomes are consistent and final, a cancelled task never settles, every cancelled or answered task finishes |
| Multi-round tool calls (server, 29-87 and 1087-1547; client, 235-316) | none in the server: a signed `requestState` travels with the client | one handler per tool; the client answers prompts and echoes the state | lost replies, repeated and out-of-order rounds, states of another tool | rounds cannot be skipped, a client that follows them is never refused and comes to the end |
| Synchronous tools, fixtures (server, 120-365, 920-1046, 1548-2121) | none | one reply per request; sampling and elicitation call back the client | callbacks inside a handler | replies match the request |
| Encodings (server, 367-547) | none | base64, SHA-256, header values | padding and boundaries | equal to the reference definitions |
| Authorization session (client, 384-1217) | `manager_`, discovered metadata, `configured_`, `preconfigured_client_`, `dpop_enabled_`, `state_counter_` | `refresh` on every 401/403: discovery, registration, redirect, token exchange | migration between servers, replayed redirects, nonce retry | a code is exchanged only for the current authorization, at the current server |
| Graceful shutdown (`examples/transports/graceful_shutdown.cpp`) | `closed_`, `incoming_`, `sent_` under a mutex | `receive` blocks; `close` wakes it; `stop` and `wait` of the service | lost wakeup at shutdown | `stop` ends the service thread |
| Request timeout and cancellation (`timeout_cancellation_client`, `async_request_matrix`, `client_inbound_cancellation_matrix`, `task_cancel_matrix`) | notifications under a mutex, pending requests of the SDK | a request with a timeout or a token; cancel is idempotent | a late answer races the timeout | no requirement of main fails, and nothing outlives what it refers to |
| Server transports (`native_server_transport_matrix`, `transport_adapter_matrix`, ...) | scripted queues, used from one thread; the adapters are the SDK's | `send`, `receive`, `close` | - | - |
| Callbacks from server to client | recorded calls | handlers answer roots, sampling, elicitation | re-entrance | each request reaches its handler |
| Subscriptions, policies, pagination | subscriptions, rate counters, cursors | subscribe, notify, list pages | cursors and limits | no page twice, none missing |
| HTTP and gateway probes, runtime services, smoke tests | in the SDK | sequential calls | - | - |
| File tool servers (csv, jsonl, json, compile_commands, log triage, workspace) | none between calls | bounded read, parse, summarize | bounds, truncation, boundaries, text that is not UTF-8, files and trees that change meanwhile | what a reply says is true of the file, unless it says that it was cut |
| Command tool servers (git, sqlite, ctest) | none between calls | run a command, bound its output; `allow_run` gate | truncation across chunks, limits appended to a text | a prefix of the output whose loss is reported, the command's own verdict |

`PROJECT.json` lists each of these as a component with its status, and under
`hazards` the places in the code that a test hardly reaches, with the properties that
watch them.

## 2. The modules

```
TaskStore            the threads, handlers and records of the task store
 `- TaskStoreProperties    what it promises
     `- TaskStoreRefinement    mapping to TaskLifecycle; inductive invariant IInv
         |- TaskStoreProof            type correctness, IInv, six safety properties,
         |                            refinement, FirstAnswerStands
         `- MCTaskStore               for TLC
TaskLifecycle        abstract specification of a task
Mrtr                 the stateless handlers and their client
 `- MrtrProperties         what they promise; inductive invariant GrantInv
     |- MrtrProof                 type correctness, GrantInv, CompletionWasGranted,
     |                            ByTheBookIsAccepted
     `- MCMrtr                    for TLC
AuthSession          the client's authorization session, its servers and its SDK
 `- AuthSessionProperties  what it owes them; inductive invariant IInv
     |- AuthSessionProof          type correctness, IInv, four safety properties
     `- MCAuthSession             for TLC
CommandTools         the git, sqlite and ctest servers and the commands they run
 `- CommandToolsProperties inductive invariant IInv
     `- Servers                   composed with
         |- LogTriageServer           reads of a log that is being written
         |- WorkspaceServer           walks over a tree that changes
         |- ServersProof              all safety of the three
         `- MCServers                 for TLC
BlockingTransport    receive, close and stop around one condition variable
 `- Programs                  composed with
     |- RequestTimeout            requests that time out or are cancelled while sent
     |- InboundCancellation       a cancellation that meets the handler of its request
     |- ProgramsProof             all safety of the three
     `- MCPrograms                for TLC
Sha256               buffering and padding of the digest
 `- Sha256Properties       inductive invariant IInv
     `- DataTools                 composed with
         |- CsvServer, JsonlServer, JsonFileServer, CompileCommandsServer
         |- ParamHeader               the Base64 header of test_header_echo
         |- DataToolsProof            induction and facts about sequences; headers,
         |   |                        SHA-256
         |   |- TextServersProof          csv and jsonl
         |   `- DocumentServersProof      compile_commands and json
         `- MCDataTools               for TLC
FileText             bounded reads and line splitting, which four servers share
```

What a module promises is in its `...Properties` module (in the module itself for
`BlockingTransport`, `RequestTimeout`, `InboundCancellation`, `CsvServer`, `JsonlServer`
and `JsonFileServer`).

*The three compositions.* `Servers`, `Programs` and `DataTools` each put programs side
by side that share nothing: a variable (`program`, `server`) that never changes
says which of them a behaviour is of, and the variables of the others stay as they
begin. The reachable states are the disjoint union of those of the modules checked one
by one, and each has the fairness of its own module. A property of such a run is the
conjunction of the module's type invariant and the promises of its `...Properties`
module, and has a mutant for nearly every one of these.

### TaskStore

One record per task id; each field of `TaskRecord` is a function on `Ids` with the
name it has in the code. `pc[t]` is the place of the worker thread of `t`, `slices`
and `action` are its local variables, `create[t]` is the place of the handler that
creates `t`, `seen[t]` the last status a client was told, and `up` is FALSE after
`std::terminate`.

*Atomicity.* Everything the code does under a task's mutex is one action, because the
mutex excludes all other readers and writers of the record; what happens between two
such sections is a separate action, so any number of handlers interleave with the
worker there. The unlocked accesses are actions of their own: the status read in
`create_task_result_json` (its race with a writer yields the value "torn") and the
answers read after `wait_for_inputs`. Looking a task up and locking it are one action:
the registry only grows and `find_task` returns a shared pointer.

| Code | Action |
|---|---|
| `start_task` | `AllocateTask`, `InsertTask`, `SpawnWorker` or `SpawnFails` (std::thread may throw), then `CreateReply` |
| `run_task`, sleeping tools | `BeginSleep`, one `SleepSlice` per turn of `sleep_slice`, `Finish` or `MarkCancelled` |
| `run_task`, prompting tools | `BeginPrompt`, `WaitForInputs` (evaluate the predicate, block or go on), `SpuriousWake`, `ReadAnswers`, `Finish` or `MarkCancelled` |
| uncaught exceptions of the worker | `BadArguments`, `BadAnswer` |
| `task_complete`, `task_fail` | `Settle` inside `Finish` |
| tasks/get, tasks/update, tasks/cancel | `TasksGet`, `TasksUpdate`, `TasksCancel` |

`condition_variable::wait` with a predicate is the pair `wait`/`blocked`: the worker
evaluates the predicate under the mutex and blocks in the same step, as the code does,
and `notify_all` sends it back to evaluate. Payloads are members of small sets: an
answer is accepted, declined or malformed, arguments are of the right type or not.
Time stamps, texts and `ttl_ms`, which no code reads, are left out.

### TaskLifecycle

A task as a client may think of it: absent, working, input_required, completed,
failed or cancelled, and the prompts pending. It asks before it completes if it is a
task that asks, it settles only when nothing is pending, it can be cancelled while it
is live, and the three outcomes are final. `ImplementsLifecycle` maps the status of the
store to it with one exception that the code needs: "input_required" with the cancel
flag raised counts as cancelled, because a worker that prompts after the cancellation
overwrites the status for a while (see the findings). Any other status after a
cancellation, a completion above all, breaks the refinement.

### Mrtr

The handlers keep no state, so each is an operator from a request to a reply, and
`handle_raw_request` dispatches to them in the order of the code. A `requestState` is
"", a datum under a valid signature, or "forged", which stands for anything
`verify_state` rejects; the signature is a hash with a constant secret, so accepting
exactly what was signed is what `verify_state` does. An answer is "accept" or
"decline" (objects), "scalar" (no object) or "odd" (an object with a member on which a
typed accessor throws). The state of the module is what a client knows: `held`, the
signed states it received, and `last`, the last request with its reply, which may be
`lost`. `FollowUpRequest` is what `make_mrtr_input_responses` and `run_mrtr_client`
send: every elicitation accepted, nothing else answered, the state echoed. `Deviate`
is a client that keeps to no round.

The external parts are the HTTP transport, which may lose a reply (`Retry`), and the
conformance clients that tamper with rounds (`Deviate`).

### AuthSession

The variables with a trailing underscore, and `issuer` and `metadata` (of
`authorization_server_`), are the members of `ConformanceAuthSession`; `client` is the
client `manager_` is configured with: "given" by the context, "cimd", or the server
that registered it. `scenario`, `context`, `openssl` (a build option) and `advertises`
are fixed for a run. The client is one thread, so `pc` is the place of its next HTTP
exchange, and everything up to it is one action.

| Code | Action |
|---|---|
| a request of `run_auth_scenario` and its answer; the SDK calls `refresh` | `CallAnswered`, `Challenge`, `GiveUp` |
| `refresh`: `configure` or not | `Configure`, `Reconfigure` (with its reset), `StayConfigured` |
| the rest of `configure`, with the legacy discovery and the issuer check | `Discover`, `IssuerMismatch` |
| the four direct grants | `DirectGrant` |
| `authorize`, scope upgrade | `StartAuthorization`, `StartSession`, `RequestScopeUpgrade` |
| `complete_authorization` | `CompleteAuthorization` (`TakeAnswer` or `RefuseAnswer`) |
| `post_token_endpoint_request` and the grant | `NonceDemanded`, `TokenGranted` |
| any of these fails | `ExchangeFails` |

The world is external: the resource moves (`Move`) and revokes (`Revoke`) while an
exchange is under way; an authorization server advertises any of the three features
the session looks at. With `Faults`, exchanges fail, metadata state another issuer or
none, and the answer to an authorization is an earlier one, or of another server, or
lacks `iss`. A server never states the name of another as `iss`, and redeems only its
own codes; without the first the `iss` check could show nothing. What the session
uses of the SDK is assumed as it is used: `start_session` registers a client at the
current server, `analyze_auth_response` makes a 401 an authorization and a 403 for
scope an upgrade, and the SDK gives a request up after `MaxRefreshes` challenges. PKCE,
scope lists, URLs, bodies and signatures are left out: no decision of the session
depends on them.

What `configure` learns is one record (`Discovered`): the list of servers the resource
gives, the issuer that the metadata of the first one states, and its features. With
`Faults` the list may be missing or name several servers. `IssuerListed` is
`validate_authorization_server_issuer`: metadata without an issuer and a list without
servers pass, otherwise the issuer must be listed. In the two 2025-03-26 scenarios
(`Legacy`) the metadata at the origin of the resource names the server itself, so that
any issuer passes, or no metadata are there and a server without features is assumed.
`RedeemedWhereIssued` therefore speaks of the server that the metadata *name*, and of the
server that was asked only where the list has no other.

### CommandTools

`run_command` is one loop in three files, with three differences, which are parameters
of the actions. A buffer that `fread` fills is `ReadFull`, the short one at the end of
the output `ReadLast`, an error of the pipe `ReadFails`; `Keep` is what is appended and
what is dropped, `Close` the exit status through `decode_exit_code`. What happens
before, the checks of a path, of a statement (`read_only_sql`, `with_limit`) and of
`allow_run`, is `Call`; the presets file is read in `ReadPresets`. A query is what its
text has of the things that decide over its limit (`Statements`): the word it begins
with; the words " LIMIT ", which may be its limit or stand in a literal, a comment or a
subquery, or a limit behind a line break, which the server does not look for; and what
follows it, a semicolon, a comment or a second statement. `Appended` is what `sqlite3`
makes of a clause put behind such a text. The bytes of an
output are their places in it, so that a prefix is a prefix. The command is external:
it prints what it was asked for, fails as it likes, and dies of SIGPIPE only if its
pipe is closed before its end. `Disturb` changes the presets file between the check
and the read.

### The file tools

A call of `csv`, `jsonl`, `json_file` and `compile_commands` reads its file once, so it
is one action; the file may be extended between calls (csv, jsonl) or is chosen at the
start, missing and irregular ones included. A file is a sequence of bytes where bytes
matter (csv, jsonl) and a document with a size where they do not (json,
compile_commands), which white space and other text may follow; `end` is where the other
text begins. Files of bytes need not be UTF-8: "lead" and "trail", the two bytes of a
character outside ASCII, occur alone as well. `Json::parse` is external: it accepts the
texts of the model that are JSON. What a cut file parses to is spelled out, because the
servers differ there: a cut line of JSONL may still be a value, a cut number a number, and
a document whose tail is cut off is not known to have one.

A line of JSONL is a number, a string or an object with one member or none (the byte "k"
stands for the member `"k":1`), or malformed; `Reading` is the parser after each byte of
it. The exception of a malformed line quotes the bytes up to the error, and both csv and
jsonl render their replies outside the `try`: if these texts are not UTF-8 the whole call
fails (`throws`). `json_file` and `compile_commands` render inside of it or have no text
to quote but that of the parser's error, which the SDK serialises.

`logs.digest` and `logs.find` read line by line while the log is written (`Write`), so
a line is an action; the last line is open and may still grow after it was read.
`workspace.scan` and `workspace.search` are a walk of one entry per action over a tree
whose entries vanish, come back and are written to (`Change`). `stack` is the iterator's,
`Descend` and `Ascend` its external moves, and an entry may vanish between the step onto it
and any question asked about it: its type, its size, the opening and the reading of it are
actions of their own (`ScanKind`, `ScanSize`; `SearchKind`, `SearchSize`, `SearchOpen`,
`SearchRead`). A file that is written to during a call has any size and any lines from then
on. Links are kinds of entries, to files and to directories; `Rel` is what they lead to,
and a link whose target is gone is no file and no directory (`There`). A directory that
may not be opened is passed over without a word (`skip_permission_denied`), and a root may
be denied, unreachable or absent. A pattern that is no regular expression throws before
the walk.

### BlockingTransport

`Lock`, `Decide` (the predicate, under the mutex), `Wait` (release and block, one step
as `condition_variable::wait` guarantees), `Wake` and `Leave` are `receive`; `CloseLock`,
`CloseSet` and `CloseNotify` are the three steps of `close`, with the mutex released
before the notification, and `Join` the `wait` of the service. The receivers are a set;
the program has one.

### RequestTimeout and InboundCancellation

Both are programs about time, so time is in the model: each thread has a countdown to
its next step, `Tick` moves all of them, and a thread may run up to `Lateness` ticks
late. In `RequestTimeout` main sends the request that times out and the one it cancels,
the executor's workers are inside `send` of the transport, and main sleeps before it
destroys it. In `InboundCancellation` the second thread may start at any time, since
nothing bounds it: main gives up after its attempts and unwinds its stack, where the
destructor of the future waits. The executor and the peer are of the SDK: that a request
which is resolved takes no later answer is assumed of them, and no property is about it.

### Sha256 and ParamHeader

`Sha256` has one action per byte that `update` or `finish` puts into the buffer;
`transform` is abstracted to the bytes it was given, since the property is about which
bytes are hashed. Its `Byte` writes the lower four bytes of the length and zeros above
them, which is the code for messages below 2^32 bits. `ParamHeader` decodes four characters at
a time; a character is its six bits, the padding or foreign to the alphabet.

## 3. What is checked

| Run | Question | Bounds | States |
|---|---|---|---|
| `task_store` | consistency, finality and justification of outcomes; refinement | one task, every tool, every kind of argument and answer, sleeps of up to one slice for slow_compute (10, 1 and 2 for the others) | 2 thousand |
| `task_store_liveness` | no lost notification, two tasks at once | two tasks out of confirm_delete and slow_compute | 70 to 90 thousand |
| `reported_cancel` | finding 1 | as `task_store` | |
| `mrtr` | rounds cannot be skipped; the dutiful client is never refused | every tool (one of the four optional task tools, which share a branch), all sets of declared capabilities | 45 thousand |
| `mrtr_liveness` | conversations end | the same, clients that keep to the rounds | 9 thousand |
| `required_task`, `name_gathered` | findings 2 and 3 | as `mrtr` | |
| `auth_session` | codes, registrations, proofs and tokens kept apart by server | two servers that differ in all they may advertise, either of them first, six of the nine kinds of scenario (the others do the same), faults, two moves or revocations at any point, two challenges per request | 5.9 million |
| `auth_session_liveness` | the session ends; migrations pass | the same servers, three scenarios, no faults, two moves or revocations, six challenges per request | 350 thousand |
| `servers` | what a reply says is true, and every call is answered | commands: a buffer of 3 bytes, outputs of 0 to 7 bytes, limits below, at, above and out of range, every tool, eleven queries that between them have every kind of first word, limit and tail. Logs: up to 3 lines of up to 2 words, written at any point. Trees: 8 entries, plain, hidden, not to be opened, linked file and linked directory, every kind of root, two changes at any point | 88, 267 and 342 thousand |
| `programs` | programs of several threads end in order | shutdown: two receivers, two spurious wakeups. Timeout: its times in ticks of 10 ms, threads up to 70 ms late. Inbound cancellation: its times, 10 attempts for 100, threads up to 200 ms late, the second one without bound | 255 thousand |
| `data_tools` | what is read is what is written, at every cut | csv: all files of up to 5 bytes out of letter, comma, quote, CR, LF, a character of two bytes and half of one, reads of 1, 3 and 4 bytes. jsonl: the same out of those that the values of the model, malformed lines and cut characters need. json: four documents, one with the keys "~", "/", "~1" and "", with white space and other text behind them or not, all 781 pointers of up to 4 of their characters. Databases of up to 3 entries, well formed or not, with the same behind them. Headers: payloads of up to 8 characters out of two letters, padding and a foreign one, two headers. SHA-256: the sizes of the code, every length up to 130 bytes | 2.8 million |

| Property | About | Conjuncts, beside the types |
|---|---|---|
| `CsvRepliesAreTheFiles` | rows and fields of csv | `RowsAreFirstLines`, `FieldsFollowTheQuotes`, `FieldsComeBack`, `RendersUnlessCut` |
| `JsonlRepliesAreTheFiles` | counts, the cut line, text that cannot be rendered | `LinesAreFirstLines`, `CountsAddUp`, `OnlyTheCutLineIsMisjudged`, `RendersUnlessCut` |
| `JsonRepliesAreTheFiles` | pointers and summaries | `EveryValueIsReached`, `OnlyTheNamedValue`, `SummaryIsTheFiles` |
| `CompileCommandsRepliesAreTheFiles` | counts, samples and matches | `AnswersAreWhole`, `CountsAreNotSampled`, `ShortAnswersAreComplete` |
| `HeadersAreDecoded` | the decoder against the grammar and the encoding of RFC 4648 | `DecodesExactly`, `EchoesTheToken` |
| `IInv` (of `CommandTools`) | outputs, losses and verdicts | `OutputIsPrefix`, `LossIsReported`, `VerdictIsTheCommands`, `AnsweredQueryIsLimited` and what makes them inductive |
| `LogIsReported` | a log while it is written | `DigestIsOfTheFirstLines`, `SamplesAreTheFirstSevere`, `MatchesAreComplete` |
| `WorkspaceIsReported` | walks over a changing tree | `ScanIsComplete`, `TotalsAgree`, `SearchIsComplete` |
| `ServersAnswer` | liveness | one for all servers: what is `Busy` is at last `Served` |
| `RequestsAreGivenUp` | the timeout program | `RequirementsHold`, `TransportOutlivesSends` |
| `HandlersAreCancelled` | the inbound cancellation | `CancelsUnderTheHandler`, `LocalsOutliveTheThread` |
| `EverythingEnds` | liveness | `StopEnds`, `ProgramEnds`, `MatrixEnds` |

*Why the bounds are enough.* Tasks share only the id counter, the registry and the
process, so what can go wrong within a task shows with one; two tasks are run to see
one worker's wait unaffected by another's notifications. More slices repeat the same
turn. What is proved (section 4) holds without any bound. In `Mrtr` there is no bound on the number of rounds: the state space is
finite because a client can only hold the five signed data. One client is enough since
the server relates no two of them. A deviating client gives the same kind of answer to
all the prompts it answers; the handlers ask only whether each prompt has one, and the
handlers that read an answer have one prompt.

In `AuthSession` two servers are enough for an old and a new one, and two
disturbances for a move there and back, or a move between challenge and answer. The
liveness run allows more challenges than two disturbances and the scope upgrades can
cause, so that giving up is not what ends a session.

For the file tools the bounds matter only against each other: a limit must fall below,
at and above the size it limits, and inside a line, a quoted field and a character; the
small files are all enumerated, so each of these happens. Three lines let a log end
before, at and behind a limit with a line still open. Two changes let an entry vanish
and come back within one walk. In `RequestTimeout` the lateness is close to the largest
at which the margins between timeout, handler and sleep still hold; that threads are
no later is the one thing the program asks of the system (`Lateness`).
The padding of SHA-256 depends on the length modulo 64: 130 covers two periods, and
the proof every length.

*Fairness.* Weak fairness on each creator and each worker thread: the operating system
runs every thread that can run, and a worker that is not blocked has always a step. A
blocked worker has none, so it finishes only if it is notified: fairness does not hide
a lost wakeup. Clients and spurious wakeups have no fairness. `Mrtr` assumes that a
client in a conversation goes on with it and that not every reply is lost
(`BookSpec`); only `ConversationsEnd` uses it. `AuthSession` assumes that the
session's thread runs and that an exchange is answered or fails, which the timeouts of
the HTTP client see to; the environment has no fairness. `CommandTools` assumes that a
call in progress goes on (a command that prints without end is not in the model),
`LogTriageServer` the same of a digest, `WorkspaceServer` of a walk over a tree that
changes a bounded number of times; what clients and other programs do is never fair.
The pipe of `CommandTools` never blocks a command, so that `ServersAnswer` does not show
what a command would do whose output is not drained; that it is drained is part of `IInv`.
`BlockingTransport` assumes that each thread runs: a blocked receiver has no step, so `StopEnds` rests on the
notification. The two programs about time assume that time passes and, in
`InboundCancellation`, that the second thread starts some day.

The task store, the multi-round calls, the session and the servers of `MCServers` are
checked for deadlock: a client can always call again, a terminated process stutters
through `Terminated`, and an ended session through `Ended`. The programs of `MCPrograms`
and `MCDataTools` end (a file server waits for calls, but a digest and a header are
done), so these two runs do not check deadlock; that a program of `MCPrograms` ends as
it should is `EverythingEnds`.

### Findings

1. `reported_cancel`: a cancelled task can be seen "input_required" again. `run_task`
   assigns the status (lines 749 and 774) without the look at "cancelled" that
   `task_complete` and `task_fail` take (645, 654), although `task_is_terminal` (598)
   counts it as final. The worker marks the task cancelled afterwards
   (`CancelStopsWorker`) and never completes it (`CancelledNeverSettles`), so the
   regression is visible but temporary.
2. `required_task`: the comment at line 1501 promises -32021 to clients without the
   tasks extension; `test_tool_with_task` asks such a client for a name first.
3. `name_gathered`: the comment at line 1504 says that the name is gathered first;
   an `inputResponses` that answers nothing starts the task without one.

Two further weaknesses of the server are in the models and contradict no documented
claim: a failed `std::thread` constructor leaves a task "working" for ever, and a
signed state is accepted by any tool that verifies one, since it names neither tool
nor client.
Neither do the following, which the properties of the tool servers state as they are:
`row_limited` of csv and `truncated` of `logs.find` are set at the limit although
nothing may follow; a csv file that is not UTF-8, or is cut inside a character, makes the
call fail, and so does a malformed line of JSONL with a character outside ASCII
(`RendersUnlessCut`); a field of csv with a line break is read as two rows;
`compile_commands.find` and `logs.digest` stop at their limits without a flag;
`json.pointer` does not say that its input was cut, so that text behind the document may
have been; the Base64 decoder ignores the bits behind the last byte and so accepts
payloads that no encoder writes (`DecodesExactly`). `sqlite.query` keeps to `max_rows`
only for one SELECT without a comment behind it and without the words " LIMIT " anywhere:
a second statement, a comment or a literal with these words is answered without the limit,
and a semicolon makes the query fail after it was run (`AnsweredQueryIsLimited`). A
directory that may not be opened is left out of a scan or a search without a warning
(`Reached`). `workspace.scan` and `workspace.search` may enter a hidden
directory: its type is asked at workspace_server.cpp:234-240, and if the directory is gone
at that moment `disable_recursion_pending` is not called; if it is back by the next
increment it is opened. What is below it is hidden by its own relative path, except a
link to what is not hidden, which is then shown. It takes three changes, so
`ScanIsComplete` says what may be shown (`Visible`) apart from what must be (`Wanted`).

## 4. What is proved

All proofs are checked by TLAPS for every value of the constants, from the assumptions
`BoundsAssumption` and `InputsAssumption` (`TaskStore`) and `CallsAssumption`
(`Mrtr`), `ServersAssumption`, `WorldAssumption` and `LimitsAssumption`
(`AuthSession`), `CommandAssumption`, `LogAssumption` and `WorkspaceAssumption`
(`Servers`), `BlockingTransportAssumption` and `TimesAssumption` (`Programs`),
`Sha256Assumption`, and the five of `DataTools`: the bounds are natural numbers, at least one task; tools, answers,
calls and scenarios are among the modelled ones, and servers and threads differ from
the markers that stand for none; a block is longer than the place of the length. The
limits that the code sets are positive, what clients ask for is any integer. A tree is
finite and holds the directories above each of its entries, which are files,
directories or links to files and directories of it. `TimesAssumption` is what the sleeps of the two programs about
time rely on: a send takes longer than the timeout it races, even if that comes late;
main sleeps longer than a send that began late; a poll and the notification fit into
the sleep of the handler. There are two workers at least, as in the code. Of the data
the assumptions say what the external parts make sure of: a text is a sequence of bytes,
of which nothing else is assumed (`TextAssumption`); the values of a JSON document lie in objects and
arrays of it, and an array is numbered from zero without gaps (`DocumentAssumption`, the
shape of whatever `Json::parse` returns); an entry of a database names its file and its
directory (`EntriesAssumption`); and a character of Base64 is six bits
(`HeaderAssumption`).

**Task store.** No safety property is inductive alone: that a cancelled task does not
complete depends on where its worker is, and that the worker's unlocked read is safe
depends on how prompts and answers are accounted for. `IInv` (in
`TaskStoreRefinement`) is the conjunction, per task, of `Progress` (which steps of the
creator and of the worker go together), `StatusFollowsWorker` (the status fits the
worker's place), `FlagFollowsCancel` (a raised flag with another status than cancelled
means a worker that prompted too late and cannot complete), `PromptsAccounted` (a
prompt is pending, answered or not yet asked) and `Outcomes`; and, for the process,
`OnlyPayloadsTerminate`. `InvStep` proves that every step keeps it, one lemma per group
of actions for the task that steps, and `OtherTasks` with `KeptInv` for the others, of
which a step leaves everything `TaskInv` speaks of as it was. From `Invariance` follow
`CancelledStaysOpen`, `OutcomesMatch`, `ReportsAreFinal`, `UnlockedRead`,
`DeletionsAreConfirmed` and `Termination`.
`Refinement` shows that each step of the store is a step of the lifecycle or a stutter
(for instance a `TasksCancel` is `Cancel` at once, and the worker's later
`MarkCancelled` a stutter), using `IInv` for the steps that prompt and settle;
`FirstAnswer` is an action property proved from the same invariant.

**Multi-round calls.** `RepliesToStates` states what each handler does with the state
of a request. `GrantInv` adds to `CompletionWasGranted` that a client holds what its
delivered replies brought and sends only that, and is inductive (`GrantInvariance`);
`Grants` follows: no completion without the states of all rounds, for any set of calls
and any behaviour of client and network. `TypeCorrect` needs what each handler may
reply, which `ExchangeIsTyped` states. `ByTheBookAccepted`, an action property, goes tool
by tool (`FollowUpsAreAccepted`): an accepted elicitation is an object without odd
members, and a state a reply carried verifies. Only `multi_round` looks at what a state
says beyond its signature, so `GrantInv` also keeps that its questions carry the states
of its own rounds (`RoundsAreItsOwn`).

**Authorization session.** `IInv` is the types and `Consistent`: states are numbered
like the authorizations they are made for and every answer on its way carries the
state of its own (`StatesAreFresh`); a code is held only until it is redeemed
(`CodeIsSpent`); what is known of a configured session, its client, its DPoP flag, is
of one server (`SessionIsOfOneServer`), as is the token shown (`TokenIsOfThatServer`);
and `Following` says where a session stands since the challenge. The properties need
it: that a token and the flag agree (`ProofsMatchToken`) rests on the flag being reset
exactly when the server changes. `TypeStep` and `ConsistentStep` go action by action;
the heart is `CompleteAuthorization`, where a late answer is refused because its state
is not the current one, and an answer of another server because of its `iss`.
`RedeemsWhereIssued`, `KeepsRegistrationsApart`, `SignsBoundTokens` and
`MovesWithTheResource` follow, for any servers and any number of challenges.

**Command tools.** The output is a prefix because of what the loop has read so far, and
a verdict is the command's only because the pipe was drained: `IInv` adds to the
properties in which order the steps go (`StepsInOrder`), that the output is read to its
end (`CommandIsDrained`) and that a reply is of it (`ReplyIsTheResult`). One lemma per
step shows that it is kept; that a chunk keeps the prefix is `TakesAPrefix`, apart.
`KeepsAPrefix`, `ReportsLosses`, `PassesTheVerdict` and `LimitsQueries` follow for any
buffer, limits and outputs; the last for the queries it speaks of, those of one SELECT
with neither a comment nor a " LIMIT " of its own.

**Logs.** `LogInv` follows a log that grows at its end. Its heart is `LinesRead`: as long
as the end of the file has not been met, every line read had ended (`LogPlaces`), so it
stays what it was when it was read, and `WrittenLog` says that a write changes nothing
else. On that rest the counts (`DigestInv`, which are off by one at most, by the line
that was open), the samples (`SamplesInv`: each begins a severe line, in order, and what
is left out follows the last) and the matches (`FindInv`). `LogReported` follows, for any
words, limits and writes.

**Workspaces.** A walk is right if it visits nothing twice and leaves nothing out, and
others change the tree under it. `WorkspaceInv` says both of the *frontier*, the entries
left in the stack and the directory that is opened next. No path of the frontier leads
to another one, nor to a file that was found (`WalkFrontier`, `ScanInv`): opening a
directory replaces it by its entries, which are below it and not below each other, so no
file comes twice, even if a directory vanishes and comes back. And whatever is meant to
be shown and has been there all the time is handled already or below the frontier
(`WalkCovers`): it cannot be lost, because the directories above it have been there all
the time, too (`Closed`), so that none is taken for anything else, and a walk that ends
with an empty frontier has handled it. `TotalsInv` names the files whose sizes were had,
`SearchInv` the lines found. One lemma per step of the walk keeps it (`WalkKeeps`);
`ChangeKeeps` shows that a change makes less of what was there all the time and more of
what was there for a while, which is all the invariant asks. The order on paths
(`PrefixOrder`, `AboveEntry`) and the stack (`PushLevel`, `TakeFromLevel`) are lemmas
apart. What hangs on a link hangs on its target, too (`Kept`): an entry counts as there
all the time only if both have been. A directory that may not be opened is passed over
silently, so what is below one is not among what a walk owes (`Reached`). `WorkspaceReported` follows, for any finite tree, limits and number of changes.
The steps of the other servers change nothing of one, so the three invariants hold side
by side (`CommandInvariance` is that of the command tools).

**Shutdown.** `IInv` is the types, with who holds the mutex where, and two parts: once
`closed_` is set nobody has decided to wait and not yet done so, and after the
notification nobody waits (`DecidedUnclosed`, the heart: a receiver that decides holds
the mutex until it waits, so the flag cannot be set in between); and a receiver ends only
after the flag, main only after the receivers (`StoppedInv`). For any number of
receivers.

**Requests given up.** That no requirement of main fails is a matter of time, so
`TimeoutInv` compares countdowns: the timeout of the slow request with what is left of
its send, the place of main with the send it cancels, and the sleep at the end of main
with every send still under way (`TimeoutRaces`). Each comparison survives a tick because
both sides count down together, and the assumption decides it. `RequestsGivenUp` follows.
`InboundInv` is of the same kind: a notification that is out meets the handler in
its sleep. `HandlersCancelled` holds for any number of attempts and any lateness that
leaves the margin.

**SHA-256.** `IInv` says of every byte hashed or buffered which byte of the padded
message it is, and how many are left to the next boundary in each loop; `HashesPadded`
is its last case. The proof is for any block size and place of the length, so the
boundary cases of `finish` are covered by arithmetic and not by enumeration.

**Data.** What the file tools reply is computed by loops over a text of any length, so
these proofs are inductions over the places of a sequence. The induction theorems of the
library take an operator as a parameter, which the provers cannot instantiate; the
least-element principle does not (`WFMin` with `NatLessThanWellFounded`), and two lemmas
of `DataToolsProof` put it to use: `Induction`, where what is to be shown is a *set* that
holds 0 and with each place the next; and `Recursion`, which gives a scan (a loop, as a
recursive function of its turns) its equation. Every loop of the models is such a scan,
and `ScanTypes` says what its states are. `InOrder` (the places with some property, in
order) is shown to be what any increasing list of them is (`OrderIsUnique`), which is how
what a loop has collected is compared with what a property demands.

*Lines and JSONL.* `SplitHolds` follows `split_lines` through its turns: the lines so far
are those that begin and end before, and the current one is the text since the last end of
line, without carriage returns. `SplitIsFirstLines` concludes that the lines are
the first of the file, and where a cut or a limit may have left one out. So the
verdicts on all lines but a cut one are those of the file, and the call throws only for
a malformed line with a character outside ASCII or one that the limit cut: once the parser
meets an error it stays there, however the line goes on (`JsonlReads`, `JsonlErrors`). `JsonlCount` says that what
the loop counts adds up to the lines and that the errors listed are the first.
`JsonlAlways` follows.

*CSV.* Whether a place is quoted depends on the number of quotes before it, and a doubled
quote is two: `CsvQuoted` relates the state of `parse_csv_line` to that parity,
`CsvSeparators` finds the places at which a field ends, and `CsvFollows` that a field
is what stands between two of them, up to quotes. In the other direction
(`FieldsComeBack`) `QuotedRun` runs the loop over a field that was written with quotes and
`CsvBetween` over its neighbours, so that a row is read as the fields it was written from.
When a reply renders is a fact about characters: a field of a line of whole characters
has whole characters (`CsvFieldUtf8`), because a separator or a quote is never part of
one. `CsvAlways` is the theorem.

*compile_commands.* The two loops count and collect: `TallyCounts` and `CollectFinds` say
that after each turn the counts are those of the entries so far and the sample the first
of them that match. `CompileCommandsAlways` follows, for databases of any length.

*JSON.* A pointer is written by escaping and joined by slashes, and read by splitting and
unescaping. `EscapeComesBack` and `WellEscapedComesBack` show that the two escapings undo
each other (if every `~` of a token escapes something; another one is itself),
`PointerSplits` and `TokensJoin` the same of the slashes, and `DecimalIsUnique` that a number has one
numeral without leading zeros, so that an element of an array has one name. A step of
`resolve` then leads where its token says (`StepLeads`, `StepReaches`), by induction a
path does (`ResolveNames`, `ResolveReaches`), and `PointerResolves` says both of
`json.pointer`: every value is reached, and nothing but the value that is named.
`JsonAlways` is the theorem, for any document.

*Headers.* `Grammar` turns the checks of `strict_base64_decode`, block by block, into
the alphabet, the length and the places of the padding that RFC 4648 gives the whole (the
bits that padding leaves over are not checked by the code, so a payload may be accepted
that no encoder writes; encoding again gives the one that an encoder does); `Decoding` says what each byte of the result is, and
`EncodedAgain` and `EncodingDecodes` that encoding undoes it and it undoes encoding,
through the bits of `BitsAt`. `HeaderInv` adds that the headers are those that may have
been sent for the payload. `HeadersAlways` holds for payloads of any length, and any
number of headers.

**Only model-checked.** The liveness properties, which are out of the prover's reach
(`CancelStopsWorker`, `AnsweredTaskSettles`, `ConversationsEnd`, `SessionEnds`,
`MigrationPasses`, `ServersAnswer`, `EverythingEnds`). Of the safety properties none is.
What TLC adds to the proofs there are the mutants, each of which breaks its property, and
that the assumptions have models.

## 5. Not modelled, and why

- Straight-line programs over the SDK, which keep no state of their own and call one
  function after another from one thread: callbacks, subscriptions, policies and
  pagination, HTTP and gateway probes, runtime services, plugin adapters, the smoke
  test, the task cancellation matrix, the scenario runners of the client other than the
  multi-round one. A model of them would be a model of the SDK, which is not here.
- The native server transport and stdio matrices and the process probe: framing, pipes
  and processes of the SDK. The adapter matrix: what an adapter does with a message is
  the SDK's, and the program only scripts its transport and compares.
- The rest of the everything server: fixtures and tools that build a reply from a
  request and keep nothing; the typed authoring server and the basic examples, the same.
- The composition of `Mrtr` with `TaskStore`: the second round of `test_tool_with_task`,
  sent again, starts a second task, since the server keeps nothing that would tie them
  together. At-most-once does not hold and nothing in the repository promises it.
- Of the file tools: rendering a reply is the SDK's, so a preview of a resource or a
  workspace name that is no UTF-8 is carried and not refused; links that leave the root
  and chains of links; files that change during a call of the JSON, compile_commands, CSV
  and JSONL servers, each of which opens its file once (logs are written while they are
  read, and workspaces change between the steps of a call).
- Of the command tools: a pipe of finite size, which would make a command wait for its
  reader; that the loop reads on past the output limit is checked as what it does to the
  verdict, not as what it spares the command.
- `transform` of SHA-256, whose value lies in bit operations; texts, titles and the
  layout of replies; build files and the inspector script.

## 6. Running

```
tlc -workers 2 -config MCTaskStore.cfg MCTaskStore
tlc -workers 2 -config MCTaskStoreLive.cfg MCTaskStore
tlc -workers 2 -config MCMrtr.cfg MCMrtr
tlc -workers 2 -config MCAuthSession.cfg MCAuthSession
tlc -workers 2 -config MCAuthSessionLive.cfg MCAuthSession
tlc -workers 2 -config MCDataTools.cfg MCDataTools
tlc -workers 2 -config MCServers.cfg MCServers
tlc -workers 2 -config MCPrograms.cfg MCPrograms
tlapm TaskStoreProof.tla        # about two minutes
tlapm MrtrProof.tla
tlapm AuthSessionProof.tla
tlapm ServersProof.tla          # about seven minutes
tlapm ProgramsProof.tla
tlapm DataToolsProof.tla       # these three about twenty minutes each
tlapm TextServersProof.tla
tlapm DocumentServersProof.tla
```
