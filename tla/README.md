# TLA+ models of jaiph

jaiph is a language for agent workflows with a runtime: `jaiph run` executes one
workflow, `jaiph serve` (HTTP) and `jaiph mcp` (JSON-RPC over stdio) keep a set of
workflows loaded and execute one process per call, and `jaiph compile`, `format` and
`test` work on the sources. This directory holds TLA+ specifications of the parts whose
correctness depends on *order* (what interleaves at an await, what a restart finds on
disk, what a kill reaches) and of those where two programs must *agree* (the validator
and the runner, the formatter and the parser). TLC checks them on small instances; TLAPS
proves the theorems listed below for every value of the constants. `PROJECT.json` maps
every definition to the lines it models and lists the runs, a mutant that each property
is known to catch, the hazards and the findings.

Paths below are relative to the repository root (`src/runtime/...`, `docs/...`).

## 1. Inventory

| Part | State | Operations | Interacts with | What is hard | Correct when |
|---|---|---|---|---|---|
| Workflow interpreter (`runtime/kernel/node-workflow-runtime.ts`) | async frame stacks, the shared context stack, handles, inbox queues, the step counter | run, run async, catch/recover, if/for/match, send, return, fail, join, drain | journal, script processes, prompts | branches interleave at every await over one context stack; a drain feeds itself | contexts stay balanced, routed messages are delivered before success, failures are not lost, runs end |
| Dispatch (same file) | variables, settings and result of an activation | resolve a reference, bind arguments, evaluate, capture, layer config | module graph, validator | it resolves everything again, after and apart from the validator | what was accepted resolves, and resolves to what was meant |
| Module graph, validator, emitter of scripts (`transpile/`) | files read, links | load, validate, emit scripts | parser, dispatch | files that come and go; checks skipped in nested positions | the graph is the closure; nothing accepted is missing |
| Config and settings (`config.ts`, `cli/run/env.ts`) | variables, locks | defaults, module and workflow blocks | interpreter | five layers over one environment | a block holds for its own module's steps only |
| Parser, formatter (`parse/`, `format/`) | none | text to tree, tree to text | each other | sugar, escapes, look-ahead for braces | formatting changes no program and is idempotent |
| Run process lifecycle (`cli/run/lifecycle.ts`, `commands/run.ts`) | timers, `done`, signal handlers | exit, close, timeout, escalation | process group, Docker | races of four timers and two events | settles once, always ends, cleans up once, kills what it started |
| Prompts and watchdogs (`kernel/prompt*.ts`, `portability.ts`) | attempt, delays, abort, idle timers | attempt, back off, abort, kill | agent CLIs | abort against backoff, idle kill against close | bounded attempts, one at a time, none after an abort |
| Workflow server lifetime (`cli/shared/generation.ts`, `commands/serve.ts`, `commands/mcp.ts`) | generations, refcounts, out dirs, in-flight promises, shutdown phase | acquire, release, swap, drain, second signal | file system, registry, MCP engine | a reload or a shutdown overtakes a running call | scripts outlive their calls, nothing leaks, the process ends |
| Run registry (`cli/serve/handler.ts`, `run-store.ts`) | records, idempotency index, run.json files | create, cancel, finalize, evict, persist, reload, reconcile | run processes, journal | cancel against completion, retries against restarts, eviction against keys | one run per key, bounded processes, stable outcomes |
| Run journal (`kernel/emit.ts`, `runtime-event-emitter.ts`) | `run_summary.jsonl`, `prevHash`, key store | append, store key, verify | every reader and exporter | two writers, damage during and after the run, a lost key | what verifies is what was written |
| Journal follower (`cli/serve/runfiles.ts`) | offset, partial line | poll, flush, end | journal, registry | a run ends between poll and check | every line once, in order, before `end` |
| MCP engine (`cli/shared/mcp-server.ts`) | `inFlight` by request id | tools/call, cancelled, progress | server, registry | one map for all HTTP clients; cancel against result | one response per request, none after a cancel |
| Docker sandbox (`runtime/docker-*.ts`) | container, snapshot, timeout | spawn, stop, clean up | lifecycle | cleanup from three places | the snapshot outlives the container |
| Authentication, OpenAPI, HTTP glue (`cli/serve/`) | tokens | lookup, generated text, I/O | registry | - | - |
| Values, schemas, redaction, hooks, progress, telemetry, package commands, test runner | none that matters to a run | pure functions, best-effort output, one-shot commands | disk, network, git | - | never change a run's result |

How they meet: a server call leases a *generation* (its emitted scripts), registers
a *run record*, and spawns a *workflow process* in which the *interpreter* executes
and appends to the *journal*. The process's exit settles the call's promise: the
chain key is stored, the record finalized and persisted, the lease released. The
registry and the journal meet again at restart, when records are rebuilt from the
runs tree and journals are verified. The compiler and the interpreter meet twice: the
scripts one writes the other spawns, and every reference one accepted the other resolves
again, from files that may have changed in between.

## 2. Modules

Node runs a callback to completion, so nothing comes between two awaits of the code: what
lies between them is one action below or, in WorkflowRuntime, a turn of several. Every
interleaving at an await is explored.

### The interpreter, concurrently: WorkflowRuntime

The program is *arbitrary*: a frame that is ready may take any step the program's
`language` allows, so a run of TLC covers every program of the bounded size, not one
example; `program`, chosen at the start, says which steps, handlers and callees there
are. A frame is one execution of a step list (`workflow`, `list`) or the closure of a
`run async` (`branch`), and the frame of a branch is its handle, which `handleRegistry`
keeps when it has settled. `turn` names the frame whose code has not come to its next
await: `run async` starts its branch without one, so the next statement of the list runs
first. `workflowCtxStack` is shared by all branches as in the code: `executeWorkflow`
pushes its context and its `finally` pops whatever is on top.

Actions correspond to the cases of `executeSteps` (fail, return, run with catch/recover,
nested bodies, run async, send with a literal or a call as payload), to the continuations
after an await (the end of a script, the returns of each kind of callee), to the implicit
join, and to `drainWorkflowQueue`. Two things a step list does when it is exited early are
kept: `return` skips the join and leaves its branches detached, and the drain of a nested
workflow only sees messages nobody routed. A prompt or a rule is a script here: a leaf
that succeeds or fails.

`scope` names the variable Map a frame reads and `holds` the handles whose tokens are in
it: a callee and a handler body get a copy of the Map they start from, the body of an `if`
or `for` and the closure of a branch share it. The arguments of a call, a branch or a
payload are awaited before it is made (`Starts`, then `ReadResolves` for a handle among
them, then `Enter`), so a branch can await a sibling, or itself. The validator does not
prevent that (its set of names is flat and knows no order, validate.ts 57-110);
`Deadlocked` says when the entry waits in such a circle (runtime 210, 529, 1790), and
`Hangs` keeps the run there.

### The interpreter, by name: Settings, Dispatch

`Dispatch` is the same runner seen from the side of its data: one activation at a time,
what a reference resolves to (through the aliases of the module that wrote it), which
variables an activation starts with (a copy of its caller's, under consts and
parameters), how arguments, nested calls, captures and match arms are evaluated, in
which order, and what runs when one fails. A binding is whose it is (the step's own, a
constant's, a caller's), so that a reader who gets somebody else's is seen; what the
compiler accepted and the runner did not find is remembered in `faults`. The arguments
that are calls are made before their call (`CallArgument`); captures in a shell line and
in the text of a match arm are run like others, though no check looks at them. What the
parser guarantees of a module is `ParserGives`. `RunSpec` is the whole command, for any
programs; `Toolchain` runs it on listed ones. `Settings` has
the config blocks: the user's variables, which lock theirs; the defaults the host takes
from the entry's module; and module and workflow blocks, applied when a call enters a
module and when it enters a workflow. A setting is known by whose it is.

### The compiler: ModuleGraph, Validation

`ModuleGraph` is the worklist of `loadModuleGraph` (`SkipFile`, `ReadFile`, `MissFile`,
`GraphLoaded`), with `FileChanges` as the environment: files are deleted and created
while it works and before the runner resolves the same imports again. `Validation` is
what the validator accepts of a loaded program - names, kinds, arities, exports, bindings,
channels and routes, and the positions it skips - and which scripts are emitted. The one
walk over a step tree (`StepsOf`) goes level by level, `MaxNesting` deep, and knows of every
step the path it stands at and the loops it is in. `checkBinding`, which the code threads
through the walk with a map it copies for a loop, is `BindingsHold`: what is bound before a
step is what stands earlier in the order of the paths, in no loop the step is not in
(`BoundBefore`).

### The text: SourceBlocks, SourceFile, SourceEmit, SourceFormat

A line of source is a record that says what the line is: a statement with its value, a
brace and what it opens, a declaration. A value says in which form it is written
(quoted, `"""`, fence, single backtick, call, ...), how many escapes it has and which
peculiarities (`has`) tell it apart. `SourceBlocks` is the parser of bodies - the stack of
open blocks, the three shapes of a handler, the look-ahead that finds the end of a
catch block, and what becomes a shell step when nothing else fits; `SourceFile` that of
files, config blocks, constants, scripts and tests, with the duplicates it refuses;
`SourceEmit` all of the formatter's writing. `SourceFormat` types a body or a file a line
at a time (`Type`) and formats it (`Format`) as often as `MaxFormats` says; the lines
that may be typed are listed in `MCSourceFormat`. A declaration is one line with inner
lines: that its own brace is not closed is not typed. Files are `*.test.jh`, which may
have everything.

`Toolchain` composes all of these: `jaiph run` (load, compile, run) over listed programs,
and `jaiph format`.

### The processes: ProcessGroup, LeafStep, RunLifecycle, RunProcesses

`ProcessGroup` is what a signal reaches: the run's leader leads a group of everything
the runner spawned, a `docker run` client none, and a container no signal at all.
`LeafStep` is one prompt or script step: attempts, the watchdogs of a backend (idle
limit, maximum duration, grace after its answer) and of a script (idle limit only), their
kill with escalation, backoff and abort. While a process is `printing`, each chunk restarts
its idle clock, so the idle limit expires in silence only. `RunLifecycle` is the parent: spawn on the host or in a
container, signals and their escalation, cancels, both timeouts, the exit event, `close`
or its grace, the cleanup of the snapshot, and the reported status. `RunProcesses`
composes them: they share who is alive. `mishaps` remembers what a property excludes by
name (a lost client, a deaf daemon, a crash of the parent, a cancel that came late).

### The servers: WorkflowServer, McpSession

`WorkflowServer` has both servers; `transport` tells which. `Reload`, `ReloadInvalid` and
`ReloadThrows` are the three outcomes of `onSourceChange`; `AcceptHttp` is a request whose
body is still being read when something else happens, which stdio does not have;
`FirstSignal` takes the snapshot of `inFlightRuns` that `Promise.allSettled` awaits;
`SecondSignal` is `cancelAll`. `Finish`, which removes the temp root and ends the process,
is no action of its own: it runs in the microtasks of the turn that settles the last
promise, the `SettleCall` of the last awaited call, or `FirstSignal` itself when nothing is
in flight.

`McpSession` has one `inFlight` map for every client, keyed by the JSON-RPC id, as in the
code. `Receive` is a `tools/call` whose body was read, `Start` is `handleToolsCall` up to
its await, `Step` is `onStep`, `Exit` the end of the process and `Settle` the rest of
`handleToolsCall`, which deletes the entry of the id whoever made it. `Cancel`,
`CloseStream` (a hang-up, or the end of an answered stream: both fire `onAbort`),
`CancelRun` (the REST cancel) and `CancelAll` (a second signal) are the four ways a run is
killed; only the first two mark the entry, so only they silence the answer. `Apart` says
that no two clients use one id.

`RequestService` is what the engine promises: an open request hears of its progress and
is answered, once and last; a request that was withdrawn (its client cancelled it or
hung up) hears nothing more and may end without an answer; only clients that share
their ids withdraw each other's. `ImplementsRequests` maps `View`, what the client of a
call may still expect, and the messages of its sink to it.

### The records: RunService, RunRegistry

`RunService` is what the API promises a client: a created run is running, ends once,
keeps its outcome while it is shown, and no second run is created under a key a shown
run is remembered under. `RunRegistry` is the code: `createRun`'s lookup and
reservation in one turn, the wrapped cancel handle, `finalize` (status, persist,
evict) and `finalizeError`, and `loadPersistedRuns` with `reloadRun` and
`reconcileRun`. The workflow process is an actor of its own that outlives a killed
server (`orphans`). Host and Docker differ in one way, kept in `RunDirKnown`: a host
run's directory is known only from the meta file, which a killed process never writes; a
container's is found on the mount. `ImplementsService` maps `View` and the index to
`RunService`.

### The journal: RunJournal, RunEvents

`chainHmac` is taken as injective: a digest is the number of the line hashed. `intended`
is what the kernel wrote and `emitted` what of it went through the emitter. The kernel
appends through the emitter (`Chained`) or past it (`EmitInbox`); `Damage`
cuts, removes, changes or swaps lines at any moment; `StoreKey`, `LoseKey` and `Read`
are the host. `StoreKey` can fail at either of its two steps: without the key's file the
journal is refused, but without the directory (`mkdirSync`, emit.ts:113) the run counts as
one that never had a key. `Read` stands for the boundaries that verify: the ndjson
snapshot, the exports, the reload. The SSE stream hands out lines without verifying them
(handler.ts:693, runfiles.ts:197). `RunEvents` adds a client that follows the journal while it grows, polls
that find half a line or fail, and the last flush; `Newlines` and `Cut` are the split of what
was read at its line breaks; damage and following are not combined.

## 3. Runs

Five runs state what a document or a comment says and find it violated; the rest pass.

| Run | Bounds | Shows |
|---|---|---|
| `server` | 3 calls, 2 reload attempts, both transports | `ScriptsOutliveCall`, `SupersededDirsAreLeased`, and that a second signal ends the process. Three calls put two holders on one generation and one on the next while the first is superseded; two reloads make a generation superseded twice removed. |
| `server_http_drain` | 2 calls, http | *Violated*: `LeaseKeepsScripts`. A request still being read at the first signal starts, while the drain awaits another run, a run that the snapshot does not contain; when the awaited one settles the temp root goes. One call to be awaited and one to be missed. |
| `workflow` | 7 frames, 2 branches, 3 steps, recursion 2, dispatch limit 2; three families of programs | The context stack, routing, one consumer at a time, success only after delivery, `JoinKeepsFailures` and that a run whose scripts exit ends, `Deadlocked` excepted. Three steps are the smallest with a send inside a branch while a sibling holds a context on top. The families (sends, reads and nested runs; handlers, reads and nested bodies; retries, reads and circular sends) keep the union of all steps out of one program. |
| `workflow_sender` | 6 frames, 2 branches, sends | *Violated*: `SenderRanTheSend` (docs/inbox.md). The entry starts a branch and sends twice: while it awaits the payload of the first message the branch pushes its context, and the second message names the branch's workflow. Two named workflows beside the entry, and one frame more than the trace needs. |
| `registry` | three settings: two runs side by side on the host with 2 crashes, two in containers without retention with 1, three one after the other on the host with 1 | Six safety properties, the refinement `ImplementsService` among them, and `CancelledRunsEnd`. Three sequential runs are the fewest in which a key is used again after its first run was evicted; two crashes the fewest in which a reconciled record is reloaded; two concurrent runs the fewest in which a cancel holds a slot someone else wants. |
| `registry_retry` | the same | *Violated*: `RetryNeverDoubles` (docs/serve.md). |
| `journal` | 5 lines, 2 damages, with and without channels, host and container; a follower of an undamaged journal | `VerifiedIsGenuine`, `IntactVerifies`, `NoDowngrade`; `WholeLinesOnce` and `EndIsComplete` of the follower. Two damages suffice for a cut that is hidden by a second change; five lines leave a line on each side of both. |
| `journal_channels` | 3 lines, no damage | *Violated*: `EveryLineChained` (emit.ts). |
| `mcp` | three settings: 3 calls of one stdio client, two HTTP clients with ids apart, two with the same id; 2 progress messages | The refinement `ImplementsRequests`, `CancelsFindTheirCalls`, `KilledCallsSettle`. Two calls with one id are enough for the first to delete the second's entry; three on stdio put one before and one after the call a cancel names; two messages, one before and one after any other step. |
| `mcp_http_ids` | the two HTTP clients with the same id | *Violated*: `OthersUntouched` (docs/mcp.md). |
| `processes` | 2 attempts; on the host a claude or codex prompt or a script, in a container a codex prompt | Six safety properties and two liveness ones over every order of answers, exits, watchdogs, aborts, signals, cancels, timeouts, forced kills, a lost client, a deaf daemon and a crash. Two attempts are the fewest in which one meets its predecessor; inside a container only that the runner ends matters, hence one leaf. |
| `toolchain` | 3 modules (an import cycle, a library next to the program and an installed one), two statements of every form in the entry, config in two modules, 1 file change, 6 activations, 2 lines; bodies of 6 lines, files of 4 declarations, formatted twice | `GraphIsClosure`, `AcceptedResolves`, `BindingsReachTheirReaders`, `NeverRebound`, `SettingsFollowModules`, `ScriptsRunAsWritten`, `FormatRoundTrips`, `BracesDecide`. Two statements are the fewest in which one's binding meets another's reader; six activations let every call of the programs return and the third module call back into the first; six lines hold a handler with an else inside a block; two formats show both a change of meaning and a second format that differs from the first. |

The properties of `toolchain` name their exceptions: the disjuncts of `AcceptedResolves`,
`SettingsFollowModules`, `ScriptsRunAsWritten` and `BracesDecide`, and `Lossy`, `LossyPart`
and `BecomesShebang`, say case by case where the code is known not to do what its documents
say. None is there for safety's sake: without any one of them TLC finds a program or a text
that needs it. Section 5 describes them.

The runs `registry`, `registry_retry`, `mcp`, `mcp_http_ids`, `processes` and
`toolchain` set `CHECK_DEADLOCK FALSE`: when everything the bounds allow has been made
and has ended, a server waits for requests the bound forbids, and a run, a program or a
formatting that has ended does nothing more. No run spends a property on types: type
correctness is a theorem of every component that is proved about, and of the parser and the
formatter `FormatTypeOK` holds when it is added to the cfg of `toolchain`.

### Fairness

* `WorkflowServer`: a call may run for ever unless it was cancelled; then the kill
  escalation (SIGINT, SIGKILL after 1.5 s) ends its process. Nothing else is assumed.
* `RunRegistry`: while the server lives, a cancelled run's process dies (the same
  escalation), and an exit that happened is observed (`waitForRunExit`). Nothing is
  assumed of a run that was not cancelled, and nothing while the server is down.
* `McpSession`: the process of a killed call ends (the same escalation), and the
  continuation of its await runs. A call nobody killed may run for ever.
* `WorkflowRuntime`: Node runs some continuation while there is one (`Fairness`), not a
  particular one. No script is bound to exit: `RunEnds` has that as its premise
  (`LeavesEnd`), and excepts the run that waits for itself (`Deadlocked`).
* `RunProcesses`: timers fire, and the events of a process that ended are delivered.
  Nothing makes a process end by itself, an answer come, a pipe close, or a process that
  prints fall silent. The idle clock expires in silence only, and a script has no other
  limit, so `LeafEnds` promises the end of a script that stops printing; a prompt has its
  maximum duration too. Of codex it says nothing, and a watchdog set to 0 is outside the
  model.

### Assumptions of RunProcesses

A backoff (15 s and more by default) outlasts the 5 s from SIGTERM to SIGKILL, and the
completion grace (30 s) ends before the idle limit (15 min). The `JAIPH_DEBUG` switch,
under which output on stderr no longer makes a run fail, is off.

## 4. Findings

1. **A message can name the wrong sender** (`workflow_sender`). The send step reads the
   top of the stack all branches share, so a workflow that sends while its `run async`
   branch runs can send in the name of the branch's workflow.
2. **A run is started behind the drain** (`server_http_drain`). While the drain waits for
   another run, a request that was being read at the first signal starts one the snapshot
   does not have.
3. **A retry doubles a run that was executing when the server died**
   (`registry_retry`): a reconciled record has no key, owner or arguments.
4. **A workflow that uses channels has a journal that fails verification**
   (`journal_channels`): INBOX lines bypass the emitter and carry no `prev_hash`.
5. **Two HTTP clients with one request id share an entry** (`mcp_http_ids`): a cancel or
   a hang-up of the first marks and kills the second's call. MCP clients number their
   requests from a small integer, so the ids meet in practice.

## 5. What the models showed beside the findings

Exceptions the properties name, and behaviours met while modelling. Where a document
says otherwise it is cited; no run checks these on their own.

**Servers, records, journal.** A host run that was cancelled, timed out or crashed writes
no run.json, so it is `interrupted` after a restart, and its key is free. A cancelled
container run is keyed and has no WORKFLOW_END: its journal is refused, and a restart
shows it as failed (`Suspect` in `CancelDecides`). A restart shows every run on disk, also
those evicted before, until the next run ends. With `retainRuns` reached by newer runs, a
long run can be evicted in the turn it ends. A restart can mark a run `interrupted` while
its process is still working. The last line of a journal is vouched for by no later line.
A streaming client that hangs up while its request is still authenticated is not noticed,
and its call runs on. The ndjson download and the exports are verified; the SSE stream is
not, though the comment in emit.ts:211 asks for every line to be. A run whose key directory
cannot be made stays without a key for good, and its journal is handed out as that of any run
without one; `NoDowngrade` promises only that a verdict once given is not undone.

**Interpreter.** A run can wait for itself: arguments of a branch that resolve to its own
handle, or a callee or branch that awaits a handle of its caller which awaits it.
`RunEnds` names this (`Deadlocked`) and shows that no other wait is circular.

**Processes.** The exit of the leader clears the timer of the forced kill, so members of
its group that ignore SIGTERM survive a stop (docs/configuration.md:323, docs/mcp.md:144);
`StopReachesGroup` promises only what honours the signal. A watchdog's kill reaches one
pid, for backends and scripts (docs/configuration.md:316). A script that keeps printing is
never ended by its step: each chunk restarts the idle clock (step-idle-warn.ts:110,
docs/configuration.md:334) and the maximum duration is the prompts' (configuration.md:314). A backend killed by a signal
from outside counts as status 0. The codex request has no watchdog
(docs/configuration.md:306), so `LeafEnds` leaves it out. With the Docker timeout set to
0, `run.ts` 333-337 gives every failing run the message of a timeout
(docs/env-vars.md:71). The exit guard and a lost client remove the snapshot while the
container lives (`mishaps` in `SnapshotOutlivesContainer`). A cancel after the exit event
arms a SIGKILL nothing clears, and so does a Docker timeout (`TimersDieWithRun` names
both). A script that is not yet started is not stopped by the abort of its run.

**Compiler and runner.** Scripts of all modules are written under their bare names into
one directory, so those of two modules collide (docs/language.md:47). Inline scripts in
an `else` body and in the arguments of a call are not collected (docs/grammar.md:470).
Calls in match arms, in nested arguments and inside captures are not checked for arity,
and a rule can run a workflow from the first two (docs/grammar.md:214, 445). A callee starts with
a copy of its caller's variables, and the validator takes no account of control flow, so
a name it accepts may be bound by somebody else, or by nobody, as after a catch. The name a
`catch` or `recover` gives to the failure is no binding to the walk (validate.ts 132-139),
so a `const` in the handler may bind it again (docs/language.md:241). Names
bound in a loop body can be bound again, the fields of a prompt overwrite constants, a
top-level constant may be shadowed. The catch of an `ensure` does not run when a nested
argument fails. A shell command as the payload of a send is accepted and always fails
(docs/language.md:76).

**Settings.** The model has it that a block holds for its module's steps, with what the
code leaves to callers as exceptions. A workflow parameter named like a constant is what
the module's block reads; a missing argument lets a block read a caller's binding. Outside
the model: a relative `trusted_workspace` that was resolved at startup is overwritten by its
text (docs/configuration.md:73); a rule's `recover` takes its limit from the workflow
around it (docs/configuration.md:183); inline scripts get no trusted environment.

**Parser.** The scan for the end of a catch block counts `} else {` and braces at the
end of quoted text as opening, so a block with two else lines is refused
(docs/grammar.md:232). In a loop inside an if, `} else {` closes the loop and a missing
brace is accepted. A config block is accepted in a loop at the top of a body. A `} else
{` where none may be becomes a shell step, though the comment in workflow-brace.ts:38
says it is an error; so do `return run async f()` and a send of a quoted inline script.
`fail "x" trailing` drops the trailing text. Of a duplicated config key the last value
counts. Import aliases are outside the namespace that a module's other names share,
though the comment in parse-module.ts:191 names them.

**Formatter** (docs/cli.md:164 "Formatting is idempotent. Comments and shebangs are
preserved."). What is written does not say what was read, or is refused: an inline script
loses its catch or recover clause; an else that holds one empty if becomes `} else if`; a
`log` with escaped quotes gets more of them each time, `log "${true}"` and a config string
`"${true}"` lose their quotes; a fenced one-line script with `${x}` moves to a backtick; a
call argument in `"""` loses its line ends; comments in a match, and escaped quotes of its
patterns, go; a one-statement clause that needs several lines is refused; escaped quotes of
a prompt schema, text after one and an empty `returns ""` go; test descriptions, `expect_*`
strings and mock answers with decoded escapes are written raw; a tab in a constant becomes
a backslash; a comment that starts with `#!` and comes first becomes the shebang. Also,
`const` values change their style of quotes, and script imports move before imports
(docs/cli.md:175).

## 6. Proofs

Each proof module EXTENDS its component's module and follows one shape: an inductive
invariant, `Init` implies it, one lemma per action or per kind of action, and the
theorems as consequences.

**WorkflowServerProofs** assumes only that the calls are finitely many and `MaxGen` is
a natural number. `IInv` adds to the checked invariants that a refcount is the number of
calls in flight (`RefsCountLeases`), that fresh generation numbers have no holders, that
after the first signal every running stdio call is in the snapshot (`DrainAwaits`), and
that leased directories exist until the process ends. Without `DrainAwaits`,
`ScriptsOutliveCall` is not inductive: the settlement that empties the snapshot, or a first
signal that finds it empty, removes the temp root, and must leave no running stdio call.
Theorems: `TypeCorrect`, `RefcountsExact`, `ScriptsSafe`, `SupersededLeased`.

**WorkflowRuntimeProofs** holds for any programs, any route table and any number of
branches. `IInv` is structure (frame types, branches belong to their owner and are
branches, the entry's frame is the workflow of the run, contexts, queues) and counters.
The interesting step is the pop of a context its frame does not own: the stack's *length*
is tied to the number of running workflows, so a pop at the end of a workflow other than
the entry leaves at least the entry's context, whichever one goes. Theorems:
`TypeCorrect` (whose counter part is the circuit breaker's bound), `ContextsBalanced`,
`RoutedDelivered`.

**WorkflowControlProofs** builds on it and asks who holds control. `DrainInv` is about the
entry's drain: its cursor stays within a queue that only grows at its end, and a message
half dispatched is still in front of the cursor, so a success that leaves the drain leaves
nothing behind. `Tree` is about the call tree: a nested frame is the one its parent awaits,
a branch is known to its owner or detached, and `Reached` says that every set closed under
the tree holds every live frame. That last conjunct stands in for an induction over
the tree: to show that nothing else is alive when the drain holds control, take the set
of the entry and the settled handles and check that it is closed. Theorems: `Delivered`, `FailuresKept`,
`ControlTree`, `RunsAlone`.

**RunRegistryProofs** assumes only `RegistryAssumption` (the shapes of requests and
settings), so it holds for any number of runs, any requests, caps and retentions and
any number of deaths of the server. `IInv` adds: ids not handed out have left no trace
(`FreshClean`); a run dir appears with the boot of its process (`DirsFollowBoot`); a dead
server shows nothing (`DownShowsNothing`); every process the server started and did not
see end has a running record, and the cap bounds those (`ProcessesRecorded`, which turns
the cap on records into `CapBoundsProcesses`); a `run.json` that tells how a run ended was
written after its process was gone, with the request of its create (`FilesFinal`); and
a marked run that no longer runs has no process (`MarkedGone`). The last two are what
makes `CancelDecides` inductive: only a living process changes a journal, so the
verdict on a cancelled run's journal cannot change once it ended. Theorems:
`TypeCorrect`, `ProcessesBounded`, `OriginKept`, `CancelsDecide`, `WrittenOnce`.

`IndexAnswersNewest` needs a second layer, `KInv`, because eviction may drop the run
the index names: it is right to forget the key then only if no older run of the key stays.
In memory (`InMemoryOrder`): a running run is the only one of its key, and of two ended
ones the later created ended later, so whatever age or count takes the newer takes the
older (`OldestGoFirst`). On disk (`OnDiskOrder`): the same order between the rank of a run
dir and the end its `run.json` tells, and a running run ranks above every `run.json` of its key,
which is what a restart needs to rebuild that order. Theorems: `NewestAnswers`, and
`ServiceImplemented`, the refinement of `RunService` step by step: `CreateRun` is `Create`
(the index lookup stands for "no shown run has the key" by `NewestAnswers`), both
finalizations are `End`, the death is `Stop`, the restart `Resume`, and everything else
is invisible to a client.

**McpSessionProofs** assumes `McpAssumption`: any number of calls, clients and ids, any
numbering, one client on stdio. `IInv` adds that requests come from their client's ids
without repetition (`RequestsNumbered`), that entries hold running calls under their own
ids (`EntriesRun`), that every running call has its entry while ids are apart
(`RunningHaveEntries`), and that a call that is not settled was sent progress only
(`ProgressOnly`). The lemma everything turns on is `IdsDiffer`: ids apart make the shared
map injective, so the entry `Settle` deletes and the entry `Cancel` marks is the call's
own. `AnsweredOnce` needs no such hypothesis over HTTP, where the sink of a settled request
is closed; on stdio, where it is open, late progress is kept out only because nobody else
can own the id's entry (`SettledHearNothing`).

`RInv` adds what the refinement needs of the transports (`StreamsWired`): a request has
the mode of its session's transport, and only an event stream that was received closes,
so on stdio, where `write` asks nothing, nothing is closed. With it `Receive` is `Ask`;
`Step` is `Progress` or changes nothing; `Settle` is `Answer` for an open call and `Drop`
for a withdrawn one; `Cancel` and `CloseStream` withdraw the open calls they newly mark
or close, which is at most their own while ids are apart; `Start`, exits and kills are
invisible to a client. Theorems: `TypeCorrect`, `AnsweredOnce`, `CancelsExact`,
`RequestsKept`.

**RunProcessesProofs** assumes only that there may be at least one attempt and which kinds
of leaf there are. `IInv` has a part for the leaf step and one for the parent, and each
survives the other's steps because those only take processes away, or start the attempt
the leaf part speaks of. The leaf part says that between two attempts the only process
that may live is the one whose forced kill is pending (`AttemptInv`), which is what makes
`OneBackend` inductive, and what became of an attempt that answered (`AnswerInv`). The
parent's says that a container was told to stop before anything kills its client
(`StopInv`), and which timers, handlers and budgets end with the run (`EndInv`). Theorems:
`TypeCorrect`, `BackendsExclusive`, `RetriesJustified`, `SuccessCaused`,
`StopsReachTheGroup`, `ContainersBeforeSnapshots`, `EndingsClean`, `TimeoutsReported`.

**RunJournalProofs** covers RunJournal and RunEvents, for any number of lines, damages and
polls. `JInv` says that the emitter's lines form a chain of ascending numbers
(`EmitterChained`), that the end marker closes it exactly when the kernel returned
(`MarkerLast`), that the kernel's lines are the emitter's and inbox lines past it
(`KernelLines`), and that every line of the file, however damaged, links to nothing or to
a line of the emitter and is the emitter's own if it has the number of one (`FileLines`,
where the injectivity of the digest enters). `Genuine` then follows without an induction
over the journal: take the least place of an unbroken chain that differs from the
emitter's; the link to the line before it contradicts that. `FollowInv` ties the follower's
tail and the lines it sent to its offset; the file only grows under a stream. Theorems:
`Typing`, `Genuine`, `NoFalseAlarm`, `VerdictNotDowngraded`, `Follows`, `EndsComplete`, and
`StreamsOnlyRead`, by which what holds of every journal holds of a followed one.

**DispatchProofs** covers ModuleGraph, Validation, Settings and Dispatch: the theorems are
about `RunSpec`, the command from the first file to the last step, for any programs, files,
imports and bounds. It assumes the shapes of the constants, and that no file is called
`"user"` or `"nobody"` or is the value for "no file".

The graph comes first (`GInv`): every link leads to a file that was read or waits in the
queue (`Pending`), neither goes beyond *any* closed set that holds the entry (`Bounded`),
and no file was read twice. At the end the queue is empty, so the files read are closed
themselves, and by `Bounded` the least such set. Both halves are needed: `Pending` alone
would accept a loader that reads too much, `Bounded` alone one that stops early.

`RunInv` is what the other proofs share. `Phases`: a program that runs was accepted, with
the modules that were loaded. `FramesOK`: every frame is an activation of a declared
workflow or rule of a module that was read, or a branch or handler of the frame below; its
steps are steps of that declaration, and a call it is making stands in one of those steps
at the place it says (`ItemOK`). This is what brings an acceptance, which is about steps
of declarations, to bear on a call, which is about the top of a stack. A step then does one
of three things to the frames (`FramesChange`): it keeps the shape of those that stay, it
adds a part, or it adds an activation; each property below is an invariant that survives
these three.

* `BindingsReach`: `FrameOK` says it of every frame; a branch knows at least what the frame
  below knows (`PartOf`), which is what makes it survive the end of the branch.
* `ScriptsAsWritten`: the file a name leads to is the last writer's (`WrittenByIs`), and an
  inline script that a step calls was written or overlooked (`InlineIs`).
* `AcceptedCallsResolve` needs `LinksAgree` (with no change of a file the runner's links are
  the compiler's), so a callee of the runner is a referent of the validator
  (`CalleeIsReferent`), and `Pure`: all that stands above a rule is rules, unless a call
  nobody checks has led out. Without `Pure` the exception "what follows from such a call"
  is not inductive.
* `SettingsFollow` carries for every frame where each setting comes from (`Settled`); that
  only a call with too few arguments lets a block read a caller's binding is shown from the
  names a parameter list covers (`NotGiven`) and the check on blocks (`ConfigHolds`).

* `BoundOnly` joins the validator's walk, which goes over the lines once, and the runner, which
  follows the control flow. `InPlace` gives every frame a *place*: the path of its next step,
  or, within a loop, the path of that loop. A frame's own bindings (other than those `NeverRebound`
  excepts) are among the names the walk has seen before that path (`Seen`, `SeenAt`), except
  that an `if` which was begun counts as passed. A branch's place lies within the step that is
  on in the frame below (`Linked`), so when it ends and leaves its variables there, what it has
  seen comes before the step after the `if` (`BeforeOuter`). A step that would bind a name again
  then stands at a path before which the walk has seen the name, and `BindingsHold` refuses it
  (`NoPlainRebound`). The walk is no recursion here but an order on paths, so no induction over
  programs is needed; that this order computes what a threaded map would was compared by TLC
  with a recursive definition, for all bodies of three of the listed statements, and for bodies
  of two statements with ifs, loops and a handler two deep.

Theorems: `GraphTypes`, `LoadedIsClosure`, `BindingsReach`, `ScriptsAsWritten`,
`AcceptedCallsResolve`, `SettingsFollow`, `DispatchTypes`, `BoundOnly`.

Only model-checked:

* all liveness (`RunEnds`, `LeafEnds`, `RunSettles`, `KilledCallsSettle`,
  `CancelledRunsEnd`, `SecondSignalFinishes`): fairness and ENABLED are beyond the prover;
* the parser and the formatter (`FormatRoundTrips`, `BracesDecide`): their definitions recur
  over lines and trees, and what they compute for every text is an induction over data.

Every other safety property of the passing runs is a theorem.

## 7. Plan

Done: the interpreter, the servers, the registry with its service, the journal and its
follower, the processes, the module graph, the validator, the dispatch, the settings, and
the parser and formatter; the abstract services of the registry and of the MCP engine,
and their refinements; the proofs above. Left:
the retention loop of `handler.ts` (600) and the exit code 0 that races a timeout on the
server's side, which the models contain but no property singles out.

## 8. Not modelled

* The text of values, prompts, answers, journals and error messages; JSON schemas and
  redaction: pure functions on strings.
* How a line of source is taken apart into what it says; unclosed declarations; indentation.
* Pure I/O: HTTP parsing and responses, OpenAPI, Docker images, mounts and workspace
  clones (of the sandbox only what happens to its processes and its snapshot is modelled), package commands, the live progress display, hooks and telemetry.
* Authentication: a lookup. The time it takes is between `Receive` and `Start` of McpSession,
  and the principal it yields is part of a request of RunRegistry.
* Paging, artifact listings and downloads, keep-alive comments and output caps of the run
  API: they read records and change none. Requests the MCP engine answers in the turn they
  arrive in (initialize, ping, tools/list, refused arguments) leave its map alone.
* The test runner: it runs workflows one after the other with mocks.
* Of the config: `agent.model`, trusted environments and the value of `run.recover_limit`.
* Prompts in WorkflowRuntime and concurrency in Dispatch: each leaves to the other what the
  other is about.

`PROJECT.json` lists every component with its status and the reason.
