# Infinite Loop: a verification development

Infinite Loop is a Next.js server that runs *workflows*: graphs of agent, script,
condition, loop, parallel and subworkflow nodes.  One run is active at a time.
Runs are started by the user interface, by webhooks and by MCP clients; the
latter two wait in a queue.  This directory holds TLA+ models of the parts of
the server, and of the browser's editor, where order, failure and concurrency
matter, the TLC runs that check them, and TLAPS proofs.

Server and browser are one JavaScript thread each.  What interleaves is what an `await`, a
timer, a child process or a request handler lets in, and the models are written
at that grain: **a step is what the code does between two points at which
something else can run.**  Two kinds of such points are told apart.  An await
that waits for I/O lets requests, timers and file operations in.  An await of an
already decided promise lets in only other microtasks.

## 1. Inventory

| Component | State | Operations | Talks to | Hard behaviour |
|---|---|---|---|---|
| Trigger queue (`trigger-queue.ts`, `trigger-queue-singleton.ts`) | `q`, `nextId`, `draining`, `head` in hand | `enqueue`, `removeByQueueId`, `drain` | engine (start, status), event bus (`run_finished` calls `drain`), trigger store (`touchLastFired`) | requests, removals and direct starts fall between the two I/O awaits of `drain` |
| Engine life cycle (`workflow-engine.ts` 121-321) | `snapshot`, `abort`, event buffers | `start`, `stop`, settle, persist | event bus, worktrees, run store | Stop at any point; persist not awaited |
| Engine walk (355-479, 728-909) | frames of `walkFrom`/`walkLoop`, `_loopSignal` | visit, execute, follow, iterate, enter a subworkflow | node executors, workflow store | one signal field for all loops; errors, cancellations and exceptions take different ways up |
| Parallel node (496-711) | branch promises, controllers, `winners`, `completedFailures`, outcome | fork, record, settle, abort siblings, join | the walk | completion order, several branches in one turn, abort against completion |
| Run history (`run-store.ts`) | files of a directory | `saveRun`, `pruneOldest`, `getRun`, `listRuns` | engine | overlapping saves, crash between file operations |
| Child processes (`providers/runner.ts`, `nodes/script.ts`) | promise, two timers, process group | spawn, abort, time out, kill, close | child registry, engine signal | processes that ignore SIGTERM, grandchildren, timers that outlive the call |
| Child registry, shutdown (`child-registry.ts`, `server.ts`) | `active`, once in `server.ts` and once in Next's bundles; `shuttingDown` | register, unregister, two rounds of signals, early exit | child processes | children spawned while shutting down; who registers and who kills look at different copies |
| Event bus, event stream (`event-bus.ts`, `/api/events`, `ws-client.ts`) | listeners, frames in flight, the engine's capture of recent events, the browser's view | emit (synchronous), connect, disconnect, apply a frame | engine, queue, store of the browser | connections that break and reconnect during a run, frames of the run before |
| Queue history, MCP polling (`queue-history.ts`, `mcp/utility-tools.ts`) | bounded map | set on every `trigger_*` event, `get_run_status`, `cancel_run` | queue, engine, run store | eviction, record read before the snapshot |
| Trigger store and index (`trigger-store.ts`, `trigger-index.ts`, `/api/triggers`, `/api/webhook`) | files; cache and the build in flight | list, save, delete, `touchLastFired`; `lookup`, `invalidate`; webhook routing | queue | read-modify-write races, one temporary name per trigger, invalidation during a build |
| Worktrees (`worktree-manager.ts`, `nodes/agent.ts`) | entries by node id, a chain of promises per repository | `create`, `cleanupAll` | agents, engine | concurrent branches, failures of git |
| HTTP provider (`providers/http-runner.ts`) | request, timer, listener, SSE parser | start, chunk, done, time out, abort | engine signal | end, timeout and abort compete; events cut by chunks |
| Output of children (`providers/runner.ts`, `claude-stream-json.ts`, `nodes/script.ts`) | buffers, parser state | data, end | child processes, run log | lines cut by chunks, an unfinished last line, output that looks like the sentinel |
| Providers (`providers/loader.ts`, `hermes-local-store.ts`, `use-providers.ts`) | connection files, the server's cache, the browser's list | load, create, update, delete, refresh | agents, settings | changes during a load, files written in place |
| Verdicts (`nodes/judge.ts`, `nodes/condition.ts`, `conditions/`, `nodes/branch.ts`) | attempts of one execution | call, accept, retry once | providers, shell | Stop between the attempts, answers that are out of range |
| Workflow store (`workflow-store.ts`, `/api/workflows`) | files, version, the library under them | `saveWorkflow`, `getWorkflow`, `deleteWorkflow`, migration of inline triggers | engine, routes, trigger store | version read-modify-write, cycle check before write, a read that migrates |
| Templates, lint, run inputs (`templating.ts`, `template-refs.ts`, `resolve-run-inputs.ts`) | the scopes of a run | resolve, write an output, seed, classify | the walk, the editor | the lint must know what the walk will do |
| Client store, auto-save (`workflow-store-client.ts`, `use-auto-save.ts`) | document, dirty flag, undo stacks, timer, requests on their way | edit, undo, redo, save; make, load, rename and delete from the list | workflow routes | edits during a save, answers out of order, the open workflow changed from the list, changes discarded by a load |
| User interface, paths, file browser, authentication, MCP tool generation | none of a run | rendering, checks of one request | the above | - |

### What makes them correct

* Queue: nothing accepted is lost, doubled, overtaken or stranded; the cap.
* Engine: a run ends with the status its nodes and the user earned; loops end
  for cause; nothing still runs when the run is over; Stop works everywhere.
* Parallel: the first decisive branch decides, once; the handle is earned; losers
  are cancelled and waited for.
* History: a readable record is whole; only the oldest go; the cap comes back once a prune goes through.
* Processes: a killed call returns, its group dies, timers do not outlive it,
  a child that runs is registered, whatever happens, and one that is gone is not.  What a child prints arrives whole however it is cut.
* HTTP calls: success means a whole answer; nothing is left on the run's signal; a kill returns.
* Status polling: a status never goes back.  Event stream: a browser that reconnects catches up.
* Triggers: a request after a change is judged by the change; no change is lost.
* Worktrees: one git command per repository, no tree shared by nodes or left behind, nobody waits for ever.
* Providers: the lists are what is on disk.  Verdicts: a judge names a candidate that exists.
* Documents: graphs stay graphs under every edit and undo; what is not marked as changed is the server's copy;
  what is changed gets to the server; no workflow comes to run itself; the lint agrees with the run.

`PROJECT.json` lists the hazards behind these, at the line where each bites.

## 2. Modules

| Module | Models | Notes |
|---|---|---|
| `RunQueue` | - | abstract specification: a line that requests join, leave at the front, or are withdrawn from |
| `TriggerQueue` | `TriggerQueue`, `engineStartAdapter`, the wiring | refines `RunQueue` |
| `TriggerQueueProofs` | - | theorems about `TriggerQueue` |
| `ParallelNode` | `walkParallel` | one execution of the node |
| `ParallelNodeProofs` | - | theorems about `ParallelNode` |
| `Engine` | `start`, `stop`, `walkFrom`, `walkLoop`, `walkSubworkflow`, forking and joining of `walkParallel` | a workflow is a constant |
| `EngineProofs` | - | theorems about `Engine` |
| `MCEngine` | - | instances of `TriggerQueue`, `ParallelNode` and `Engine`, the last with nine workflows |
| `RunHistory` | `saveRun`, `pruneOldest` | one directory, every file operation of which may fail |
| `RunHistoryProofs` | - | theorems about `RunHistory` |
| `ChildProcess` | `runCliProvider`, `runInterpreter`, `child-registry.ts`, `shutdown` | signals, timers and exits; two copies of the registry |
| `ChildProcessProofs` | - | theorems about `ChildProcess`, `HttpCall` and `Providers` |
| `HttpCall` | `runHttpProvider` | one call |
| `Worktrees` | `RunWorktreesImpl`, `agentExecutor` | the worktrees of one run |
| `CallOutput` | the line loop of `runCliProvider`, the Claude stream parser, the result search of Script | one child |
| `Providers` | `loader.ts`, `hermes-local-store.ts`, `use-providers.ts` | files, cache, one browser |
| `Verdicts` | Judge, Condition and its strategies, Branch | one execution |
| `Triggers` | `trigger-store.ts`, `trigger-index.ts`, plugins, predicates, the trigger and webhook routes | files and requests |
| `RunStatus` | `queue-history.ts`, `get_run_status`, `cancel_run` | EXTENDS `TriggerQueue` and composes with it |
| `EventStream` | event bus, `/api/events`, `ws-client.ts`, the run view | one browser |
| `ServicesProofs` | - | theorems about `Worktrees`, `Verdicts`, `Triggers` and `CallOutput` |
| `RunStatusProofs` | - | theorems about `RunStatus` and `EventStream` |
| `MCServices` | - | instances of `ChildProcess` and the eight service modules after it |
| `Editor` | `workflow-store-client.ts`, `workflow-graph.ts`, `use-auto-save.ts`, `WorkflowMenu.tsx`, PUT and GET | one browser, one server |
| `WorkflowStore` | `workflow-store.ts`, its routes | concurrent requests |
| `Templates` | scopes in `workflow-engine.ts`, `templating.ts`, `template-refs.ts`, `resolve-run-inputs.ts` | one run |
| `DocumentsProofs` | - | theorems about `Editor`, `WorkflowStore` and `Templates` |
| `MCDocuments` | - | instances of `Editor`, `WorkflowStore`, `Templates` and `RunHistory` |

Operators named in comments as *slips* are not part of the models.  Each is a
plausible mistake in the definition that follows it; substituting it makes the
property listed with it in `PROJECT.json` fail.

### TriggerQueue

`q` and `nextId` are the fields of the class; `drain` says at which await the one
active `drain()` is suspended and `head` is its local; `running` and `runId` are
what the queue sees of the engine's snapshot.  `outcome[i]` is the last event the
queue emitted for request `i`, that is, what a client can observe.
`loadWorkflow` and `touchLastFired` wait for files, so each ends a step.  The await of
`engineStart` waits for no I/O: the adapter tests the status, starts the engine up to
its first await and returns, all in one turn.  The step `LoadFindsBusy` therefore
contains the requeue and the `finally`; `LoadStarts` contains the start and the event.
`Settle` contains the synchronous delivery of `run_finished` and the first stretch of
the `drain()` it calls.  A start that rejects before it has a run id
(`LoadStartRejected`: a stored workflow without edges) is reported as the code does,
under the id of the run before.

The refinement to `RunQueue` maps its `waiting` to `Waiting`: the array, with the
request in the hands of a loading drain in front of it.  Through this mapping the
requeue of a busy start is a stutter.

A direct start (`POST /api/run`) takes the engine whenever it is idle, also while a drain reads the
workflow of the head it holds; that drain then puts the head back.  Direct starts are not
counted: `MaxDirect` bounds the ids of their runs only (from there on they share one), so the model has the behaviours in which they
come for ever.

### ParallelNode

A branch is a promise chain of two microtasks: its walk ends and the result is
computed (`Walked`), and then `.then()` records it (`RecordBranch`), which may settle the
outcome and abort the siblings.  Results computed in one turn queue up, so a branch
may be computed before it is aborted and recorded after.  `ParentAborts` comes from a request (Stop)
and needs the microtask queue to be empty (`NothingDue`).  `AllSettled` is the `.then()` of
`Promise.all`, `Return` the two awaits after it.

### Engine

A *task* is a chain of calls that await one another: the run's own walk, and one per
branch of a parallel node.  A task is a stack of frames, one per `walkFrom` (at a node,
in a loop body or not) or `walkLoop` (in its i-th iteration).  `ret` is the value of the
innermost awaited call, `cpu` the task that runs.  Code between two awaits is not
interrupted (`cpu`), microtasks go before anything that waits for I/O (`Quiet`).  The
order among microtasks of different tasks is left open, which is more than a
JavaScript engine does and includes everything it does.

The return values of executors are chosen freely among the handles the node's type
can return; `Verdict` leaves to a parallel node every handle that `ParallelNode` shows
possible.  `broke` and `unhandled` are history variables for properties.

What a workflow must be is `WellFormed`: edges and containers refer to nodes, as `validateWorkflow` checks or the
editor's graphs have it, and, a bound, no walk from a branch of a Parallel node gets to another Parallel node.  `LoopsAlone` singles out the workflows in
which a loop is reached neither in the body of a loop nor in a branch; two loops are never in progress at once in their runs.  Both are
stated with `Avoids`: a set of nodes closed under `Successors` and without the kind in question.

Workflows (`MCEngine`): a flat loop, an endless loop with a wired error edge, a fork,
a fork in a loop, a loop in a subworkflow in a loop, loops in both branches of a fork, a
loop in a branch in a loop, empty containers, and no Start node.

### RunHistory

A save is a program of file operations: open the temporary file, finish writing it,
rename, list the directory, reap temporary files one by one, read the records one by
one, unlink the excess one by one.  `Settle` starts one without waiting, as the engine does,
so that saves of several runs overlap.  `Crash` discards the process's state at any point and
keeps the files.  Run `r` is the r-th by `startedAt`.

Pruning is best effort: a `readdir` that fails ends it (`ListFails`), a leftover or a record that cannot be
unlinked stays (`Reap`, `Drop`), a record that cannot be read counts for nothing (`ReadFile`), and `saveRun`
resolves all the same.  `sure` (history) is the set of prunes that have listed since the last such failure or exit, and `pruned` says that one of these
has completed; `Distrust`, part of every failure and of `Crash`, clears both.

### ChildProcess

One *call* is one `runProvider` or `runInterpreter`; both contain the same code.
The leader of its process group may start a helper, which shares its stdout or
redirects it.  SIGTERM may be caught or ignored by any process (`Sigterm` dooms any subset),
SIGKILL may not.  `Close` is the `close` event: the leader is gone and nobody holds its pipes.
After the server has exited only the operating system steps.

The registry is a plain `Set` of its module, and the module is loaded twice: `server.ts` is run by bun and imports
it as a file, while the spawn sites are compiled into the bundles of Next's routes.  The event bus and the queue are pinned to
`globalThis` against just this; the registry is not.  So `active` has a value per member of `Copies`: `Spawn` and `Close` change that of the
bundles, and `Shutdown`, `ForceExit` and `EarlyExit` look at that of the server (`OwnChildren`), which nobody ever fills.

### HttpCall

The server's answer is a sequence of events (`delta`, `junk`, `comment`, `done`), each sent in two
halves; a chunk is any number of halves, so that it may end inside an event.  `hphase` is the await
at which the call is suspended.  The timer, the user's abort, the end of the stream and
errors are actions of their own.  Whether an abort reaches a pending `read()` differs between
implementations of `fetch`, as the source says; `propagates` is chosen at the start, and
`CancelReader` is what the code does about it.

### Worktrees

A call is one execution of an agent node.  `repoLocks` is `tail`: the last ticket of
each repository's chain; `prev[t]` is the promise that `t` waits for and `released` the promises
that are resolved.  `AddFails` releases like `TreeAdded` (the code's `finally`); `CleanupAll`
queues one removal per repository behind whatever is there.  `repoNow` is what a path resolved to:
a call's cwd may be in no repository, and calls of one node in two.
`RemoveTree` may leave the tree where neither `git worktree remove` nor the `rm` after it succeeds, which the code
swallows; such trees are `stuck`.

### CallOutput

A line is three units (first part, rest, newline), a chunk any number of units, and the child may end
after any unit.  Tokens carry the position of the line they came from, so that loss,
duplication, reordering and rendering by the wrong rule can all be seen.

The harness of a script prints its result line with a newline behind it and none in front.  So a result line comes in three forms
(`ResultKinds`): at the start of a line, behind blanks, and *glued* to text that the script printed without a newline.  The console's filter and
`extractResult` treat them as the code does: both look for the sentinel at the start of a line, the second after trimming the line.

### Providers

Loading reads one file per step.  Connection files are written in place, in two halves; between
them a reader finds no JSON (`Broken`).  `tainted` says that a file changed during the load that
filled the cache, `spoiled` the same of a fetch of the browser: two histories the property excuses,
for the code has no defence against them.

### Verdicts

One execution of one node.  Replies are what a judge can print, as far as `judge.ts` tells
them apart: the result line is there, parses, is an object, names a winner in range, has a score
per candidate.  `abortedAt` records before which attempt Stop came.

### Triggers

A trigger's file is written to one temporary name shared by all writers of it, and renamed;
`fd` says what a writer's descriptor refers to after somebody else's rename.  `given[h]` (history)
is the set of contents the file had while request `h` was looked up, `meant` what the saves and
deletions so far amount to; `clash` names the triggers whose file changed while a
build read it or while another writer was at it, and is the excuse of both properties.  A build whose `readdir` fails (`LookUpFails`) leaves its rejected promise in `building`,
as the code does: every lookup that joins it answers 500, until some change of a trigger invalidates the index.

### RunStatus

Every queue event of `TriggerQueue` also changes the bounded history.  `get_run_status` reads the
history, the record of the run (an await) and then the engine's snapshot; between any two of these the
queue moves on.  `told[i]` is the last answer a poller of request `i` got.

### EventStream

Emitting captures an event and puts it on the open stream in one step; frames arrive later, in
order, or are lost with the connection.  The engine keeps the last `EventCap` events of a run
in progress, and a new connection starts with the snapshot and these.

### Editor

A document is `[wf, parent, edges, look]`; `look` stands for everything that no property is about, and
`Restyle` for `updateNode`, `setGlobals` and `setWorkflowInputs` (`setNodes` and `setEdges` are called by tests only).
`gesture` says that the last push was less than `HISTORY_COALESCE_MS` ago.  `puts` are the PUT requests
with their place: sent, done or failed at the server, and over or lost in the browser.  `ArmsTimer` is the effect of
`useAutoSave`, which looks at `isDirty` and the document's id only.

The menu makes workflows (`MakeNew`), loads them (`Pick`, then `Load` or `PickFails`), deletes them and renames them.
Deleting the open workflow takes its file away and leaves the document on the screen (`DeleteRow`).  Renaming one that
is not open is a GET and a PUT of the browser's own (`RenameRow`, and two steps of `RowAnswers`), between which the user may open it.
A load does not ask: it replaces a document that has unsaved changes, and its timer.

Three histories say what the code does not guard against.  `overtaken`: the document changed or was sent again while a PUT was on its way, or
was loaded with one on its way; the code neither orders nor compares what comes back.  `behind`: the open workflow's copy was deleted or
renamed from the list.  `discarded` counts the loads that threw changes away.

### WorkflowStore

A save walks the subworkflows one file per step (`path` is the stack of that walk, `cleared` what it has
finished), reads the old version, writes a temporary file in two halves and renames it.  A user's file hides the
library's.  Every read migrates inline triggers, in one step with the read: their files are written first, one that cannot be stays inline,
and a read whose `mkdir` of the trigger directory fails, fails itself (`VisitFails`; `NeedsDir` says which reads make it).  `disturbed` (history) says that two saves, or a save and a
delete, were in progress at once, or that a cycle check could not read a workflow that was there, which it takes for one without
subworkflows; `uncovered` that a delete made a library file visible, and `excused` names
the triggers whose loss the user or a failed write caused.

### Templates

The walk of the engine reduced to scopes: a stack of them, pushed by branches and subworkflows.  For each node kind,
which fields its outputs have on success and on error.  `Classify` is the lint's verdict on a reference, `Resolves` what the
run's scope has.  A branch of a Parallel node sees nothing of its siblings, so the walk follows one of them, any one.
The two searches of the lint, up through the containers and against the edges, are least sets: a node is in when every closed set has it.
So they need no rounds and can be reasoned about.  A loop or a Parallel node without children runs nothing; the second still writes its tally.

`normal` (history) lists, for every scope, the nodes that last ended without an error, loops that were left by `next` among them.  What a reference to such a
node should find is `Promised`: all the outputs that the lint offers, but for those that are `Occasional` (the winner of a Parallel node of another mode or without children,
the error message of a subworkflow that succeeded, the declared outputs of a script or subworkflow that did not give them).  A loop writes none of
its own: that is the violation `LoopOutputsResolve`, and the one reason why `TemplatesResolve` leaves loops out.

`TemplatesResolve` says what the lint promises for workflows that are `Orderly`: edges join nodes of one container, and no
node has the id `globals`, `inputs` or `__inputs`.  The library's workflows are so, but neither the editor nor `validateWorkflow` insists, and the
promise is false without it: past an edge out of a container the lint no longer sees what ran before the container, and a node called `inputs` overwrites the inputs.
A flagged reference may still find a value if the walk can come to its source again (`Repeats`: within a loop, or along edges that lead back):
then it finds that of the time before.

### Composition

`RunStatus` composes with `TriggerQueue`, whose variables it shares.  `ParallelNode` stands behind the `Verdict` of `Engine`.
The other modules share no state with each other; what one gives another (an event, an answer, a file) is an input
chosen freely in the receiver's module.  `MCEngine`, `MCServices` and `MCDocuments` therefore check them side by side: `part`
names the one whose steps a behaviour consists of (queue, engine, parallel; children, http, trees, output, providers, verdicts, triggers, status, events;
editor, files, templates, history).  A part that does not move stays as it starts, so its properties are checked there too.

## 3. Runs

| Run | Distinct states | Result |
|---|---|---|
| `engine` | 26 thousand | pass |
| `services` | 342 thousand | pass |
| `documents` | 392 thousand | pass |
| `stop_of_a_busy_agent` | | `StoppedIsCancelled` violated |
| `nested_loops` | | `UnhandledErrorFails` violated |
| `reap_of_a_live_save` | | `ReapsOnlyLeftovers` violated |
| `kill_of_a_group` | | `KilledGroupDies` violated |
| `team_preset` | | `JudgeReadsCandidates` violated |
| `orphans` | | `NoOrphanAfterExit` violated |
| `loop_outputs` | | `LoopOutputsResolve` violated |
| `glued_result` | | `ResultComesThrough` violated |
| `retry_of_a_failed_save` | | `NextEditRetries` violated |

`EngineTypeOK` is checked by a run.  `TypeOK` of `TriggerQueue`, `ParallelTypeOK`, `ChildTypeOK`, `HistoryTypeOK` and
`RunStatusTypeOK` are proved (section 4) and in no run.  The type invariants of the other modules are conjuncts of the properties named below.  The
ASSUMEs of the modules are evaluated in the runs.

**engine.**

| Property | Says | Instance |
|---|---|---|
| `NoStrandedWork` | no lost wake-up: while requests wait, a drain is in progress or a run is active whose end starts one | `MaxQueue` = 2, five requests: a full queue with a held head, refusals after re-prepends and removals; direct starts at any time |
| `WaitInOrder`, `StartInOrder`, `QueuedIsWaiting` | what is accepted is neither overtaken, nor doubled, nor lost between the array and the drain's hands | the same |
| `BoundedOvershoot` | the cap may be exceeded by the one request a drain holds, never by two | the same |
| `OutcomeIsFinal` | what was reported as started, dropped or removed stays so | the same |
| `EveryRequestLeaves` | every accepted request gets out, provided that direct starts do not starve the queue (`CallersYield`) | the same |
| `ImplementsRunQueue` | the queue is a `RunQueue`; that its line moves has the same proviso | the same |
| `FirstDecisiveRecordWins`, `HandleIsEarned` | the first decisive branch decides, once, and the handle is what mode, policy and quorum make of the branches | three branches: a winner, a loser and a bystander, a quorum of two that is met, missed or (as saving a workflow admits) larger than the number of branches; all modes, both error policies |
| `ReturnIsClean`, `CancelledForCause`, `SettledNodeReturns` | losers are aborted, for a reason only, and waited for; then the node returns | the same |
| `EngineTypeOK` | the types of the engine's variables | nine workflows, loops of two iterations or endless |
| `NothingRunsAtCleanup`, `OnlyStopCancels` | nothing of any branch is in progress when worktrees are removed; a run is cancelled by its user only | the same |
| `LoneLoopErrorsFail`, `LoneLoopsEndForCause` | an unhandled error fails the run; a loop ends for a condition of this iteration or at its maximum | the six of the nine workflows with `LoopsAlone`; `nested_loops` shows why |
| `StopSettles` | Stop reaches every level, and the run settles | all nine |

**services.**

| Property | Says | Instance |
|---|---|---|
| `NoStrayTimer` | no timer of a call that returned is left to signal a group whose number may be another's by then | two calls, so that one can be spawned while the server shuts down because of the other; the first child may fork |
| `RegistryIsExact` | a child that runs is in the registry of its spawn site, also during shutdown; one whose call returned is not | the same |
| `KilledCallReturns` | Stop and timeouts end a call, even of a child that ignores SIGTERM or whose helper keeps the pipe | the same |
| `HttpEndsWell` | exit code 0 means every delta up to `[DONE]`, once, in order, none of a cut event; no timer or listener is left, and a Stop reaches a call in progress | streams that end with `[DONE]` and go on, without it, and empty; every chunking, every manifest |
| `HttpKillReturns` | an aborted or timed out call returns though the server sends nothing and the abort does not reach `read()` | the same |
| `TreesHold` | one git command at a time in a repository; no tree shared by nodes or used when gone; none left after the run, except of a node whose calls disagree about the repository, and trees that cannot be removed | three of seven calls of two nodes in two repositories, with every way to need no tree |
| `TurnsCome` | whoever waits for a repository gets it, whoever fails before | the same |
| `OutputIsWhole` | every whole line is rendered once, in order, by its own rule; the tail is kept; a script's outputs are those of the last line that starts with the sentinel, which is the harness's when that has a line to itself | ten outputs, every chunking, ends at every unit |
| `ListsAreFresh` | the cache is what a fresh load finds; the browser's list is what is on disk, ids distinct; loads and fetches that a change overtakes are excused | two of three writers, two fetches, either connection there at first |
| `VerdictsAreSound` | a judge that goes on names a candidate in range on the word of its last call, and is not retried after Stop | all nodes, replies and aborts |
| `TriggersHold` | a webhook is judged by the trigger as it was while it was looked up; changes stand; changes of one trigger that overlap each other or a build are excused | three of six requests: a replacement, a deletion, a creation, three hits |
| `PollsAdvance` | a poller is told of progress only, up to `unknown` for an evicted or finished request | one entry of history, two requests, two polls by a caller that asks about either of them, one direct start's id |
| `BrowserFollows` | a browser that has read its stream to the end shows the engine's status and the kept events, in order, once | two runs, three events, two kept, two connections |

**documents.**

| Property | Says | Instance |
|---|---|---|
| `EditedGraphsAreWhole` | every document, undo entry, request and copy is a graph; undo entries are of the open workflow and within the limit | a loop with a node and an edge, a workflow to be made; three edits or uses of the menu, two saves |
| `CleanIsSaved` | a clean document is the server's copy, unless a request was overtaken or the list changed the copy behind the document's back | the same |
| `EditsGetSaved` | the server comes to have every changed document, without the user doing more, unless a load discards the changes, a save fails or a request is overtaken; what the list does is no excuse | the same |
| `FilesHold` | no workflow comes to run itself, no file is torn, list and GET agree, all this while saves do not overlap each other or a delete; no inline trigger is lost in any order | three of four saves of which two close a cycle and one is invalid, deletes, a library file under a user's |
| `LintIsRight` | a reference that the lint accepts to an output its source always sets is found whenever the source last ended without an error, loops excepted; one it flags is not found unless the walk can come to the source again, undeclared inputs of subworkflows excepted; inputs have their types | four workflows with a loop, races, a quorum, a condition, a judge, a subworkflow, globals and inputs; edges that lead back, empty containers |
| `NoTornRecord` | a record that can be read is whole, whenever the process exits | `Cap` = 1, three runs, one exit: the second and third save each have something to prune, and two prunes can disagree |
| `CapHolds` | once a prune has listed and finished after the last exit or failed file operation of a prune, and none is in progress, the cap holds | the same |
| `PrunesOldest` | a record goes only while `Cap` newer ones stay, however old the listing | the same |

**Violations.**  Each is a disagreement between the repository's own words and its code:

1. `stop_of_a_busy_agent`.  `specs/workflow-dag-design.md:214`: on Stop "the engine settles the
   run as `cancelled` immediately after the active node is killed".  A killed agent comes back as
   the branch `error`; with no error edge, `walkFrom` returns `failed` without looking at
   the signal.  The run is recorded as failed.
2. `nested_loops`.  `specs/workflow-dag-design.md:134`: "If no `error` edge is wired, an
   error settles the run as failed."  A `break` left in `_loopSignal` by an inner loop makes
   the outer loop end normally when its body fails; the run succeeds.
3. `reap_of_a_live_save`.  `run-store.ts:108`: "Reap any leftover `.tmp` files from a crashed
   prior write".  It reaps those of a write in progress too, whose rename then fails.
4. `kill_of_a_group`.  `runner.ts:121`: "so we can kill the whole group (including
   grandchildren like `sleep`) on timeout/abort".  `close` of the leader cancels the SIGKILL.
5. `team_preset`.  `specs/multi-agent-orchestration.md:173`: "Resolve `criteria` and each entry of
   `candidates[]` against scope", and `README.md:117` says the Team preset's judge reads all three.  The engine
   resolves templates in no field of a judge (`workflow-engine.ts:53-63`), and the outputs of branches are in scopes
   of their own that the judge does not have.  The judge compares the text of three references.  The lint, which
   "mirrors" the engine's table (`template-refs.ts:309`), accepts them.
6. `orphans`.  `child-registry.ts:10`: "Each spawn site registers its pid here so server.ts can reap the lot on
   shutdown".  The copy that `server.ts` looks at is not the one that the spawn sites register in: it is empty, the
   server exits early, and the agent lives on.
7. `loop_outputs`.  `docs/workflow-format.md:49` and `template-refs.ts:76-80` list `iterations` and `broke` among the
   outputs of a loop.  `walkLoop` writes no outputs, so a reference that the lint accepts finds nothing.
8. `glued_result`.  `script.ts:17-19`: "Sentinel emitted by the harness on its own stdout line.  The line is stripped
   from the user-visible stdout before storage".  The harness prints no newline first; behind `process.stdout.write('.')`
   the line does not start with the sentinel, the declared outputs are lost and the line is shown.
9. `retry_of_a_failed_save`.  `use-auto-save.ts:13-14`: "Failures are logged and left on `isDirty: true` - the next
   mutation will retry."  The effect that arms the timer depends on `isDirty` and the id, neither of which a further edit changes.

### Bounds

`MaxIds`, `MaxRuns`, `MaxCrashes`, `MaxPolls`, `MaxEvents`, `MaxConnects`, `MaxActs`,
`MaxSaves` and `MaxIterations` bound behaviours and stand in guards; `MaxDirect` bounds the ids of direct starts and not the starts;
`MaxCalls`, `MaxWrites`, `MaxRequests` (`MCServices`), `MaxStarted` and `MaxSaving` (`MCDocuments`) choose how many of the given actors take part.  `Asked` lets
the polls of a behaviour be about one request (either), and only the first of two children forks.  Others:
loops of the engine's workflows have at most two iterations (the count of an endless
loop is not kept), a parallel node is not a branch of another one, a child process starts at
most one helper at a time, and helpers stay in the group.  `infinite` loops contain a node
that does I/O (see below).  Deadlock is not checked where the system stops: every
bounded behaviour ends, and so does a run.

Why they are enough:

* `MaxQueue` = 2, `MaxIds` = 5: two places make a full queue with a held head, five requests allow refusals after re-prepends and removals.
* `MaxCalls` = 3: two that wait behind one that has the slot, or one in another repository.  Any three of
  the seven are tried.
* `MaxStarted` = 3: three of the four saves are begun, in any order, so two that close a cycle and a third that overlaps one.  `MaxSaving` = 2: two
  prunes at a time, of three.
* `Cap` = 1: the second and the third save each have something to prune.
* `MaxWrites` = 2, `MaxRequests` = 3: a change, one that overlaps it, and for triggers a request
  that reads.  The temporary file is shared by two writers at least.
* `MaxEntries` = 1 makes the history evict at the second request; two polls are the least that can go back.
* `EventCap` = 2 of `MaxEvents` = 3: the capture slides.  Two runs let frames of the first arrive during
  the second, two connections let one break.
* `HistoryLimit` = 1 with `MaxActs` = 3 makes `pushPast` drop the oldest, and lets the list change or reload what was edited.  The proofs cover all limits and
  any number of edits.  `Selectable` is one node, which can be removed with its container.
* `MaxSaves` = 2 is the least with which answers overtake each other.

### Fairness

* Queue: file operations return (`WF` of the returns of `loadWorkflow` and
  `touchLastFired`), and an active run settles.  The latter is an assumption about workflows: an
  agent without a timeout in an endless loop holds the queue for ever.  That is not enough: the queue has no claim on the
  engine, and whoever posts `/api/run` in every await in which a drain reads its head's workflow makes `LoadFindsBusy` put that head back for
  ever.  Nothing in the code prevents it (it is listed as a hazard), so `EveryRequestLeaves` and the liveness part of
  `ImplementsRunQueue` are stated under `CallersYield`: from some time on no direct start falls into such an await.  Without it both are false.  The safety
  properties of the queue need no such thing.
* Parallel and Engine: microtasks run; file reads and the clean-up of worktrees return; the
  executor of an in-memory node returns; an executor that does I/O returns *once it is
  aborted* - which `KilledCallReturns` and `HttpKillReturns` show for child processes and HTTP calls.  An executor that is not
  aborted may run for ever.  Conditions do not look at the signal; they return because
  of a limit of their own (30 s for a command, 60 s for a judge), up to the hazard listed
  for commands.
* `SF` of `Stop`: a request in the event queue is served when the microtasks run out, again
  and again, which is what strong fairness says.  A loop whose body never waits
  for I/O never lets them run out; no fairness then helps, the workflows of the run have
  none, and the hazard is listed.
* Processes (`ChildFairness`): armed timers fire, `close` is delivered, signals take effect.  No process owes an exit.
* HTTP (`HttpFairness`): an aborted `fetch` rejects, a cancelled reader ends.  Nothing of the server.
* Worktrees (`TreesFairness`): a resolved promise is taken up and git ends - an assumption, since `runCmd` sets no
  timeout.  Nothing of the agents.
* Editor (`EditorFairness`): timers fire, requests are answered or fail, an answer that is to be loaded is loaded or does not come.  The user owes
  nothing.
* RunHistory, Triggers, Providers, WorkflowStore, Templates, Verdicts, CallOutput, RunStatus (as used here) and EventStream
  state safety only.

## 4. Proofs

`TriggerQueueProofs` proves, for every `maxQueue` >= 1 and every bound, with
`QueueAssumption` as the only assumption:

| Theorem | Property |
|---|---|
| `TypeCorrect` | `TypeOK` |
| `NoLostWakeup` | `NoStrandedWork` |
| `FirstInFirstOut` | `WaitInOrder` |
| `NothingLost` | `QueuedIsWaiting` |
| `Overshoot` | `BoundedOvershoot` |
| `OutcomesAreFinal` | `OutcomeIsFinal` |
| `StartedInOrder` | `StartInOrder` |
| `QueueImplementsLine` | `RQ!Safety`, the safety part of `ImplementsRunQueue` |

The inductive invariant is `IInv`.  Besides the properties it needs `HeadHeld` (a suspended
drain holds a request, an idle one none) and `Fresh` (ids beyond `nextId` are new, and what
waits has been accepted).  They depend on one another: that nothing is lost
needs the waiting requests to be distinct, which is `WaitInOrder`; that an accepted
request joins behind all others needs `Fresh`; that the line stays below the cap plus one
needs the cap on `q` alone and the single `head`.  `StepShape` reduces the nine
actions to five changes of the line `Waiting` (unchanged, joined at the end, left at the
front by a start or a drop, withdrawn in the middle), from which the invariant,
both action properties and the step simulation of `RunQueue` follow.

`ParallelNodeProofs` proves, for every finite set of branches, every mode, error policy
and quorum, with `ParallelAssumption` (there are finitely many branches):

| Theorem | Property |
|---|---|
| `TypeCorrect` | `ParallelTypeOK` |
| `FirstDecides` | `FirstDecisiveRecordWins` |
| `CancellationsHaveCause` | `CancelledForCause` |
| `ReturnsClean` | `ReturnIsClean` |
| `HandleEarned` | `HandleIsEarned` |

`FirstDecisiveRecordWins` looks back over all records (`order`), the code keeps counters and one outcome,
so the invariant ties the two together: `winners.length` is the number of successes recorded
(`WinnersCounted`), a decisive record leaves no outcome open (`DecisiveDecides`), the outcome
is that of the first decisive record (`FirstWins`), and without one it stays open until all are
recorded (`OpenToTheEnd`).  `PastStands` says that no step changes whether an
earlier record was decisive; hence only the appended record matters, and `RecordAdds` shows
that it is decisive exactly when the `.then()` of its branch settles the node.
`CancelledForCause` and `ReturnIsClean` need in addition that branches are aborted for a reason
(`AbortedForCause`) and that only a Stop makes the outcome "cancelled" (`VerdictFromStop`).
`HandleEarned` uses a second invariant on top of the first, `HInv`: the winners are distinct recorded successes
(`WinnersSucceeded`, `WinnersDistinct`), no recorded success and no recorded failure is forgotten (`NoneForgotten`), and each outcome rests on
the counters that justify it until the node has returned (`SuccessRests`, `ErrorRests`, `ReturnedRoute`).

`ChildProcessProofs` proves, of `ChildProcess` for every number of calls and without an assumption, of `HttpCall` with
`HttpAssumption` (a stream is a finite sequence of events), and of `Providers` with `ProvidersAssumption` (what files and
requests consist of; no content of a file looks like no file or like half of one):

| Theorem | Property |
|---|---|
| `TypeCorrect` | `ChildTypeOK` |
| `TimersEndWithCalls` | `NoStrayTimer` |
| `RegistryCorrect` | `RegistryIsExact` |
| `HttpCallsEndWell` | `HttpEndsWell` |
| `ProviderListsAreFresh` | `ListsAreFresh` |

That the registry of the spawn sites is exact needs two facts that hold each other up.  A leader that runs belongs to a pending call, and a pending call
is registered (`Registered`), because spawning and registering are one step and `close` comes after the leader has exited; what is registered is pending
(`ListedPend`), because `finish()` is the one place where a call ends and it takes the pid out.  Both hold while the server is closing, when the code spawns as before.
What does not follow is that the server leaves no child behind: that is `NoOrphanAfterExit`, which `orphans` refutes, for `shutdown()` asks the other copy.

Of an HTTP call the invariant says after every chunk what the property says at the end: the events handled are those that
have arrived whole, up to the first `[DONE]` (`HandledTo`), and what has been given out lists the positions of the deltas among them, in order.  A
chunk appends one such list to another (`ListsJoin`); that every finite set of positions has a list, which the model chooses, is an induction
over the sets of numbers up to n (`ListExists`), for which the library's well-founded order stands in.

Of the provider lists: what a load has read is still on disk as long as no file has changed (`LoadsRead`), so the cache it fills is too (`CacheStands`).
The browser's half is about lists that are out of date.  A list is out of date and not yet to be refreshed only while the fetch that gave it has been
overtaken by a later one (`AnswersStand`), whose answer is still to come (`SeenStands`): every writer resets the cache before its modal may
refresh, and a refresh sends a fetch.  That of each id there is one manifest (`FirstIsOnly`) rests on no two manifests having the same place in the order of loading.

`EngineProofs` proves, for every set of workflows that satisfy `EngineAssumption` (each is `WellFormed`):

| Theorem | Property |
|---|---|
| `TypeCorrect` | `EngineTypeOK` |
| `QuietAtCleanup` | `NothingRunsAtCleanup` |
| `CancelledByStop` | `OnlyStopCancels` |
| `LoneLoopErrors` | `LoneLoopErrorsFail` |
| `LoneLoopEnds` | `LoneLoopsEndForCause` |

The inductive invariant `IInv` (theorem `Invariance`) is about stacks of any depth.  A stack is a `Chain`: each frame is one that the frame under it can have called,
a loop's body on its `walkLoop`, a `walkLoop` on its loop node, a child workflow on its subworkflow node.  What the innermost call has returned is `Returnable` to its caller.
Branches are `BranchesFlat` (nothing on their stacks leads to a Parallel node) and `BranchesForked`: a branch has frames or a result only while the run's own
walk waits at the Parallel node whose root it is.  With `Phases` that is `NothingRunsAtCleanup`.  `CancelledByStop` needs `StopStands`: aborts of siblings never
reach the task of the run itself, so that "cancelled" gets there from a Stop only.
Of the steps, most do one of three things to one stack: return from a frame (`Returning`), turn it to another node (`Turning`) or call further in (`Calling`).
One lemma each shows that such a step keeps what `IInv` says of its task, `AloneKeeps` that it disturbs no other, and a lemma per action that it is of that form.
The rest, forking, recording and joining of branches and the beginning and end of the run, have a lemma each.

The two properties of lone loops stand on a second invariant, `LInv`, about the one `_loopSignal`: while a body is in progress it is clear until the body's
last node has set it (`SignalFresh`), a break that is set is that of a condition met in this iteration (`BreakNoted`), and an error of the run's own walk that had no edge leaves the stack as "failed",
frame by frame, through loops that see no signal (`ErrorStands`).  Each fails with two loops in progress, for which `nested_loops` has the trace.

`RunHistoryProofs` proves, for every `Cap` and every number of runs and crashes, with `HistoryAssumption`:

| Theorem | Property |
|---|---|
| `TypeCorrect` | `HistoryTypeOK` |
| `RecordsAreWhole` | `NoTornRecord` |
| `CapComesBack` | `CapHolds` |
| `OldestGoFirst` | `PrunesOldest` |

Prunes of several saves work from listings of different ages.  Two facts make that harmless.  A record that
is *backed*, that is, has `Cap` newer ones on disk, stays backed whatever prunes drop: when one of the newer ones goes,
that one was backed itself, by records that are newer still (`BackedStays`).  Hence what a prune drops is backed when it drops
it, however old its listing (`ReadsStand`, `DropsBacked`), which is `PrunesOldest`.  And once a prune has listed or completed since the last
failure (`sure`, `pruned`), either the cap holds or some prune in progress is *adequate* (`Covered`): nothing has failed it, and it listed, or will list, the directory
after every rename so far.  The last save to rename is always such a one.  A prune whose file operation fails may leave any number of records; then nothing is claimed
until another has gone through from its listing to its end, which `Distrust` says.

`ServicesProofs` proves, for all calls, nodes and repositories, with `NamesApart` (calls, repositories and the null values
differ) and `EntriesAreNotNil`; for all decisions and answers, with `VerdictAssumption` (what they consist of); for all
triggers, plugins and requests, with `TriggersAssumption` (a trigger is a record, no file and a torn file are none); and for
all that children print, with `OutputAssumption` (finitely many lines, those of a stream of the kinds the parser tells apart):

| Theorem | Property |
|---|---|
| `TreesAreHeld` | `TreesHold` |
| `JudgeIsSound` | `VerdictsAreSound` |
| `TriggersAreCurrent` | `TriggersHold` |
| `OutputArrivesWhole` | `OutputIsWhole` |

The lock is a queue without a queue: nobody holds a list of who waits, there are only promises.  `LockInv` says what the
chain amounts to: the predecessor of a ticket is of the same repository (`PrevInChain`), the tail has nobody behind it (`TailIsLast`),
a chain that is held has a tail (`HeldChainHasTail`), no ticket waits for itself around a circle (`Grounded`), two tickets never wait for the same one
(`OneBehind`), and of those that have a place in one chain at most one has its turn (`OneTurn`), which gives `OneGitPerRepo`.
Lemmas prove it for taking a ticket and for releasing one, whoever does it.  The other half (`CallPlaces`, `CleanupPlaces`, `WalkOver`,
`EntriesStand`, `CwdStands`, `AddersFirst`, `TreesKnown`, `Settled`) says which trees, entries and removals belong to one another while the run goes
through its phases: a clean-up takes its tickets when no call is in progress, so it is behind every `git worktree add`.

Of a verdict the invariant says how many calls there have been (`CallsCounted`), that none follows a Stop (`StopHeeded`), and what the last
one was when the node is done (`VerdictGiven`).

Writers of one trigger share its temporary file, readers share a build, and `touchLastFired` is a writer too.  `FileInv` says what
a writer can rely on while its file has no `clash`: what it has read is what is still there (`FoundStands`), the temporary file is its own to
rename (`TmpIsMine`), and it holds what was written (`TmpHeld`).  `LookupInv` says that a build has read each file as it was at some moment since any
lookup joined it (`BuildsRead`), and that cache and disk are among what a lookup may see (`IndexIsFresh`, `DiskIsFresh`).  That a cache
filled by a build from before a change stays stale is excused by `clash`, in the property and in the proof: the code has no defence.

Of a child's output the invariant says the same after every line as the property at the end: the lines taken out so far have
been shown as they should, in order (`LinesShown`), and `inflightTools` knows of exactly the ids of which a task is the last call
(`TasksKnown`), which is what the property says without the parser's state.  A script's output is its lines one by one (`LinesKept`), so that the
last sentinel line, the greatest position in a finite set (`LastOf`), is also the last one printed.

`DocumentsProofs` proves, for all nodes, containers, links, workflows, looks and every `HISTORY_LIMIT`, with `EditorAssumption` and
`DocumentAssumption` (the server's first documents are graphs); for all files, saves and deletes, with `StoreAssumption` (the
first files are whole and make no cycle, as the library's are shipped; a save names workflows); and for all workflows, iterations and inputs, with
`TemplatesAssumption` (each workflow is `WellFormed`, which is what `validateWorkflow` and the document's shape give: edges join nodes, there is a Start,
no container is in itself, a loop's first child is one of its children):

| Theorem | Property |
|---|---|
| `CleanMeansSaved` | `CleanIsSaved` |
| `EditsKeepGraphs` | `EditedGraphsAreWhole` |
| `FilesAreSound` | `FilesHold` |
| `LintIsSound` | `LintIsRight` |

The graph helpers have a lemma each: adding, removing with the subtree, linking, unlinking, restyling and normalising take a graph to a
graph of the same workflow.  `HistoryOK` bounds the two stacks *together* by the limit: only `pushPast` looks at the limit, and `redo`
cannot exceed it because it takes back what `undo` gave.  For `CleanIsSaved` the invariant says what is on its way while nothing has been
overtaken: one PUT at most (`OnePut`), whose body is still the document, and once it is done the server has that document unless the list has changed the copy
since (`PutsAreCurrent`).  Nothing is needed of the requests of the list itself: what they do to the open workflow is noted in `behind` when it
happens, and a load notes whether the copy it got is still the server's.

That no workflow comes to run itself is stated without recursion (`Acyclic`): all that a workflow runs, directly or not, is within a set of
workflows that is closed and that it is not in.  `Walked` is the depth-first search in progress: the cleared nodes run only cleared nodes, and of a node on
the stack every child is cleared, next on the stack, or still to do.  A search that ends without a cycle leaves the set that `Harmless` asks for, with which
`SaveIsAcyclic` shows that the rename closes no cycle.  All of it needs that no other save changes files meanwhile (`OneSaves`) and that the search reads what is there, hence
the excuse `disturbed`.  The inline triggers need no excuse: every read, the GET of the saving client among them, sees to the triggers of the file it reads, and what
is replaced unread or deleted is `excused` (`InlineKept`, `SaversAccount`).

Whether the lint is right depends on the whole way from the Start to a node, through frames of any depth.  The invariant (`TemplateInv`) therefore says of *every*
frame of the stack, not only of the one that runs, what the scope it will go on with holds (`Held`).  Nothing is in it but the outputs of nodes upstream of the frame's node, or of
nodes the walk may come to again; and of each node but a loop that last ended without an error, all that such a node always sets (`Promised`), unless it is in a branch of a Parallel node that the
frame's node is not in (`Covers`), for then it was written to a scope that is gone.  Which scope and which notes are a frame's is a matter of counting (`Numbered`): a frame
within a Parallel node or a subworkflow has opened one.  What lies between two frames is a chain of containers or of calls (`Nested`).
With that there is a lemma for each way in which a walk goes on: writing and following an edge, returning from an end, entering and repeating a loop, entering and leaving a
branch, entering and leaving a subworkflow.  They rest on facts about the least sets: what is upstream of a source of a node is upstream of the node
(`Strict`), and what is upstream of a container is upstream of all within it.

`RunStatusProofs` proves, for every `maxQueue`, `MAX_ENTRIES` and bound, with `QueueAssumption` and `StatusAssumption`, and for every
number of runs, events, kept events and connections, with `StreamAssumption`:

| Theorem | Property |
|---|---|
| `PollsOnlyAdvance` | `PollsAdvance` |
| `StatusTypeCorrect` | `RunStatusTypeOK` |
| `StreamIsFollowed` | `BrowserFollows` |

It stands on `TriggerQueueProofs`: a step of `RunStatus` is a step of the queue or leaves the queue's variables alone (`QueueMoves`), so `IInv`
carries over.  An answer is overtaken and never contradicted because what was said stays true (`ToldTruly`): an entry of the history is what the
queue last said of its request (`EntriesCurrent`), an accepted request has its entry unless it was evicted (`NoneMissed`), a poll that waits for a
file asks about a started request (`PollHolds`), and exactly the settled runs have an end (`EndsKnown`).  `HistoryFollows` shows that one
event, with the eviction it may cause, keeps the history so.

For the event stream the invariant looks ahead: `LeadsTo` is what the browser will show once it has applied the frames that are on the wire, and
on an open connection that is what the engine has (`Followed`, `UpToDate`).  A frame that is applied moves the first towards the second and changes
neither; an event that is emitted changes both alike; a connection that breaks drops the claim, and the snapshot that a new one begins with restores it.

**Only model-checked:** liveness (`EveryRequestLeaves`, the fairness of `RunQueue`,
`SettledNodeReturns`, `StopSettles`, `KilledCallReturns`, `HttpKillReturns`, `TurnsCome`, `EditsGetSaved`), which is out of the prover's
reach under fairness.  Every invariant that a passing run checks is a theorem.

## 5. Not modelled

* What an agent, script or condition computes, and the text of prompts and logs.
* The HMAC of a signature and the parsing of a request's body (one truth value each), the shape checks of a
  workflow document (one truth value of a save), the generation of MCP tools and the filtering of their outputs: pure functions of one request.
* Rendering, positions of nodes, the grouping of log lines, the rest of the user interface: no state of the system depends on it.
* Paths, the file browser, authentication and configuration: checks and reads of one request.
* `reset()` of the engine and `clear()` of the queue: only tests call them.
* The abort of a command condition (`conditions/command.ts`), whose processes are in no group and which takes no signal; the judge condition creates an
  `AbortController` that nothing fires (`conditions/judge.ts:70`).  Both are hazards or notes in `PROJECT.json`, not models.
* The read of an error body (`http-runner.ts:120-139`): `text()` cannot be cancelled, so `HttpKillReturns` leaves that phase out.

While translating the source, these differences between what the code does and what a comment or a reader may expect came up.
The models follow the code in each:

* `globals` are not seeded in the scope of a subworkflow, though the lint accepts them there.
* A reference of a node to itself is flagged as always empty; inside a loop it holds the previous iteration's value.
* The lint flags an agent's `worktreePath` and deep paths below a Parallel node's children, which do resolve.
* `reachablePredecessors` is not "guaranteed to exist": with two ways into a node one of them suffices.
* A blank text is coerced to the number 0.
* Removing a container leaves a selected child selected.
* An edit made during a save is marked as saved when that save returns.
* Loading another workflow discards unsaved changes without a question, and deleting the open one leaves its document on the screen, clean.
* Inputs are resolved when a request is queued; a workflow edited before the drain may no longer accept them.
* A request in the hands of `drain()` cannot be withdrawn, which `docs/mcp.md:72` does not say.
* When two subworkflows share a node id and work in different repositories, one of their worktrees is forgotten.

### What the excuses leave out

Some properties say "unless".  What follows the word is a history variable that the model sets where the code has no defence, so
the hazard itself is in the model and no property catches it; `PROJECT.json` lists these hazards without a property.

| Excuse | In | What it lets through |
|---|---|---|
| `tainted`, `spoiled` | `ListsAreFresh` | a load or fetch that a change of the files overtakes brings the old list |
| `clash` | `TriggersHold` | two writers of one trigger lose a change, a build from before a change stays in the index |
| `overtaken` | `CleanIsSaved`, `EditsGetSaved` | an edit during a save is marked as saved |
| `behind`, `discarded` | `CleanIsSaved`; `EditsGetSaved` | the open workflow is deleted or renamed from the list; a load throws changes away |
| `disturbed` | `FilesHold` | two saves that pass the cycle check together close a cycle |
| `excused` | `FilesHold` | a trigger whose own write failed is gone with the next save |
| `stuck` | `TreesHold` | a tree that cannot be removed stays |

What remains claimed is everything else: all orders in which these do not happen, and for `FilesHold` the triggers in every order.

## 6. What could follow

* Parallel nodes within branches of Parallel nodes, the one bound of `EngineProofs`: tasks would be paths of roots.
* `ParallelNode` as the implementation of the choice that `Engine` makes in `Record` and `Join`, stated as a refinement.
* The side conditions of `Orderly` as checks of `validateWorkflow`: the theorem about the lint names what they would buy.
