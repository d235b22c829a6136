# Verification of the gihanga coding agent

The repository is a coding agent for the terminal: a model answers prompts and
calls tools that read and change files, the conversation is kept in session
files, compacted when it grows, forked and resumed. This directory holds TLA+
specifications of the parts that carry its own logic, the TLC configurations
that check them, and proofs of the central properties with TLAPS. All paths
below are relative to `packages/` of the repository unless they are names of
modules.

To run: `tlc -config X.cfg M` for a run of the table under *Runs*, and
`tlapm M.tla` for a module of *Proofs*.


## 1. Inventory

| Component | State | Operations | Hard behaviour |
|---|---|---|---|
| File mutation queue (`coding-agent/src/core/tools/file-mutation-queue.ts`) | a map from canonical path to the last promise of a chain; one registration promise | `withFileMutationQueue(path, fn)` | calls overlap; the key is found asynchronously; clean-up races later calls; functions and `realpath` throw |
| Write and edit tools (`core/tools/write.ts`, `edit.ts`) | the file; the abort signal | `execute` | read-modify-write over awaits, abort at any await |
| Agent and agent loop (`agent/src/agent.ts`, `agent-loop.ts`) | transcript, the loop's own context, steering and follow-up queue, pending tool calls, the active run and its signal | `prompt`, `continue`, `steer`, `followUp`, `abort`; turns, tool batches, polls | queues are filled while the loop decides to stop; tools settle in any order; hooks and listeners throw |
| Agent session (`coding-agent/src/core/agent-session.ts`) | active flag, retry counter and timer, overflow flag, shown queue, deferred shell results, waiters for idleness, the saved session | `prompt`, `steer`, `followUp`, `clearQueue`, `recordBashResult`, `abort`, `compact`, `navigateTree`; retry and recovery after a run | every `await` of `prompt` and of the run's aftermath admits other calls |
| Session manager (`core/session-manager.ts`) | entries of the current session as a tree, leaf, labels, `flushed`; the session files | append*, `branch`, `resetLeaf`, `branchWithSummary`, `newSession`, `setSessionFile`, `createBranchedSession`, `forkFrom` | the file is created late; writes fail or are cut short; a process dies; forks re-chain the tree |
| Compaction (`core/compaction/compaction.ts`) | none (pure), but its result is used after an await | `prepareCompaction`, `findCutPoint`, `compact` | index arithmetic over a mixed list; what a second compaction takes over from the first |
| Branch summarization (`core/compaction/branch-summarization.ts`) | none | `prepareBranchEntries`, the summary | only its effect on the tree is modelled |
| Session runtime (`core/agent-session-runtime.ts`) | the current session and its services | `fork`, `switchSession`, `newSession`, `dispose` | replaced while hooks run |
| Agent harness (`agent/src/harness/agent-harness.ts`) | phase, pending session writes, three queues, run promise and its abort controller | `prompt`, `skill`, `promptFromTemplate`, `steer`, `followUp`, `nextTurn`, `appendMessage` and setters, `compact`, `navigateTree`, `abort`, `waitForIdle` | the phase turns idle before the listeners of the end have run; a flush that awaits between read and removal; listeners and hooks that throw |
| Event stream (`ai/src/utils/event-stream.ts`) | queue, waiting consumers, done flag | `push`, `end`, iteration, `result` | a producer that rejects never ends it |
| Authentication storage (`core/auth-storage.ts`) | the credentials file and its lock directory, the copy in memory, whether the last load failed | `login`, `logout`, `set`, `remove`, `reload`, `getApiKey` with the refresh of a token | several processes; a lock that grows stale at two different ages; a token that is good for one use; crashes |
| Settings manager (`core/settings-manager.ts`) | two settings files, modified fields, write queue | setters, `flush`, `reload` | a write completes after a later modification |
| RPC mode and client (`modes/rpc/`) | pending requests, timers, child process | `send`, `stop`, events | timeouts against late answers; exit with requests pending |
| Orchestrator (`orchestrator/src/`: `supervisor.ts`, `rpc-process.ts`, `radius.ts`, `storage.ts`) | live instances with their records and resources, `instances.json`, pending requests, heartbeat states | `spawnInstance`, `stopInstance`, `handleRpc`, exits, heartbeats, `recoverAfterRestart` | stop or exit while spawning; requests without a timeout; clean-ups that throw; restarts |
| Bash tool output (`core/tools/output-accumulator.ts`, `core/bash-executor.ts`) | rolling buffer, counters, spill file | `append`, `finish`, `snapshot` | boundaries of the window |
| Terminal input buffer (`tui/src/stdin-buffer.ts`) | partial escape sequence, timer, paste mode | `process`, `flush` | a sequence split over chunks |
| Extension runner (`core/extensions/runner.ts`) | loaded extensions | `emit*` | handlers throw or await |
| Message transformation (`ai/src/api/transform-messages.ts`) | none | repair of unanswered calls | a sequential algorithm |
| Terminal UI, packages and resources, Cloudflare workers | layout; files on disk; an external database | | little state of their own |

How they interact. `AgentSession` owns an `Agent` and a `SessionManager`. A
prompt goes from the session to the agent; the agent's loop calls the model and
the tools and emits events; `Agent.processEvents` applies an event to the
agent's state and then awaits the listeners, of which the session is one: it
saves the message on `message_end`. After a run the session decides whether to
retry, to compact or to go on with queued messages, and starts the next run by
`agent.continue()`. The write and edit tools run their work inside the file
mutation queue, which is shared by all sessions of a process. Compaction reads
the path from the session manager, awaits a summary and appends its entry.
`AgentHarness` is a second driver of the same loop, with a session of its own
kind. All instances of the agent share the credentials file of `AuthStorage`; the
orchestrator runs instances as child processes and talks to them by requests
over their standard input and output.

What makes each part correct, in one line each: mutations of a file exclude each
other and keep call order; an edit is computed from what it replaces; every
queued message is delivered once and in order, and a tool result stays with its
call; the session file is the transcript, is never shortened, and a fork is the
conversation it was taken from; a compaction forgets nothing it does not
summarize; an idle session has nothing running and nothing stranded; what is
retried is bounded and whoever waits is told. A refresh token is used once and
its successor saved, and a login is not undone by another instance; a running
process can be stopped and nobody waits for one that is gone; what is written
to a busy harness reaches its session once, and its phase tells the truth.


## 2. Modules

```
FileLock  <---implements---  FileMutationQueue  <--extends--  FileTools
                                                                ^
                                                         FileToolsProofs
AgentLoop  <-- AgentLoopProofs
AgentSession  <-- AgentSessionProofs
SessionTree  <--  SessionManager  <--+
     ^                               |
     +-----------  Compaction  <-----+-- SessionCompaction  <-- SessionProofs
AgentHarness <-- AgentHarnessProofs
AuthStorage  <-- AuthStorageProofs
Supervisor   <-- SupervisorProofs
SettingsManager <-- SettingsManagerProofs
MCFileTools, MCSessionManager, MCSessionCompaction, MCAuthStorage, MCSupervisor,
MCAgentHarness, MCSettingsManager: instances for TLC
```

**FileLock** is the promise of the queue: a lock per key; a request waits for the
operations of its key that asked before it.

**FileMutationQueue** is the code that keeps the promise. A call of
`withFileMutationQueue` is an operation. `Call` chains its registration behind
the others (the registration promise is the order `rank`), `Resolve` is
`realpath` and its fallback to the given path for a missing file, `ResolveFails`
another error of it, `Register` the code between the two awaits (it reads the map
and puts itself there), `Start` the return of `await currentQueue`, `Leave` the
`finally` block with its conditional removal. Files are created by the functions
and removed by anything else (`Remove`), so that keys change under the queue.

**FileTools** puts the bodies of `write` and `edit` inside: each await is a step,
each look at the abort signal a guard. The content of a file is the set of
operations whose change it holds; a write in flight has truncated it. `Abort`
sets the signal of the calls in progress, `RemoveFile` removes a file between
any two steps, also under a tool that works on it: what is then written goes to a
file that is no longer there. Every call to the file system may be rejected:
`MkdirFails` and `AccessFails`, `EditRejected` also for a write that cannot open its
file, and `WriteFails` for one that fails with the file truncated and a part of
the new content in it (`spoiled` remembers which did).

**AgentLoop** is the run of one agent at the grain of its shared reads: a step
goes from one look at the queues, the signal or the transcript to the next.
`PromptCall`, `ContinueSteering`, `ContinueFollowUp` and `ContinueTranscript` are
the public entry points; `InitialPoll`, `Turn`, `Request`, `AnswerArrives`,
`AnswerFails`, `TurnEnd`, `ContinueAnswer`, `Poll` and `FollowUpPoll` are
`runLoop`; `StartTool` to `BatchEnd` are `executeToolCalls`, sequential or
parallel, and `FailTruncated` the batch of an answer that was cut off. `Fail`
throws from a hook or a listener at any point of a run: the messages being
emitted are in the transcript up to the one whose listener threw, and in a
parallel batch the remaining calls become `strays` that go on in the next run, as
`Promise.all` rejects at once. `HandleFailure` is `handleRunFailure`. The context
the loop keeps and the transcript the agent keeps are two variables, filled at
different moments, as in the code. What is local to `runLoop` or to a batch is
cleared where it goes out of scope (`LeaveLoop`, `LeaveBatch`).

**AgentSession** is `AgentSession` around a run of coarser grain: one tool call
per answer, queues drained one message at a time (the default). Calls of
`prompt()` are processes, numbered as they are made: `Prompt` is the part up to the
first await, `Preflight` the checks that follow when no compaction is due, and
`CompactFirst` and `CompactedFirst` these checks around a compaction of a session
past its threshold, or one whose last answer overflowed; `Launch` sets the active flag and calls
the agent, `Settle` is the `finally` block and `Settled` the notification that
follows it. `EmitTaken` and `Save` split the emission of a message where the
listeners are awaited: the transcript has it first, the session afterwards.
`Retry`, `Recover`, `Trim`, `Conclude`, `BackoffEnds`, `RetryCancelled` and
`CompactionEnds` are `_handlePostAgentRun` with `_prepareRetry`, `_checkCompaction`
and `_runAutoCompaction`. Whether a session is past its threshold depends on sizes
that the model does not have, so it may always be; a compaction here only rebuilds
the transcript from the session, and what it cuts is Compaction's subject.

**SessionTree** has the entries and the pure functions of the session file:
the path to an entry, the context made from a path, the label index. They are
recursive functions and sequences without some elements (`Without`), so that they
can be proved about.

**SessionManager** is the class, persisting. An append changes memory first and
then the file (`Persist`), which exists from the first answer on. A failed write
(`PersistFails`, the failing branches of `Fork` and `ForkFrom`) leaves any prefix
of what it was to add, the last line possibly torn (`Partial`), or whole but for its
newline (`Unended`; the loader takes it as an entry). The next line is glued to
either (`AppendLine`) and both are skipped on reading (`Parsed`); `Ended` is the
lines before such a rest. Restarting is `SetSessionFile` or `NewSession`: both replace
everything in memory.

**Compaction** is `prepareCompaction`, `findCutPoint` and the merge in
`compact()`. A summary is represented by the set of entries it was made from, so
that losing a part of the conversation can be told from summarizing it.

**SessionCompaction** composes the two: a preparation is made, the summary
awaited, and the entry appended, while shell results and metadata are appended
(`Say`) and the user navigates (`Navigate`), also to another branch. Three history
variables, read by the properties alone, hold the end of the path a preparation was
made from (`tip`, the last of `pathEntries` in `compact()`), the compactions that
arrived where that entry is not on the path (`strays`), and those whose summary took
nothing over from the one before (`gaps`, the case of finding 1 in section 5).

**AgentHarness** is one session, its queues and the run of each call of
`prompt()`. `StartPrompt` to `StartLoop` are `prompt()` and `executeTurn` up to
the loop; the loop is reduced to the order of its events: messages to record, a
reply of the provider, the end of a turn, a save point, a snapshot for the next
turn, the two polls. Each message is appended by `AppendMessage` and `Appended`,
two steps with an await between them: the append takes the leaf first
(`session.ts:203-211`), so that appends of two writers that overlap fork the
tree. `FlushNext`, `FlushAppended` and `FlushFails` are
`flushPendingSessionWrites`, called from three places (`back` says which).
`Throw` is the `catch` of the run with `emitRunFailure`, `Finish` the `finally`
blocks. What callers, listeners and hooks may do at any await is in `Steer`,
`FollowUp`, `NextTurn`, `QueueWrite`, `BeginWrite`, `BeginStructural` and
`Abort`. The constant `Detached` says which calls may be made while an earlier
one has not returned: none of them is the discipline of a caller that awaits each
call; with `"prompt"`, a prompt may follow as soon as the phase is idle. Without
it, a listener of `settled` may still prompt from inside the run that settled:
`StartPrompt` asks that every other run has settled, and a run takes its steps
only while no other one is `Active` (`MayStep`). Among three nested prompts the
outer one may go on before the inner one, which is more than the code does.

**AuthStorage** is the credentials file, the lock directory with its age, and an
`AuthStorage` in each running instance. A synchronous section is `LockSync`
followed by `Reload` or `Persist`; the process does nothing else meanwhile, and
no time passes (`Tick`). A refresh is `GetApiKey`, `LockAsync`, the server
(`ServerRotates`, `ServerRefuses`, `AnswerLost`), `SaveRefreshed` and `Release`;
its lock is touched by `UpdateLock`, which also finds out that the lock is lost.
A credential is its login (`grant`) and how often it was refreshed (`n`), so that
a token that was used already can be told from the one the server accepts. Each
section begins with a look at the file (`Ensured`, which is `ensureFileExists`): if
it is gone, the instance is `creating`, and `CreateFile` writes an empty one, whatever
is there by then. `undone` names the providers whose credential a write has lost
since its login: a creation or a crash inside a write (`CrashInWrite`).

**SettingsManager** is the two settings files with their locks, and a
`SettingsManager` in each process: `Set` is any setter with `save` or
`saveProjectSettings`, `Reload`, `Trust` and `Distrust` the calls of those names.
Writes and reloads wait for the same chain of promises, which is one queue
(`StartWrite`, `RefuseWrite`, `StartReload`). What a turn of it does to the files is
a sequence of accesses (`turn`), each one `withLock`: `existsSync`, the creation
of an empty file (`MissFile`, `Touch`), the lock, and under the lock one step that
reads, or reads, merges and writes. `Edit` and `Break` are an editor that knows
no lock. The value of a setting is the number of the call that set it, so that
an old value can be told from a new one and its author is known (`by`); `due` is
what a process set and nobody has replaced since. A process that lives does not
hold a lock for the ten seconds after which it is stale.

**Supervisor** is the orchestrator: each action runs from one I/O event to the
next await of I/O, and what a settled promise wakes comes first (`Calm`). A call
of `cleanupAcquiredResources` is `CleanUp`, `Disconnected` or `DisconnectFails`,
and `DisposeReturns`, for each stopper and for `failSpawn`. A record is its status
and whether Radius knows it. Requests to the process are pending in `spawning`
(the state asked for by a spawn) and `rpc` (a command and the state asked for
after it). `BeatNotFound`, `MachineNotFound` and `Reregistered` are heartbeats
that end in a registration, one at a time for each instance.

The sizes in tokens are small numbers; texts, models, tools, settings, file lists
and timestamps are left out throughout. Ids are numbers given in order.


## 3. Runs

| Run | Bounds | States | What it asks |
|---|---|---|---|
| `file_tools` | two edits (one by a link) and a write of one file; an edit of a file that comes and goes and whose `realpath` may throw; aborts at any moment; any call to the file system fails, at most 2 of them writes that have truncated their file | 886,664 | the lock of FileLock, no stale map entry, no edit from stale content, no two writes in flight, a landed edit lost only to a later write of the whole file or a later failed one, every call ends |
| `agent_loop` | 2 runs, 2 queued messages, 2 calls per answer, 1 answer before the model must stop, 1 continuation, 1 throw; both modes of execution; one message or all per poll | 669,228 | delivery once and in order; results with their calls; context equals transcript; nothing pending afterwards; runs end; steering delivered |
| `session_manager` | 2 sessions, 3 entries, 2 failed writes | 704,708 | tree, reopening, durability, forks |
| `session_compaction` | 6 entries, budget 3, results of size 2, 2 navigations | 1,727,726 | partition by the cut, calls with results, nothing forgotten by one compaction or by several, the budget |
| `compaction_drops_summary` | 8 entries, budget 2 | violated | finding 1 |
| `agent_session` | 2 prompts, in a new session or in one saved with an overflow; one of a queued message, a shell command or an abort; 3 answers that call or fail; 1 retry | 1,402,165 | idleness, order, display, nothing lost or stranded, bounded retries, settling |
| `agent_session_overlap` | as above, 2 answers, prompts may overlap | violated | finding 2 |
| `auth_storage` | 2 instances that run with one login in the file, or start without a file, 2 providers, 1 login more, 1 use of a token per login, 1 crash; a unit of time is 5 s: ages 10 s and 30 s, a touch every 15 s, a refresh of at most 15 s | 7,973,759 | one refresh per token, logins kept, rotations saved |
| `settings_manager` | 2 processes, 2 fields, 2 settings set, 2 reloads or changes of trust, 1 crash or broken file | 3,387,653 | settings saved, marks, no field of another's, files left alone |
| `supervisor` | 1 instance, 2 stoppers, 2 heartbeats not found, 1 crash; with and without Radius | 152,819 | pending requests, reachable processes, records |
| `agent_harness` | 1 prompt, 1 reply that goes on, 1 queued message, 1 write, 1 compaction or navigation, 1 abort, 2 failures | 941,942 | writes and messages once, phase, what the provider is asked, prompts return |
| `harness_write_dropped` | 2 prompts that may overlap, 2 writes | violated | finding 3 |

Why the bounds are enough for what the runs ask. *Tools and queue:* a stale map
entry needs an operation that leaves, one chained behind it and a third that
comes later, on one key; a lost edit needs two edits, and the one excuse the
property allows needs a write; the fourth call has a file that is created,
removed or unreadable in between, and may fail its registration. *Loop:* two runs
let state of one leak into the next, two calls let results be displaced and a
batch be half prepared, two messages can overtake each other, and one throw
leaves the other call executing in the next run. *Sessions:* a fork needs a
source and a target, an entry with a parent that is left out, and something
behind it, all within three entries; two failed writes let one hit the remains
of the other. *Compaction:* the second compaction, a split turn and a kept part
fit in six entries; the first navigation makes a branch that is compacted, the
second, during the summary, leaves it for another. A gap needs eight entries and
what it loses shows at ten, which is beyond this run: the properties were simulated
with 18 entries, 5 navigations and budgets of 2 to 4, and are proved for all.
*Agent session:* with one event, three failing answers and a second prompt, each
of retry, recovery, compaction and continuation occurs after each other, and the
session that begins with an overflow needs a recovery before its first run. *Credentials:* a race over the lock needs two instances, a lost update two
providers; the second login replaces or joins the first, and without a file one
instance creates it around the other's login. With `MaxHold = 3` a
refresh outlasts the synchronous age (2) and meets its own touch (3), the two
moments at which the lock changes hands; the properties that hold are stated for
refreshes that do not outlast it, in the same run. *Settings:* two processes
race to create a file, or one meets what the other has just written; two settings
make two writes of one process, the first of which clears the marks of the second;
two calls let trust go and come back, or follow a reload. *Supervisor:* instances share
nothing but the file and the moment of a crash; two stoppers, `failSpawn` and the
exit handler can all be cleaning up one of them. *Harness:* every phase meets
every call, and the second failure hits the reporting of the first.

Deadlock is not checked: every run has bounds at which the user, the model, the
server and the disk stop acting, and the operations end. That nothing waits for
ever is what the liveness properties say.

In `agent_session` prompts do not overlap (`Overlap = FALSE`), and in
`agent_harness` nothing is called before an earlier call has returned (`Detached
= {}`), except by listeners and hooks, which may. That is the discipline of the
interactive mode, whose input loop awaits each prompt before it reads the next;
the rpc mode does not keep it, which is finding 2, and the harness does not ask
for it, which is finding 3.

Symmetry is used for the instances and providers of AuthStorage, the processes
and fields of SettingsManager and the stoppers of Supervisor: nothing but equality is asked of them, and these runs have no
liveness property.

### Fairness

Fairness is weak, on what the process does by itself: promise reactions run,
`realpath` and file operations answer, the model answers or fails, tools settle,
timers fire, extensions return. Nobody is obliged to call, to queue, to abort or
to throw. These are the assumptions under which the code awaits without a
timeout of its own. A model or a tool that never answers makes each liveness
property false, as it makes the program hang until the user aborts.

- `EveryCallEnds`: every call of the queue ends, whatever fails or is aborted, and
  a failed registration blocks nobody. Fairness is on the queue's and the tools'
  own steps, as one disjunction: the event loop runs what can run.
- `RunEnds`: every run of the agent ends, with a throw anywhere.
- `SteeringDelivered`: a message the loop sees in the steering queue is delivered
  unless the run is aborted or fails.
- `SessionSettles`: an active session becomes idle, and nobody is left waiting.
  Fairness is on the steps of the runs and of all calls together, as one disjunction.
- `PromptsReturn`: every prompt of the harness returns, with listeners, hooks and
  appends that fail. Listeners must not wait for the run they are called from
  (`agent/docs/agent-harness.md:18` warns of that deadlock).

AuthStorage, SettingsManager and Supervisor have no liveness property: a lock attempt gives up
after its retries, and requests to a process have no timeout, so that nothing
need happen there. `PendingHasProcess` is the safety half: who waits, waits for a
process that runs.

### Properties that do not depend on one run

`LockSpec` is a refinement (theorem `ImplementsLock`); `CompactionForgetsNothing`,
`ForkKeepsConversation`, `SavedIsDurable` and `KeptWithinBudget` compare a state
with the one before. Some properties join two named halves: `QueuesDeliver`
(`DeliveredOnce`, `DeliveredInOrder`), `ResultsPairCalls` (`ResultsFollowCalls`,
`NoAnswerWithoutResults`), `SavedIsDurable` (`FilesOnlyGrow`, `AppendDurable`),
`SessionReopens` (`TreeWellFormed`, `ReopenGivesMemory`), `CutIsClean`
(`KeptIsNotSummarized`, `ResultsKeepTheirCalls`), `SessionInOrder`
(`ResultsFollowCalls`, `SessionIsTranscript`), `QueueIsKept` (`QueueIsShown`,
`NothingQueuedIsLost`) and `CompactionForgetsNothing` (`HistoryCovered`,
`ContextIsSummarized`); `RefreshedOnce` is
`OneRefreshPerToken` under its condition. Each property has a mutant: a plausible
mistake in the code, written beside the definition it changes (comments
beginning with "Mutant:"), under which the run finds the property violated.


## 4. Proofs

Proved for all values of the constants that satisfy the named assumptions
(`OpsAssumption`, `PathAssumption`, `EditsAssumption`, `BoundsAssumption`,
`InstanceAssumption`, `TimesAssumption`, `FileAssumption`, `SpawnerAssumption`,
`PromptsAssumption`, `NamesAssumption`, `ContentsAssumption`, `HarnessAssumption`,
`EntriesAssumption`),
which the runs evaluate. They say that the bounds are numbers and that names of
different things differ. Every invariant named here was checked by TLC on the
configuration of its run before it was proved.

**FileToolsProofs, the queue.** `TypeCorrect`, `Exclusive`, `RunInCallOrder`,
`NoStaleEntry` and `ImplementsLock`. Mutual exclusion is not inductive: it
depends on the promise each operation waits for, which depends on the map, which
depends on registrations in call order. The invariant `IInv` says: positions are
distinct (`RanksOK`); the registering operations come after all the live ones and
only the first of them has a key (`RegistrationOK`); the map holds the last live
operation of each key (`MapOK`); of two live operations of one key, the later one
waits for a live operation between them or the earlier one itself (`ChainOK`);
who runs waits for nobody (`RunningOK`). From the last two, no live operation of
the key comes before the one that runs. The refinement maps an operation to
`waiting`, `inside` or `left` and the operations ahead of it to the live ones of
its key with a smaller rank; `RegisterRequests`, `StartEnters` and `LeaveExits`
are its steps and everything else stutters.

**FileToolsProofs, the tools.** `WritesExclude`, `EditsAreCurrent` and `EditsAreKept`, while
files are removed and created at any moment and every call to the file system may
fail, any number of times. They assume `OneName` of each
operation: its file is there at the start and stays, or the operation names it as
`realpath` does. Without that, a file that comes and goes has two keys and the
theorems are false (section 5). The proof composes: every step of a tool is a step of
the queue or leaves its variables alone (`ToolStepsOfQueue`), so the queue's
`IInv` holds; under the assumption each file has one key (`KeysOK`), and mutual
exclusion per key becomes exclusion per file (`OneRunsPerFile`). On top of it:
what ended came after everything called before it under its key (`DoneOK`); a
tool's phase fits its operation's (`PhaseOK`); a write in flight has truncated the
file (`TruncatedOK`); a file that is gone holds nothing (`GoneOK`); and, the heart
of it, a landed edit is in the file, in what the edit in flight has seen, or older
than a write of the whole file or one that failed (`LandedOK`; that what landed is
older than what runs is `LandedBefore`). `LandedEditsKept` alone is not inductive, as it says
nothing of what an edit in flight has seen.

**SessionProofs.** `SavedFromFirstAnswer`: while no write fails, a session
that is not saved has neither an answer in memory nor a file, so that the
exclusive creation in `_persist` never meets an existing file. With the types of
`faults`, `session` and `flushed` the property is inductive: opening always leaves
the session saved, and a new name has no file. It needs nothing about paths.

`WhatIsSavedStays` (`SavedIsDurable`), with any number of failed writes: a step
writes a file only when it has no line yet, adds a line, or cuts one short
(`Written`); of the lines that end with a newline neither takes one away
(`EndedWrites`), and a line more is an entry more at the end of what the file gives,
or none (`ParsedWrites`, `LoadedWrites`). `SessionsReopen` (`SessionReopens`), while no
write has failed: in `TreeInv`, the entries of every session are in the order of
their ids with each parent among them (`Tree`), every file that exists is one
header and the entries it gives (`Whole`), the file of a saved session has
exactly the entries in memory, and the label index is the one those entries
build. A fork is the hard step: the path to an entry ascends (`PathAscends`), so
do its entries without the labels, chained anew (`RechainedIs`), and the labels,
which get new ids, follow (`ForkIs`).

`ForksContinue` (`ForkKeepsConversation`), whatever writes failed: the model goes on
from a fork as from the entry it was forked at. A fork is a chain, so the path to
its end is the whole list (`ChainPath`). The context of entries whose ids ascend is
their messages in that order, or the last compaction and then the others that are
kept (`ContextIs`), so it depends on the set of messages alone: two ascending lists
with the same elements are equal (`SameOrder`, `SameContext`). A fork chains its
entries anew, so it is their ids that are compared, which stay the same. The label
entries written behind them rebuild the labels of the entries taken along and no
others (`ForkLabels`).

`CutsAreClean` (`CutIsClean`), `KeptFits` (`KeptWithinBudget`) and `NothingForgotten`
(`CompactionForgetsNothing`) are about SessionCompaction, for entries, budgets,
navigations and failed writes in any number. None of the three is inductive: what
is cut off today depends on what earlier compactions kept, on paths that the user has
left since and may come back to. So `CompactionInv` says something of every entry
of the tree, from the moment it is appended (`Sound`), about the path to its parent,
which never changes (`PathStays`): a tool result follows the last message there, its
call or another result; a compaction that is no stray keeps from an entry of that
path on, and from there a cut point comes before any other message; a compaction
without strays and gaps on its path has in its summary all that was said before its
first kept entry. The pending preparation is that of the path to `tip`, which has
not changed either. `PrepareIs` and `CutsAre` say what `PrepareCompaction` gives on
any path: where the part to cut begins, the first kept entry, the cut point it was
found from, what is summarized between, and that the rest is below the budget unless
a message comes before every cut point. The invariant excludes that last case
(`CutPointComesFirst`), since the part to cut begins where the previous compaction
began to keep, which gives `KeptFits`. It also puts the call of every kept result into
the kept part (`KeptWithCalls`), and beside it in the context (`JustBefore`), which
gives `CutsAreClean`. When the summary arrives, the path has only grown
(`ArrivalIs`), so the new compaction is sound again, and the same argument shows that
it takes nothing from the context that is not in its summary
(`FinishForgetsNothing`).

These rest on what four recursive functions compute: `Without`, `PathTo`, `LabelsOf`
and the sum in `TokensFrom`. No induction theorem of the library can be used for
them, since each takes an operator. Instead a claim is proved by taking the least
number at which it fails (`Least`, from the well-foundedness of `<`), and the
function that a recursive definition stands for is shown to exist once, in
`Recursion`. Sequences are filtered with `Without`, not with `SelectSeq`, of which
the prover knows nothing.

**AgentSessionProofs.** Five arguments about a session in which no `prompt()` is
called during the preflight of another (`~Overlap`). The assumption is needed:
without it TLC finds `IdleMeansNoRun` violated (`agent_session_overlap`), and
everything below rests on it. `IdleWithoutRun`: an idle session has no run, and no
retry, compaction or continuation after one. The compaction that `prompt()` awaits
before a run is left out, as the session is idle then (section 5). The invariant: calls take turns in preparing and in working, one
that works keeps the session active and one in preflight is alone (`TurnsOK`);
the run belongs to the call that awaits it (`OwnerOK`); listeners run only where a
message is emitted (`EmittingOK`).

`NothingLeftWaiting`: an idle session has nothing in its queues that was queued
while it worked. The session settles in two ways that could strand a message:
`_handlePostAgentRun` returns early when no answer was noted, and
`agent.continue()` throws on an empty transcript. So the invariant `QInv` adds to
`IInv` that a run which ends has noted an answer, up to the moment the session
looks at it (`NotedOK`); that transcript and session are not empty once the first
message of a run is emitted (`BegunOK`); and that neither begins with an answer
(`TextOK`), so that taking a failed one out, for a retry or a recovery, leaves
what it answered.

`QueueKept` (`QueueIsKept`): what the user is shown as queued is what is queued,
and no queued message is lost. The display is the list of what waits, except
between the loop's taking a message and its emission, when it is the message
taken and the ones behind it (`DisplayOK`); for that the numbers in the queues, in
the message taken and in the displays are distinct (`NumbersOK`), and the taken
message is one, emitted before anything else is taken (`TakenOK`).

`RetriesEnd` (`RetriesAreBounded`): however often answers fail or overflow, the
session does not ask again for ever. The property counts the failed answers the
session *ends* with, which is not what changes from step to step: `BoundInv` has
one bound for each phase, where the model will be asked (`Asking`), where its
answer is noted (`Noted`) and where a retry is cancelled, in terms of
`retryAttempt` and of whether an overflow has been recovered from.

`SentInOrder` (`SessionInOrder`): every result follows its call in the transcript,
and the session holds the transcript but for failed answers, in order. The two
sequences drop failed answers at different moments, so they are compared by
places: the set of pairs of a kept message and how many kept ones are before it
(`Same`). `CallsOK` says that both end with the call whose result is emitted.

**AgentLoopProofs.** `ModelSeesTranscript`, `NothingStaysPending` and
`CallsKeepTheirResults`, for any numbers of runs, messages, calls, continuations
and failures, both modes of execution and an abort at any moment. The context
equals the transcript whenever the model is asked because at every other moment
they differ by something known (`CopiesOK`): prompts that are not emitted yet, or
the first results of the batch, of which the invariant counts how many are
emitted (`Emitted`). For that count, a batch advances as a prefix: before the call
at hand all have ended or are prepared, after it all are to do (`BatchOK`). The
set of pending calls is the image of the calls under way (`PendingOK`). Calls and
results stay together because the batch executes the calls of the last message of
the context (`BatchAnswer`), only an abort ends it before all its calls have
started (`StartedOK`), and a run that is not aborted has a result for each
earlier call when it asks again (`CompleteOK`): the one answer that may follow a
call without a result is that of an aborted request.

`QueuesAreDelivered` (`QueuesDeliver`), in both modes of draining: what `steer` and
`followUp` queued is delivered once, in order, and no message is lost unless a run
fails. `DeliverInv` follows each number through the four sequences it passes, the
two queues, the messages taken and the transcript: the number of its places, over
all of them, is one (at most one after a failure), each has a number that was
given, each queue has its own role, and transcript, taken messages and queue
together are in order. `SplitAt` and `DrainSplits` say that draining, one message
or all, cuts a queue in two without reordering it.

**AuthStorageProofs.** `RefreshesExclude` and `LoginsAreKept`, for any instances,
providers, numbers of logins, uses and crashes, and any ages with `SyncStale <=
AsyncStale`, under the condition the properties state: no refresh has outlasted
`SyncStale`. Exclusion rests on ages: the lock of a refresh was touched no longer
ago than the refresh lasts, so nobody may call it stale, and its holder is its
owner and never finds it compromised (`HoldOK`). Who holds it has in hand what
the file holds, or the file has been emptied by a creation, the one write that takes
no lock; in either case what it has read keeps the logins but for those undone
(`GotOK`, `Keeps`), and each write is that with one provider changed.
`RotationsAreSaved` (`RotationSaved`) needs more, in `RInv`, of the file and of what
its holder has read, which may become the file again (`Live`): every grant is
in one place, either with the login that has yet to save it or under one provider
of a content (`GrantsOK`), so that no other process can be rotating it; the token of
each grant is the one the server accepts (`RotationsOK`); and an answer that is in
hand is the server's last for its grant (`AnsweredOK`).

**SupervisorProofs.** `NobodyWaitsInVain` and `ProcessesStayReachable`, for any
instances, stoppers and crashes. The second is not inductive: that a clean-up will
dispose of the process it read before its await needs that a process its instance
still has was never killed (`NotKilled`), that a clean-up that awaits the
disconnection of an instance which has a process holds it (`CleanersHold`), that a spawn which has not begun left nothing
(`Unspawned`), that `failSpawn` cleans up when the spawn is over
(`SpawnerCleansLast`), and that the exit handler works for a process that has
exited (`ExitsAreExits`). `RecordsStayTrue` (`RecordsMatchLive`), for an orchestrator
without Radius, as the property states: the invariant `PlainInv` says that then
nothing is announced, no clean-up waits for a disconnection (`NothingAnnounced`),
a supervisor that is down does nothing (`DownIsIdle`), and the stored record of a
live instance is the one in memory while that of any other is settled
(`RecordsAgree`).

**SettingsManagerProofs.** `WhatIsSetIsSaved`, `MarksHaveTheirWrites`,
`WritesOwnValues` and `LeavesOthersAlone`, for any processes, settings, faults and
contents. A write is queued long before it runs, with a snapshot of the settings
and of the marks; the invariant `SInv` follows each value due from the setter
through the last snapshot that has its field, in the queue or in the turn being
run, to the file (`DueOK`), who set it (`OwnOK`), and which marks have a write
(`MarksOK`). A load replaces the copy in memory: it runs only when the marks of its
scope are gone (`TurnOK`).

**AgentHarnessProofs.** `PhaseFollowsRuns` (`PhaseIsTurn`) if no prompt is called
before the one before it has returned (`"prompt" \notin Detached`): active runs are
one (`AloneOK`), a run that fails after it settled does nothing but settle again,
and every list of messages in hand belongs to a phase that records it (`RunOK`).
`WritesAreKept`, `RequestsSeeTheSession` and `MessagesAreKept` if every call is
awaited (`Detached = {}`); without that, finding 3 below shows the first one
false. At most one append is in flight, and its parent is the leaf (`FlyOK`); a
write accepted is in flight, pending or appended, once (`WritesOK`); a message
is in one queue, in a run's hands, in the session, or given up (`MessagesOK`); and
the context of a run is the branch, with the messages about to be recorded at the
end (`ContextOK`). An earlier form of the model failed here: two runs that had
settled could both take a step, which no order of awaited calls gives; `MayStep`
now says who goes on.

**Model-checked only.** All liveness (`EveryCallEnds`, `RunEnds`, `SteeringDelivered`,
`SessionSettles`, `PromptsReturn`): ENABLED and fairness are out of the prover's
reach. Every safety property of the passing runs is stated by a theorem, some under
an assumption on a constant that is given above (`~Overlap`, `Detached`).

## 5. Where the code and its documents disagree

Three disagreements are shown by a run that finds the documented property
violated.

1. **A second compaction can drop the first summary** (`HistoryCovered`). When the
   cut splits a turn that begins where the part kept by the previous compaction
   begins, there is no history to summarize; `compact()` then uses a fixed text
   for it (`compaction.ts:757-772`) and the previous summary goes nowhere. The loss
   may show only later: as long as the first compaction entry itself is in the part
   that is kept, its summary is shown, as a message, and the compaction after next,
   which cuts behind it, passes on the second summary only.
2. **Overlapping prompts** (`IdleMeansNoRun`). `prompt()` of the session tests the
   active flag, awaits and sets it later; the second call is refused by the agent,
   and its `finally` block marks the session idle during the first one's run. The
   property is about the run and what follows it; for what precedes one see below.
3. **A pending write dropped by the harness** (`WritesKept`). The phase is idle at
   `agent_end`, before `prompt()` returns, so that the next prompt may start; the
   first one's last flush then overlaps with the second one's appends and flush.
   Two flushes shift two writes after appending one of them twice, and appends
   that overlap take the same leaf for their parent.

`CompactionForgetsNothing` leaves out a path on which a summary took nothing over
(1, `gaps`), and with `CutIsClean`, as far as that is about calls and their results,
and `KeptWithinBudget`, a path on which a summary arrived that was made from another
branch (`strays`); `ForkKeepsConversation` leaves out a first kept entry that is a
label (both below). That a compaction summarizes all it takes from the context
(`ContextIsSummarized`) is stated without these exceptions, for a summary that arrives
on the path it was made from. Earlier forms of the two properties left out less, and
held in the run: the invariant their proofs need is false for them, and with more
entries than the run has TLC finds the counterexamples, which are the second half of
1 and, for the budget, the navigation below.

Other places where the code does less than a comment or a test suggests, met
while modelling and not the subject of a run:

- A token can be refreshed twice (against `auth-storage.ts:423-424`). A refresh
  declares its lock stale at 30 s and touches it every 15 s, while every
  synchronous section uses the default of 10 s (`auth-storage.ts:88`, `:151`).
  When a refresh takes longer than that, and its request may take 30 s, any reload
  or login takes its lock away; a second instance then uses the same refresh
  token. The same cause loses logins and rotated tokens. It is why `RefreshedOnce`,
  `LoginKept` and `RotationSaved` are stated for refreshes that are quicker: with
  `OneRefreshPerToken` in the place of `RefreshedOnce`, the run `auth_storage` finds it.
- A login can be undone by another process that starts: `ensureFileExists` looks for
  the file and then writes `{}` without the lock (`auth-storage.ts:74-79`, called at
  `:110` and `:131` before it is taken). When two processes find no file, and one creates it, logs in and saves before the other
  writes, the credential is gone. `LoginKept` sets these logins apart (`undone`);
  without that the run `auth_storage` finds the loss.
- Settings: a write that succeeds clears the marks of the fields set after it was
  queued too (`settings-manager.ts:555-564`); if their own write then fails, its
  error is recorded, but no later write takes them along, as one does after a
  failed write otherwise. A setter called while `reload()` waits for the queue is
  saved, but the reload, which comes first, takes its value back in memory
  (`:490-495`). The files are not replaced atomically: a crash inside
  `writeFileSync` leaves an empty file or one that does not parse.
- Navigating during a compaction: the entry is appended at whatever the leaf is
  when the summary arrives (`agent-session.ts:1820`); on another branch the first
  kept entry may not be on its path, and then nothing is kept, against
  `coding-agent/docs/compaction.md:45`. Or it is metadata that both branches share,
  with a message after it on the one and a tool result on the other: the context
  then begins with the summary and the result, without its call, against
  `compaction.ts:321`. With `strays` left out of `ResultsKeepTheirCalls`, the run
  `session_compaction` finds it. The next compaction of such a path begins to cut at
  that result. If the budget is reached at results with no cut point behind them,
  the first cut point of all is taken (`compaction.ts:391`), and more is kept than
  the budget allows.
- A fork can lose kept messages: the first kept entry of a compaction may be a
  label, which a fork leaves out (`session-manager.ts:1346-1350`).
- A session counts as idle while it compacts before a run, against the comment on
  `isIdle` (`agent-session.ts:842`): `prompt()` awaits the compaction at `:1160`, and
  the flag is set at `:1024`. Then `waitForIdle()` returns at once, and a second
  `prompt()` is not refused. `IdleMeansNoRun` leaves out this case (`CompactingFirst`);
  with it, `agent_session` finds a violation in two steps.
- A cancelled retry is asked again: with a message queued, the session goes on
  from the transcript the failed answer was taken from (`agent-session.ts:1064`),
  although `coding-agent/docs/rpc.md:415` says it stops retrying.
- The key of a file that does not exist yet is the path as given, so that two
  names of it behind a symbolic link have two keys until it is created
  (`file-mutation-queue.ts:16-26`). The queue's properties are per key.
- The tools write in place, and `fs.writeFile` truncates before it writes
  (`edit.ts:347`, `write.ts:218`). When it is rejected after that (no space left, an
  I/O error), what the file held is gone, edits that had landed included, the call
  fails and the queue goes on with the next. `LandedEditsKept` names that case
  (`spoiled`).
- When a listener or hook throws in a parallel batch, the other tools' events come
  after `agent_end` (`agent-loop.ts:576-578`, against the comment at
  `agent.ts:524-525`).
- The entry appended after a torn line is lost with it (`session-manager.ts:971`).
  A write cut just before its newline is worse: its line loads as an entry (`:527`),
  the session goes on from it, the next entry is glued to it, and at the next load
  both are gone and what follows hangs below a parent that is not in the file.
  `AppendDurable` leaves out the entry after a line without a newline, and
  `FilesOnlyGrow` the entry of such a line (`Kept`).
- Because the cut moves back over metadata, a cut at the start of a turn can be
  reported as a split turn (`compaction.ts:414-435`).
- After two compactions the first summary can be kept as a message besides the
  second (`session-manager.ts:437-448`).
- The loop does not drain its queues before `agent_end` when an answer fails or
  is aborted (comment at `agent-session.ts:1062-1063`); the session goes on for
  them afterwards, which `NothingIsStranded` checks.
- `clearQueue()` between the loop's poll and the message's emission gives a
  message back to the editor that is delivered as well.
- If the trailing tool results exceed the budget, the cut falls on the first cut
  point and there is nothing to compact (`compaction.ts:398-412`).
- Harness: what is written during `compact` or `navigateTree` is flushed only by
  the next prompt (`agent-harness.ts:727-729`, `:824-826`). A `before_agent_start`
  hook that throws loses the messages for the next turn (`:548`), which a listener
  that throws before it does not (`:543`). A listener of `agent_end` or `settled`
  that throws records a failed turn while the phase is idle. `abort()` before the
  controller exists does not stop the run (`:975` against `:562`). A reply cut
  off by the token limit is continued without a save point's snapshot
  (`agent-loop.ts:247-258` against `agent/docs/agent-harness.md:148-152`). With
  prompts that overlap, the first one's clean-up also takes away the second one's
  controller and run promise, and its `catch` makes the phase idle under it.
- Orchestrator with Radius: an instance that is stopped or exits during
  `registerPi` is put back online, with a heartbeat (`supervisor.ts:291-293`); a
  re-registration stores the record it looked up before, also over a removed one
  (`radius.ts:439-440`); `recoverAfterRestart` saves what it loaded before its
  awaits over instances spawned meanwhile (`supervisor.ts:246-254`); when
  `disconnectPi` throws in a clean-up the process goes on running and is
  forgotten (`:161`); the exit handler's update after its await stores the record
  of an instance that was stopped meanwhile (`:128`).
- Orchestrator in general: a record `stopping` survives a crash (`:248`); `dispose`
  waits for ever for a child that ignores SIGTERM (`rpc-process.ts:193-195`), and
  so does a spawn for a process that never answers; `shutdown` gives up at the
  first stop that throws (`:335-339`).


## 6. What is not modelled

- *Agent loop:* partial messages of a stream, `shouldStopAfterTurn`, `reset()`
  during a run, the stream wrappers `agentLoop` and `agentLoopContinue`. Hooks
  that replace the context (`prepareNextTurn`) are in AgentHarness.
- *Agent session:* custom and next-turn messages, changes of model, tools and thinking
  level, extension binding, statistics and export. Two messages with one text, which the
  display cannot tell apart. Manual compaction and tree navigation are in
  SessionCompaction, with an idle agent.
- *Session manager:* migration of old versions, listing, in-memory sessions.
- *Session runtime:* replacing the session, its hooks and teardown; fork and
  switch are the steps of SessionManager that open and fork a file.
- *Compaction:* token estimation, the requests to the model, file lists.
- *Tools:* what a replacement computes, diffs, previews, line endings.
- *Agent harness:* hooks that change what they are shown, tools and how a turn
  executes them, the contents of compactions and summaries. A run's context is
  compared with the session by messages; their conversion for the provider is not
  modelled.
- *Credentials:* runtime overrides, environment variables, the in-memory backend.
- *Orchestrator:* event streams and interface requests, the IPC server, the
  machine's own registration and its end.
- *Settings manager:* migration of old formats, temporary overrides, the merged
  view of the two files, the in-memory backend, draining of errors.
- *RPC client and event stream:* maps of waiting callers; planned. `stop()` of the
  client clears the requests that wait when it gives up on a process
  (`rpc-client.ts:144`), and two calls of `stop()` are not kept apart.
- *The rest of the inventory.* The terminal UI, the editor, the package manager,
  resource loading, model lists (generated tables make up a large part of the
  repository's lines), export and the workers are layout, tables and I/O, with
  little state that several actors share.


## 7. Plan

Done, in this order: queue and tools (the smallest component with real
concurrency, and the one to prove completely), the loop, the session manager with
its files, compaction over it, the session around the loop, the credentials, the
orchestrator, the harness, the settings.

Next, in order of importance:

1. In `AgentSession`: custom messages, manual compaction during a run.
2. `RpcClient` (a request is settled once) and `EventStream`.
3. The pure algorithms (message transformation, the output window, the input
   buffer) against reference definitions.

Compositions and refinements: AgentSession's run as an abstraction of AgentLoop
(the events each emits); SessionManager as an implementation of an append-only
log of conversations; an atomic store of credentials as the abstract
specification of AuthStorage.

Theorems: the refinements above; that two runs of compaction in one session, manual
and automatic, exclude each other, once both are modelled.
