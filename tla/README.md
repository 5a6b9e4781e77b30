# FramePilot: specifications

TLA+ models of the parts of FramePilot whose correctness depends on order,
failure and concurrency; the TLC runs that check them on small instances; and
machine-checked proofs of what matters most about them. `PROJECT.json` lists the
components, the runs, the mutants, the source lines behind each definition, the
findings, the hazards and the theorems.

    tlc -workers 2 -config DurableRunClients.cfg MCDurableRun
    tlapm DurableRunProofs.tla

The parts are five: a durable AI run, the project file and its writers, the
scheduler of background-removal jobs, exports over the engine's render queue, and
the host's manager of the engine process.

## 1. The system and its components

FramePilot is a local-first video editor. An Electron **main process** ("the
host") owns the project file and the AI runs; a **renderer** window edits a copy
of the project; an **MCP server**, a process of its own, lets an external agent
edit the same file; a Python **sidecar** renders and analyses.

| component (code) | state it keeps | operations | what makes it correct | hard because of |
|---|---|---|---|---|
| **Run store** (`ai-sdk/src/run-store.ts`, `electron/ai/run-store.ts`) | per run: an append-only log (WAL), a snapshot, a bounded cache | append, saveSnapshot, load, quarantine, peek, evict, prune | snapshot and log never disagree, the snapshot is never ahead of the log, the end of a run always fits the budget | crashes and power loss between two files; failed writes; a full log |
| **Run coordinator** (`electron/ai/run-coordinator-base.ts`) | one lane per run, projections folded in memory, subscribers | accept (9 commands), openGate, complete, recordStreamEvent, recordPatchLifecycle, recordEditorLifecycle, recordRuntimeEffect, subscribe, reconcileInterruptedRuns | a command takes effect once; a gate is answered once; a run ends once and stays ended; recovery gives the state the live process had | retries, late events, a crash inside an operation, reconciliation at launch racing new commands |
| **Run gateway and AI stream** (`run-ipc.ts`, `ai-stream.ts`, `main.ts` beforePublish/onSettled) | streams per window, abort controllers | attach, publish, commit a patch, settle | a run says "committed" only of a patch that is in the file | the patch, the file and the run log are written one after the other |
| **Project command service** (`projects/project-command-service-base.ts`) | per project: document, history, digest of the persisted bytes, revision, a commit lane | write, commitPatch, revertToPatch, observe, refresh | one revision names one document; a write based on an old revision is refused or rebased | three kinds of writer, awaits inside the lane, failures after the write landed |
| **Project file** (`timeline-schema/src/project-file.ts`) | per process: digest of the content last observed, a publish lane | read, compare-and-swap, rename | no process erases what it has not seen | two OS processes share only a file |
| **Project watcher** (`projects/project-watcher.ts`) | last known canonical text, debounce timer | watch, markSelfWrite, flush, stop | external changes are reported, own writes are not | the event arrives later than the change |
| **MCP session** (`mcp-server/src/session.ts`) | the open document | openProject, runTool, saveProject, undo | its saves never erase the desktop's | it learns of other writers only when it saves; its tool calls overlap and share one open document and one baseline |
| **Renderer persistence** (`web-editor/src/App.tsx`) | document, revision, owed snapshot, patch lane, rebased authority | autosave, queue a patch, reconcile, adopt an external change | what is shown is what is, or will be, on disk | replies, notifications and edits interleave |
| **Capability-pack scheduler and matte runner** (`capability-packs/job-scheduler.ts`, `matte-ipc.ts`, `matte.ts`) | jobs with rank and state, one inference slot, the count of exports, a journal; per job a runner, an abort controller, a staging folder | submit, pause, resume, cancel, exports begin and end, checkpoint, run and stop of a worker | one inference at a time, the slot is always handed on, a request to stop is not forgotten, finished windows are kept for a resume | a dozen callbacks that must each pump the queue; flags set during awaits |
| **Render queue** (`engine/.../render/queue.py`, `pipeline.py`) | tasks, requests kept for a retry, cancel events, pending ids, one worker thread, one process per render | submit, cancel, the worker's loop, the stop escalation, retention | no task is stranded by a cancel, one render at a time, what ended has stopped | two threads and a process, a lock released between steps, renders that hang or outlive their engine |
| **Export client and hub** (`electron/render/export-client.ts`, `export-hub.ts`) | per export: the render's id, strikes, an abort | submit, poll, abort, give up, cancel | every export is answered and leaves no render behind | lost and late requests |
| **Sidecar manager** (`electron/sidecar/manager.ts`, `spawn.ts`) | phase, process, restart budget, liveness epoch | start, stop, poll, liveness, exit, recover | no engine is left behind, restarts are bounded, the phase does not go on telling an untruth | every await can be overtaken by a stop, an exit or a start |
| tracking workers and leases, stock quota, licensing | small state machines around remote work | | | timeouts, retries |
| orchestrator, timeline operations, schema, render compiler, preview, UI | large documents, pure functions or presentation | | | not a matter of interleavings |

How they interact: the window sends commands to the gateway and saves or patches
to the project service (IPC); the AI stream asks the coordinator to record each
event, and commits its patches through the project service in between; the
service publishes through the project file module, which the watcher observes
and which the MCP session uses from another process; the watcher calls back into
the service (observe) and the host notifies the window (projectChanged). The
export hub submits renders to the engine over HTTP and tells the scheduler how
many it runs, which holds the inference slot meanwhile; the sidecar manager owns
the engine that serves both.

The hazards of all this are in `PROJECT.json` under `hazards`, each at its line.

## 2. Modules

| module | models | composed with |
|---|---|---|
| `DurableRun` | one durable AI run: store, coordinator, the stream that drives it, the windows that command it, crashes, power loss, disk errors, reconciliation, retention | `RunContract` by refinement |
| `RunContract` | what a run promises its clients: the run without log, snapshot or failures | |
| `ProjectAuthority` | one project: window, host service, watcher, other readers, MCP session, failing writes | |
| `JobScheduler` | the jobs, the slot, the runner of each job and its worker's run | `JobContract` by refinement |
| `JobContract` | what the scheduler promises whoever submits jobs: one slot and the phases of a job, without queue, runner or signals | |
| `RenderQueue` | the engine's queue, its worker thread, the processes and the output file | |
| `Exports` | the clients of the exports and their requests on the way | extends `RenderQueue`; `RenderContract` by refinement |
| `RenderContract` | what the queue promises whoever asks for exports: renders that begin, write and end, without threads, pending ids or requests under way | |
| `SidecarManager` | the manager, its polls and loops, the engines it started | |
| `MC...` | values for TLC | |
| `...Proofs` | theorems about the module of that name | |
| `DurableRunHistory`, `DurableRunRefinement` | theorems about what the log of a durable run says, and that it implements its contract | extend `DurableRunProofs` |
| `ProjectAuthorityTypes` | theorems: what the window counts is what is on its way, and what the agent's saves can erase | extends `ProjectAuthorityProofs` |

### DurableRun

State. `wal`, `snap`, `fate` are the files of the run's directory; `synced` is
how much of the log an fsync has made durable, `open` whether this process holds
the log's descriptor (`checkpointWal` syncs only through it), `torn` a partial last
record. `loaded` and `mem` are the cache and the projection in memory; `saving` is
the snapshot of an operation that has appended its event and not yet saved.
`producer` and `verdict` are the AI stream's side, `project` the patches of this
run that are in the project file, `recon` how far the launch's reconciliation is.
`view` is auxiliary: the projection the live process had at each record.

Steps. Operations of one run are serialised by its lane, so an operation is one
step, or two when it saves: its append (`Record`), then `Save` or `SaveFails`.
Between them come a `Crash`, a `PowerLoss`, or retention. `Load` and `CatchUp` are
`loadUnlocked` and `recoverSnapshot`; `Project`, `Admits` and `ReduceCommand` are
the replay and the command reducer, shared by the live path and the recovery as
in the code. The stream's actions are the coordinator's record functions in the
order `main.ts` and `ai-stream.ts` call them; `RecordStream`, `SkipStream` and
`FoldLedger` are the three ways a stream event is stored.

Abstractions. Events carry what the projection reads; gate ids are the sequence
of the record that opened the gate; the WAL is measured in records instead of
characters; a duplicate of the last stream event is a stutter; patch review gates
are never opened by the code and are left out; the effects table and the content
of a ledger are their version; `rebased` is a committed decision; one stream per
run; closing the log's descriptor after a snapshot cannot fail.

### ProjectAuthority

State. A document is the set of edits it contains, and `file` is the project
file. `observed` is each process's publish baseline; `service` the host's
document, history, persisted document and revision; `watcher` its last canonical
text, timer and read in progress; `reading` the reads of other handlers; `op` the
write that holds the commit lane; `asked`, `answer` and `inbox` the messages between window and
host, `answer` holding those whose handlers still have awaits ahead, so that they
may be sent in any order; `renderer` the window's persistence state; `agent` the
MCP session: its open document, the `open_project` calls that have read and not yet
parsed, and the saves under way in the order of their lane, each with the document
it captured. Two fields are the model's: a save is `current` while the document it
was taken from is the open one, and the session is `based` while its process's
baseline comes from the open document.

Steps. A desktop write is `StartSave`/`StartPatch`/`StartRunPatch` (revision
check, patch validation, markSelfWrite), `Publish` (compare-and-swap and rename),
`RecordBaseline` (after the directory sync), `Commit` (recordPersisted, answer),
with `PublishFails` and `CommitFails` for what can throw in each. A read takes the
content in one step and makes it the baseline in a later one (`FlushReads`/`FlushEnds`,
`ReadFile`/`ReadEnds`). The agent's tool calls overlap freely, as nothing in `session.ts`
keeps them apart: `AgentReads`/`AgentOpens` is `loadInto` on either side of its await,
`AgentSaves` the part of `saveProject` before it enters the lane, `AgentPublishes` and
`AgentRecords` the publish, `AgentSaved` and `AgentRefused` what follows the await. Only the
publish lane orders saves; an `AgentOpens` or `AgentTool` may come between any two of
these steps, and an edit made meanwhile is dropped by `AgentSaved`, as in the code.

Abstractions. The check and the rename are one step: `project-file.ts` documents
the window between them as unguarded. The memory write after an automatic commit
is left out, and so are revertToPatch, project switches, first saves, restarts of
a process and the compaction of transported documents. Two flushes do not overlap.
A run's patch that no longer validates is dropped. A patch may overlap the edits
it was not computed against, or not: both are allowed (`StartPatch`, `InvalidPatch`).

### JobScheduler

State. `job[j]` holds the scheduler's entry, where its runner is (`at`) and the
flags of the service's run; `active` the slot, `exports` the hub's count.

Steps. The host is one thread, so a step is what runs between two awaits: a
request (`Submit`, `Pause`, `Resume`, `Cancel`), an export that begins or ends, or an
answer the runner waited for, with the settling and `Pump` that follow in the
same turn. These pieces of code are operators from hosts to sets of hosts, as
they call each other: `Settle` and `Suspend` end in `Pump`, `Checkpoint` in one of the
two, and every action in one of them. `Ask` is the suspend handler, `Abort` the
controller of the service's run, `WorkerStarts` the last await before the abort
listener is added.

Abstractions. The window of a media that a worker has finished is its `staging`;
the licence and the open project are one answer; a job's id is used once; the
journal, progress and the trimming of old entries are left out; `requests` bounds
the environment.

### RenderQueue and Exports

State. `task` is the queue's table with request and cancel event, `adding` the
tasks between the lock and `pending.put`, `retryOrder` the requests kept, `worker`
the thread's program counter, `proc` the process of each task, `file` the one
destination of a project's exports, `up` the engine. `client` and `net` are the host's
exports and their HTTP requests under way.

Steps. A step of a thread is what it does under the lock or between two waits.
The worker takes a task, drops it if its cancel event is gone, starts the
process, leaves the executor for one of four reasons, discards the output,
escalates the stop and finishes. A process prepares, opens its output, succeeds,
fails, dies, hangs (it takes no step) or survives SIGKILL (`"stuck"`: the
code abandons it). `EngineDies` empties the queue and leaves the
processes. Any request may be lost, or arrive after the client stopped waiting.

Abstractions. One worker and no automatic retry, as the service builds the queue;
the time-out of a render may strike at any time; the answers to a status check
are not delayed, since an ending stands (`EndingStands`); a restart of the engine
is left to `SidecarManager`.

### SidecarManager

State. `manager` is the class's fields; `poll[e]` and `watch[e]` are the startup
poll and the liveness loop that began with engine `e`, each with the answer of
the check it has sent; `engine[e]` is the process group, a wrapper and a server,
the entry of the process in the host's registry, and the event on its way to the
host. `tries` is auxiliary.

Steps. `Launch` starts the engine, `Restart` is `stop(); start()` without an await
in between, as when a pack the engine uses was installed, `Quit` the stop and the
registry's `terminateAll` at the end of the app. `PollWakes`, `WatchWakes` and
their answers are the two loops, which look at the manager after their awaits
exactly where the code does: the poll looks at `exited` alone, the loop looks at
its epoch after sleeping and not after its check. `ExitSeen` and `ErrorSeen`
compare the process; `BackoffEnds` looks at phase and process.
A kill goes through the registry (`Killed`, `Terminated`): it signals the group if the
entry is open, and does nothing otherwise. `ExitSeen` closes the entry first, as the
listener `spawnSidecar` adds comes before the manager's, so the manager's own kill in
that listener is no step at all and `OnlyOrphansEscape` excepts the server it misses.
An engine binds the port if nobody has it; its wrapper may end alone, and its server
may fall silent and answer again or not (`"silent"` is also a server that has not
bound its port yet, or has ended under its wrapper).

Abstractions. What a check finds is decided when it is sent; delays in excess of
`MaxBackoffs` end together; a place of `Engines` is used again once nothing refers to
it; a check has no deadline of its own in the code and ends by that of `fetch`. A
`spawn()` that throws instead of reporting an error event is left out, which the
injected interface does not provide for; the engine's own watchdog, which ends it when
the host is gone, is one of the ways to take the step `End`.

## 3. Runs

| run | cfg | question | result |
|---|---|---|---|
| `clients` | `DurableRunClients` | is what the log records right, for every interleaving of commands with a stream, a patch, a gate and crashes? | six invariants hold |
| `disk` | `DurableRunDisk` | do log, snapshot and memory agree through failing writes and power loss? | hold, and nothing durable reverts |
| `contract` | `DurableRunContract` | does the run implement `RunContract`, and is every run of an earlier process closed at launch? | yes, without early accepts |
| `early_accept` | `DurableRunEarlyAccept` | the same, when a client accepts a patch of a run still going | **violated** |
| `cancel_crash` | `DurableRunCancelCrash` | does every ended run get its `run.terminal`? | **violated** |
| `crash_then_power` | `DurableRunCrashThenPower` | is the snapshot never ahead of the log? | **violated** by a crash followed by a power loss |
| `authority` | `ProjectAuthorityWriters` | the desktop and an agent on one file, writes failing before and after they land | a revision names one document; the agent erases only what a reload of its own crossed |
| `lost_update` | `ProjectAuthorityLostUpdate` | does a desktop write never erase an agent's? | **violated** |
| `scheduler` | `JobSchedulerRun` | pauses, cancels and exports at every step of a runner | the slot is handed on, stops are remembered, `JobContract` is implemented, unpaused jobs end |
| `scheduler_stop` | `JobSchedulerStop` | does a request to stop always reach the worker? | **violated** |
| `exports` | `ExportsRun` | lost requests, hanging, failing and orphaned renders, a dying engine | one render at a time, nothing stranded or left running, `RenderContract` is implemented, everything answered |
| `sidecar` | `SidecarManagerRun` | engines that crash, hang or lose half of their group, and restarts at every await | none left behind but an orphaned server, restarts bounded, nothing starting or ready left to itself, starting ends, silence is noticed |

Two configurations stand outside the table, each with one property that TLC refutes in
seconds, and that a property of a passing run states with the exception it needs:

| cfg (module) | claim of a comment | result | what does hold |
|---|---|---|---|
| `ProjectAuthorityReopened` (`MCProjectAuthority`) | `AgentNeverErases`: an agent's save never erases the desktop's, whatever else the agent calls | **violated** | `AgentErasesOnlyCrossed` of `authority` |
| `SidecarManagerOrphan` (`MCSidecarManager`) | `RestartsReap`: a server that outlived its wrapper is reaped before it is replaced | **violated** | `OnlyOrphansEscape` of `sidecar` |

`ImplementsContract` of `DurableRun` says that every step of a run is a step of
`RunContract`, a stutter, a loss of power, which the contract has no word for (it takes back
records), or a step of a run that the store has quarantined. Those of the other
modules have no exceptions.

**Bounds.** `DurableRun`: two or three command ids (retries and conflicts need
one, two decisions on one gate need two, and a command before them three), one
patch, a log of 4 or 5 records with `MaxIntegrity` below it, so that the budget
is met both by stream events (skipped) and by integrity records, `SnapshotInterval`
3 so that recovery replays several records, and at least one stream status.
Several crashes may happen; a run that survives one recovery in every state it
can reach does not depend on how many there were. Command ids are
interchangeable, so the safety runs use them as a symmetry set; the liveness run
does not. `contract` leaves out early accepts, answers and steers, which `clients`
has: the first are the subject of `early_accept`, an answer does what an approval
does, and a steer changes nothing.

`ProjectAuthority`: one edit of each kind is enough to be erased or duplicated,
one save in flight at a time besides the reconciling one, and three revisions, so
two recorded writes with any number of refused and failed ones between them: two
messages can share a revision, precede and follow each other. The constraint
`OneDesktopWriter` splits the run in three: an AI run commits and another handler
reads the file, though not in the middle of the watcher's read; or the user edits,
with at most two messages to the window on their way; or the user edits by patches
and the agent's calls overlap, up to two opens and two saves of which, with the
messages, two are under way at a time, while the watcher reads between calls and the
revision reaches 2. In the first two the agent makes one call at a
time; every failure is in all three. Two calls suffice for a reload to cross a save
and for one save to wait behind another. The theorems remove these bounds and the
constraint.

`JobScheduler`: two jobs, of which one is active and one waits, is held or
overtakes it, and three requests, so that a pause, a cancel and an export may fall
on one run. `Exports`: two exports, so that one waits while the other renders, two
strikes in a row where the code has three, one retained request where it has eight.
`SidecarManager`: two engines, the one being replaced and its replacement; one
restart of the budget, two checks of a starting engine, two misses of a ready one,
one restart by the host, against 3, 75 and 3 in the code: each limit is still met
and missed. The theorems hold for every value of all of these.

**Coverage.** Each action of each next-state relation fires in a passing run:
`clients` has no failing disk and `disk` no patches, the other modules have one
passing run each.

**Fairness.** `contract`: the host finishes what it has begun: a save after its
append, a load it is asked for, the replay, the reconciliation it runs at launch
(`reconcileInterruptedRuns` is awaited in a loop and never blocks on a client).
Reconciliation needs strong fairness, since the cache may evict the run between
its load and the step that uses it. Nothing is assumed of clients, of the stream
or of failures, and `OrphansSettle` speaks of what follows the last failure.
`scheduler`: an export ends (`render` exports have a deadline), and whatever the
runner waits for is answered (reads fail or answer, a worker is under a watchdog);
nothing is asked of the user, and `JobsSettle` excepts the jobs that stay paused.
`exports`: the engine's thread and watchdogs run, the client's waits end by their
deadlines; nothing is asked of a render, and no check is ever made to fail while
the render is open and the engine lives. `sidecar`: timers fire, a check is
answered or fails, events arrive, and a group that was killed ends; nothing is
asked of an engine that was not killed. `ProjectAuthority` has no liveness
property: whether a window's edit reaches the disk depends on the user.

**Deadlock** is not checked: a finished run, a project whose bounded edits are
used up, a scheduler whose jobs have ended, exports that are all answered and a
host that has quit really have nothing more to do.

**Mutants.** Every property of a passing run has a plausible bug in the modelled
code that TLC finds with it (`PROJECT.json`, `mutants`; their definitions stand before
the ones they change).

## 4. What is proved

Eight proof modules, checked from nothing by `tlapm`. Each theorem holds for every
value of the constants that satisfies the modules' ASSUMEs (any number of clients,
patches, jobs, exports, engines, readers and edits, any limit) and any combination
of failures except where stated.

| module, theorem | property | argument |
|---|---|---|
| `DurableRunProofs` `TypeCorrect` | `TypeOK` | each action does one of nine things to the store (`StoreStep`: record, stream, save, lose a save, catch up, restart, lose power, tear, delete), and each keeps `StoreOK`; `HostOK` is separate |
| `SnapshotNeverAhead` | `SnapshotWithinLog` | inductive with `Positions` (memory and pending snapshot are within the log) and `PowerSafe` (what a snapshot covers is synced, or an open descriptor will sync it). Assumes that not both a process crash and a power loss can happen: the run `crash_then_power` shows why |
| `RecoveryIsExact` | `RecoveryAgrees` | the snapshot, memory and pending snapshot equal `view` at their position, and each later record is the projection of the one before; a power loss only shortens both sides |
| `CommandsTakeEffectOnce` | `CommandAtMostOnce` | the log only grows by one record, whose command id is not in it, or shrinks to a prefix |
| `CommitsAreInProject` | `CommittedIsInProject` | a patch is recorded as committed only after its write (`WrittenInProject`), and nothing removes it from the project |
| `DurableRunHistory` `FirstEndingIsKept`, `EndedLogIsClosed` | `FirstEndingStands`, `ClosedLog` | every step leaves the log, adds one admissible record to it, restates the last projection of a run that has not ended, or cuts it (`LogStep`); what an ended run admits keeps its status and, but for an accepted patch, its outcome (`EndedStays`) |
| `GatesAreAnsweredOnce` | `GateAnsweredOnce` | the gate a projection waits at was opened by an earlier record and nothing has closed it since; an answer is admitted only for that gate |
| `ChangesAreReal` | `ChangeIsReal` | what the stream counts as committed is in the project, a reconciliation takes over a change only from a projection that is itself real, and the project loses nothing |
| `NothingReverts` | `NothingDurableReverts` | what is saved is the last projection of the log, or restates it; ledgers grow along the log, and `FirstEndingStands` keeps the ending |
| `DurableRunRefinement` `RefinesContract` | `ImplementsContract` | each kind of record is one action of the contract or invisible; a run has an outcome exactly when it has ended, and then no gate (`Shapes`). Assumes `"accept_patch" \notin ClientKinds`, as the run `contract` does: an accept before the end breaks `Shapes`, which is the finding of `early_accept` |
| `OrphansAreClosedOrFull` | `OrphansClosed \/ Full` | when the sweep decides to close a run, the snapshot covers its whole log, and when it has passed the run, the snapshot, or the one about to be saved, is of an ended run (`Reconciled`); no step takes that back, since a record that ends a run stays in the log and its projection is saved (`TerminalEnds`). Assumes no early accept, and no disk failure: a failed save is what the code's `catch` gives up on. `Full`, a log at its limit without a `run.terminal`, is the one other way to stay open |
| `NoOrphanIsLeft` | `OrphansClosed` | the same without `Full`, if the records outside the stream's budget fit in the reserve (`StreamLimit + MaxIntegrity < WalLimit`): the log holds the stream's records, which stop at `StreamLimit`, at most `MaxIntegrity` others, and one ending (`Budget`, counted with `FiniteSetTheorems`), so a log without an ending has room for it. `MaxIntegrity` is a bound of the model, the code has none: the statement about the code is the one before |
| `ProjectAuthorityProofs` `OneDocumentPerRevision` | `RevisionNamesDocument` | every recorded message carries the revision and document of the record that preceded it, and a record moves the revision exactly when the document changes; queues lose, append and reorder messages but never change one |
| `ProjectAuthorityTypes` `TypeCorrect` | `TypeOK` | two types are protocol facts: `saving` is decremented only above zero, and a patch is answered only with a lane that is not empty. Both follow from an account of where each request is (`Accounted`): the saves asked for, being written, answered and delivered never exceed `saving`, the patches never exceed one while the lane is not empty; every step moves a request on or ends it |
| `AgentErasesOnlyWhatItCrossed` | `AgentErasesOnlyCrossed` | but for the agent's own edits, the open document, each save taken from it and, while it is `based`, the baseline agree (`AgentBased`): a save publishes only over the baseline, so it takes none of the desktop's edits away. The exception is the finding of `ProjectAuthorityReopened` |
| `JobSchedulerProofs` `TypeCorrect`, `NoLostWakeup`, `OneInferenceAtATime`, `StopIsRemembered` | `TypeOK`, `NoIdleSlot`, `OneInference`, `StopRemembered` | a host is *good* when it is well typed and `Sound`: what its slot, queue and entries say of each other. Every operator the actions are built from (`Put`, `Leave`, `Pump`, `Settle`, `Checkpoint`) takes a good host to a good one, so each action is a short composition of lemmas |
| `NoRunIsHeld`, `WindowsAreKept`, `EndingsStand` | `NoRunUnderHold`, `WindowsKept`, `EndingStands` (checked as a part of `ImplementsContract`) | one relation between an entry before and after a step (`Follows`): an ended entry is unchanged, windows only grow while the job lives, and work begins only on an entry that nobody holds |
| `RefinesContract` | `ImplementsContract` | the phases the contract sees (`Phase`) are read off an entry's state and its runner's place; `Pump` serves one of those the contract says want the slot (`PumpServes`), a checkpoint is an end, a going on or a making room with a reason (`CheckpointServes`), and each action is one of the contract's or a stutter |
| `ExportsProofs` `TypeCorrect`, `NoTaskStranded`, `RetentionBounded`, `EndedHasStopped`, `OneRenderAtATime`, `NoRenderLeftRunning` | `TypeOK`, `NeverStranded`, `RetainedBounded`, `EndMeansStopped`, `OneRender`, `NoneLeftRunning` | `QInv` ties the worker's program counter, each task's state, its process and its place (queue, submission, worker) to one another; every step of a thread or a process keeps it. The client's part, `ClientHolds`, says where its request and its task can be |
| `RefinesContract` | `ImplementsContract` | what the contract sees is read off three variables: the status of each task, its cancel event, and the processes that may still write. With `QInv`, the task the worker starts is queued and finds the destination free, and the one it finishes has no writer; `CancelAsked` says that the worker reports a cancel only while the event is set, which `QInv` does not know |
| `EndingsStand`, `CompletedLeavesWhole` | `EndingStands`, `CompletedIsWhole` (checked as parts of `ImplementsContract`) | action properties from `QInv`: only the worker finishes a task, and it does so from a state that is not ended, after the process has replaced the file |
| `SidecarManagerProofs` `TypeCorrect`, `OnlyOrphansAreLeft`, `CrashLoopsEnd` | `TypeOK`, `OnlyOrphansEscape`, `CrashLoopEnds` | a group that lives has an entry; it is the manager's process, was signalled, or has lost its wrapper and its entry (`Covered`); a launch is counted in `restarts`, or waits to be (`TriesCounted`) |
| `NothingUnattended` | `Attended` | inductive with the types: a recovery counts its delay before it leaves the process, a start asks before it returns, a poll ends only in ready, in failed or after an exit, which is never seen of a starting process without failing it, and any answered poll brings its own loop. It is what `StartingEnds` and `SilenceNoticed` rest on |

Only model-checked: every liveness property (`OrphansSettle`, `JobsSettle`,
`RendersEnd`, `OrphansDie`, `ExportsAnswered`, `StartingEnds`, `SilenceNoticed`),
which under fairness is beyond the prover.

## 5. Findings

The five violated runs and the two configurations beside them are disagreements
between the code and what it says of itself (`PROJECT.json`, `findings`):

- `early_accept`: a patch accepted while its run is going leaves a run that can
  never be saved or closed.
- `cancel_crash`: a crash after a cancel leaves a run without `run.terminal`.
- `crash_then_power`: a crash followed by a power loss can leave a snapshot ahead of
  its log, and the run is quarantined.
- `lost_update`: a desktop write can land over an agent's save it has never
  merged, because any read in the process moves the publish baseline.
- `scheduler_stop`: a pause or cancel that comes while the matte service is preparing
  a run is set on a signal nobody listens to yet, and never reaches the worker.
- `ProjectAuthorityReopened`: an `open_project` that ends while a save of the same
  session is being written moves the baseline that save is compared with, and the
  save lands over the desktop's newer document.
- `SidecarManagerOrphan`: the manager's kill after its wrapper's exit does
  nothing, because the registry has by then marked the process as terminated; the
  server lives on, with the port, through restarts, quit and the next launch's
  sweep.

Other behaviours were found while modelling, and are hazards with a note. In the
sidecar manager, the startup poll of a replaced engine looks at `exited` only, and
a liveness check that answers after a restart kills the engine that replaced the
one it asked; one death may be recovered twice. A render that is cancelled before
it opens its output still discards the destination, and with it the file of an
earlier export. A `submit` that is handled after the client gave up leaves a
render nobody watches. And three properties were stated, refuted by TLC and not
kept, because the code makes no claim to them: that the window's revision never
decreases, that the window shows the document its revision names, that a write
reported as failed has not landed.

## 6. Not modelled

The component list of `PROJECT.json` gives the reason for each part. In short:
the orchestrator's steps depend on a model's prose; timeline operations, schema
and render compiler are pure functions over documents too large for TLC, and are
covered by property tests; preview, UI and website are presentation; analysis and
the project brain are derived data.

Of the modelled components, these operations are left out: the scheduler's
journal and its dormant jobs after a restart; the queue's `retry()` and automatic
retries; a restart of the engine seen by `Exports` (`SidecarManager` has it); in
`ProjectAuthority` the memory write after an automatic commit, overlapping
flushes, `revertToPatch` and restarts.

## 7. Plan

Done: the durable run, the job scheduler and the render queue with its client, each
with its contract; the project file and its writers; the sidecar manager; their proofs.

1. The scheduler's journal: `resumeDormant`, a crash between a checkpoint and the
   journal's write.
2. `Exports` composed with `SidecarManager`: the engine that died comes back, and the
   client's strikes meet the restart.
3. `ProjectAuthority`: the memory write after an automatic commit, overlapping
   flushes, `revertToPatch`, restarts.
4. Proofs: a contract of the sidecar manager, as the other machines have one.
5. Smaller machines: stock quota, worker watchdog, license grace.
