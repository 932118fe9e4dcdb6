# Agent Hub: a TLA+ verification project

Agent Hub is a task board for AI coding agents. A Go server (Gin, PostgreSQL
through sqlx) holds projects, tasks, agents and workflows; a project manager
(PM) and a web UI use its REST API and a WebSocket feed; worker bridges on other
machines poll it for tasks, run an agent on them and report. This directory holds
TLA+ modules translated from the source, TLC configurations that check them on
small instances, and TLAPS proofs, for every instance, of each safety property
the configurations check.

Where a document and the code disagree the modules follow the code.

## 1. The system

### Components, their state and operations

| Component | Code | State | Operations |
|---|---|---|---|
| Task handlers | `internal/task/handler.go` | rows of `tasks`: `status`, `assignee`, `retry_count`, `max_retries`, `claimed_at`, `updated_at` | create, PATCH, delete, escalate, release, claim, progress, complete, review, test, reassign |
| Stale task monitor | `internal/task/monitor.go` | none of its own | every tick: release timed-out tasks below the retry limit, escalate those at it, count their agents down |
| Agent handlers, health monitor | `internal/agent/handler.go` | rows of `agents`: `status`, `current_tasks`, `last_heartbeat` | register, heartbeat, queue, delete; every tick: warn, declare dead, hand tasks to backups |
| Workflow engine | `internal/workflow/engine.go`, `handler.go` | `workflows.status`; `workflow_phases`: `status`, `total_tasks`, `completed_tasks`; `workflow_task_map` | start, activate a phase, count a completion, advance, decide a gate, approve, reject, delete, queue review and test tasks |
| Database triggers | `internal/db/migrations.sql` | (the rows) | `fn_task_completed`: count a finished task and unblock what waits for it |
| WebSocket hub | `internal/websocket/hub.go`, `client.go` | map of clients, `broadcast`, `register`, `unregister`, `quit` channels; per client a `send` channel and a connection | Run, Broadcast, Stop; read pump and write pump of each client |
| Worker bridge | `internal/workerbridge/`, `cmd/workerbridge` | locals of one goroutine | heartbeat, poll, claim, run the agent, verify the build, report |
| Server process | `cmd/server/main.go` | none | wiring, start and shutdown |
| Polling workers | `workers/` | locals of one goroutine | heartbeat, poll, claim, run, report, stop on a signal |
| OpenCode client | `internal/opencode` | list of its sessions under a mutex | create, prompt, wait for the result, delete, clean up; each request with retries |
| Middleware, authentication, projects, features, comments, dashboard, review queue, prompts, status endpoints, web UI | `middleware`, `internal/*`, `web` | rows of their own or none | CRUD, reads, text |

### How they interact

* Each request is a goroutine. Handlers run several SQL statements **without a
  transaction** and mostly ignore the errors of the later ones. Two handlers, or a
  handler and a monitor, interleave at every statement.
* Both monitors are goroutines of the server that work on the same rows on tickers.
* Task handlers call the workflow engine after their own UPDATE, whether or not
  it matched a row; the UPDATE itself fires the trigger on `tasks`.
* Every status change is broadcast through the hub.
* Bridges and polling workers share the queue and know the server by HTTP only: a call or its response can be lost, and
  the server takes a task away without telling the bridge.

### Which behaviours are hard

Check-then-act over several statements; late reports; two monitors and a PM
undoing each other's work; retry counting spread over six places; a counter
(`current_tasks`) kept by increments, decrements and overwrites; phases counted by a
trigger and by the engine; channels closed by three goroutines; a silent half hour
while an agent runs. `PROJECT.json` lists each of these hazards at its line.

### What makes each component correct

* **Tasks**: one holder at a time; only the holder delivers; running work has an
  owner; no task stays claimed for ever; retries are bounded; finished work stays finished.
* **Agents**: counters never negative, slots not leaked, capacity respected.
* **Workflow**: phases open in order; a phase plans for the tasks it has and is
  completed when they are; completed phases stay; gates need a decision.
* **Hub**: no panic, no event missed by a connected client, no handler blocked,
  no client left behind.
* **Bridges and workers**: work on their own task; tasks are delivered by their holder;
  every task settles.
* **OpenCode client**: no session is forgotten, a clean-up that reports success has cleaned
  up, every call ends.

## 2. Modules

| Module | Models | Composes with |
|---|---|---|
| `TaskLifecycle` | task and agent tables under all task and agent handlers and both monitors, one action per SQL statement | implements `TaskOwnership` |
| `TaskOwnership` | the abstract promise: a task has one holder; acquire, give back, hand over | |
| `TaskLifecycleProofs` | types, ownership, delivery, and the refinement of `TaskOwnership` | |
| `WorkflowEngine` | one workflow: phases, its tasks, the calls in flight, one action per statement | uses a reduced task life |
| `WorkflowEngineProofs` | types, and the order in which phases open | |
| `WorkflowPlanProofs` | this commit: plans match the tasks, completed phases stay | extends `WorkflowEngineProofs` |
| `WorkflowSequentialProofs` | what holds when calls do not overlap: finishes counted, completed phases stay | extends `WorkflowPlanProofs` |
| `WsHub` | Run, Stop, the channels, both pumps of each client | implements `EventFeed` |
| `EventFeed` | the abstract promise: one log of events; a member is sent each of them in order, or cut off | |
| `WsHubProofs` | types, no panic, and the refinement of `EventFeed` | |
| `WorkerBridge` | bridges against the server's rows, calls as single steps, time in ticks | a reduced server; implements `TaskOwnership` |
| `PollingWorker` | polling workers beside bridges | extends `WorkerBridge` |
| `PollingWorkerProofs` | bridges and workers together: types, delivery, workers keep their task, and the refinement of `TaskOwnership` | |
| `OpenCodeClient` | goroutines that share the client of an OpenCode server, one action per attempt | |
| `OpenCodeClientProofs` | types, known sessions, complete clean-ups | |
| `MC*` | constants for TLC | |

### TaskLifecycle

`status`, `assignee`, `retry` are the columns of each task; `clock` is what the
monitor can tell of `claimed_at` and `updated_at`. `presence`, `current`, `beat`
are the columns of each agent. `req[g]` is what the handler goroutine `g`
remembers between two statements: the next statement, the task, the caller, the
status it carries, the assignee it read. `sweep` and `health` are the same for the
two monitors. A handler's reads and checks are the action `XRead`; each of its
statements is an action of its own (`ClaimRead`, `ClaimUpdate`, `ClaimCount`).
`Fail`, `SweepFail`, `HealthFail` make any statement fail, and the handler stops
or goes on as the code does. `Restart` drops everything in flight. A call that is
refused changes nothing and is the absence of a step.

Details of the code the module keeps:

* Most UPDATEs select by id only. The claim compares the status and the
  completion the assignee again.
* `CompleteTask` counts its caller down even if its UPDATE matched nothing.
* Deletion of a task and of an agent, and both passes of the stale monitor, are
  several statements.
* A failed verdict on an exhausted in-progress task passes `isValidTransition`; the
  escalation that follows selects by id and may escalate a task somebody else holds.
* Heartbeat states "working" and "idle" are one ("up"). Deleted names are not
  registered again.

Not in it: `ReassignTask` (its route has no `agentName`, so its first statement
panics and Gin answers 500 before any write) and tasks' workflow mapping.

### WorkflowEngine

`workflow`, `phases`, `tasks` (each with its mapping) and `call[g]`, what each
handler in flight does next. `PhaseScans` names a fact of this commit: sqlx refuses
a row with a column its struct lacks; the queries select `description` and
struct `Phase` has no such field, so **every read into `Phase` fails** and what
follows it is unreachable. `PhaseScans = FALSE` is the program as it is; `TRUE` is what
the code behind those reads does once the field exists, and is used to check that code.

`activatePhase`'s callers pass a phase without its configuration, so "multi" makes one
task, gates are agent gates and decisions pass: human and automatic gates,
decision conditions, `retryPreviousPhase` and `escalateWorkflow` have no caller that
reaches them and are left out. Any task may be completed with a gate verdict,
because the handler checks neither type nor assignee, and a failed verdict may name any phase: an
earlier one, the gate's own, a later one, or an index no phase has (`Targets`, any set in the
proofs; the phase before is the default). The two loops that create several tasks (`DevTask`,
`DevDep`, `DevMap` for per_dev phases, `QueueTask`, `QueueMap` for auto-queued reviews) go statement by
statement over the tasks still `left`; a failed insert (`"fail"`) is skipped by the second, which
plans for it all the same, and ends the first as a restart does. `migrations.sql` lacks columns and
a table the engine uses; the module follows the engine.

### WsHub

Go's channel rules are in the actions: `Accept` blocks on a full channel, Run's
`hand` separates receiving from working under the lock, closing twice and sending on a
closed channel set `panicked`. `hub.go` deletes from the map under the read lock while
`ClientCount` reads it; Run is the only writer in that section, and `ClientCount`
(a length) is not modelled. main never calls `Stop`; the run does, as the tests do.

The refinement to `EventFeed` maps `published` to the events Run has taken, a member to a client
of the map, and a client's `feed` to what was put on its channel. A client cut off
keeps what is left in its channel; it never gets a later event.

### WorkerBridge

One `pc` per bridge, one action per call. The server's part of a call is one step;
`TaskLifecycle` has its interior. Lost requests, lost responses (`Lossy`), killed
(`Mortal`) and restarted (`Restarts`, systemd's policy) bridges are constants. HTTP calls
take no tick; agent runs and builds do. An idle bridge sends a heartbeat in every tick.
`retry` saturates at `max_retries` and ages at their timeouts: the code only compares them; these
ranges, and the limit on a run, are the model's and say nothing of how far the code's columns grow.
A shutdown by signal cancels the run, which is reported as failed, so only a kill is `Die`.
The bridge never sends a gate decision. `WorkerBridge` maps to `TaskOwnership` as
`TaskLifecycle` does, with nobody in `Handovers`.

### PollingWorker

`Workers` are the members of `Bridges` that run `workers/base.go` instead. What differs: a
refused or failed claim drops the task; a heartbeat is sent at start and when the
five-minute ticker is due **between two tasks** (a tick is longer, so after a tick it is
always due; before that it may be); nothing is built and no progress is sent after the first 10 %;
a signal is looked at between two tasks and answered with a "stopping" heartbeat. The backoff of
poll errors is at most five minutes, which is less than a tick. `RunOpenCode` has no limit:
`AgentTimeout` is a bound of the model there. The dev, review and test processors differ in
their text only, and all of them report by `complete`.

### OpenCodeClient

`live` and `transcript` are the server's sessions and its replies in them, `tracked` is
`Client.sessions`, `call[p]` the locals of goroutine `p`. An attempt of `doRequest` is one step:
the server acts or not, and the client is answered (`*Answered`), may try again (`Retry`: refused,
reset, 5xx) or must give up (`Fail`: time-out, 4xx, undecodable). `whole` says that the body
has not been read yet; `bytes.Reader` is not rewound for the next attempt. The two critical
sections of the mutex that follow a request (`Track`, `Untrack`) and the one of `Cleanup` are
actions of their own. `owner` and `abandoned` only record, for the properties, whose creation was
answered and which deletions a `Cleanup` gave up. A session is used by the goroutine that made it;
`Cleanup` may be called by any. Which unused id the server picks is fixed: ids are opaque.

## 3. Runs

| Run | Question | Instance |
|---|---|---|
| `task_calls` | do two overlapping handlers, failing anywhere, with restarts, keep ownership exclusive and delivery with the assignee? | 1 task, 2 agents, 2 handlers |
| `task_monitors` | do both monitors, statement by statement, with registrations and deletions of agents? | 1 task, 2 agents, 1 handler |
| `task_recovery` | does a task claimed by a silent worker leave that status? (liveness) | 1 task, 2 agents, 1 handler |
| `task_release_race` | *violation*: can a release undo a completion? | 1 task, 1 agent, 2 handlers |
| `hub` | can the hub panic, overrun a channel, skip an event; can a broadcaster block for ever, a lost client stay? | 2 clients and 2 events, or 1 and 4; 1 caller, Stop |
| `flow_calls` | this commit: do phases plan for what they have and stay completed under two overlapping calls? | 2 phases, 3 tasks (or 2, done again), 2 calls |
| `flow_gates` | behind the failing reads: are phases opened in order, do completed ones stay, is every finish counted? | 5 phases, 3 tasks (or 2, done again), 1 call, verdicts that name any kind of phase |
| `flow_phase_stuck` | *violation*: does the next phase open? | 2 phases, 2 tasks |
| `bridge_rivals` | whoever works on it, does a task have one holder, who alone delivers it? | 1 task, a bridge, a worker, all losses, kills, signals, restarts |
| `bridge_drain` | does a worker keep the task it works on, and does every task settle? (liveness) | 2 tasks, a bridge that may be killed, a worker, lost progress and reports |
| `bridge_conflict` | *violation*: does a bridge work only on its own task? | 1 task, 2 bridges |
| `sessions` | are all sessions known, does a successful clean-up clean up, does every call end? | 2 goroutines, 2 sessions, 2 attempts, 1 prompt |

### Bounds and why they are enough

* **One task** in `TaskLifecycle`: handlers act on one row; tasks meet only in
  `current_tasks` and in the monitors' sets. Two agents give every rivalry; two handlers
  every pair of overlapping statements.
* `RetryBound`, `LoadBound`: calls that raise the two counters start below them.
  `RetryBound` is not below `MaxRetries = 1`, so both sides of each comparison are
  reached. `FlakyAgents = {a1}` leaves a backup alive.
* `Calls` selects the operations of a run: `task_calls` has every task handler,
  `task_monitors` the monitors and agent handlers with claims and completions.
* Hub: capacities of 1 instead of 256; a channel is full, and one event too many is published,
  within two events. A behaviour has six messages, a connection counting for two of them
  (`MaxMessages`, `Room`): four events with one client, enough for a broadcaster to wait behind
  a client that does not read, or two with two clients. A second broadcaster adds only who
  waits first for `broadcast`; two clients are enough for one to be slow while the other is served.
* `flow_calls`: two phases, as nothing opens a third in this commit. `flow_gates` has a phase
  of each kind that branches (`per_dev`, `gate`, `review`, `decision`); `per_dev` comes second, so that
  it is entered with the tasks queued for it and, when those inserts failed, without.
  `MaxTasks = 3`: three rows of `tasks`, or two and one of them is done again after a review,
  a test or a gate has sent it back (`Rows`, `MayWork`, `MaxCount`); a task that has passed its
  review is not claimed again (`MaxPasses`).
  A verdict in `flow_gates` names the phase before its own or one of `Targets = {0, 3}`. Since any task
  may carry a verdict, 3 is the gate's own phase, a later one that is still pending (for a task of the
  first two phases) and an earlier one (for the last two); 0 is no phase. The run has no rejection, which
  breaks `CompletedStays` there (section 4), and no deletion; `flow_calls` has both.
* Sessions: two attempts have a first and a last one; two sessions make a `Cleanup` that fails on
  one and succeeds on the other; one prompt, since the properties are not about answers.
* Bridges and workers: agent runs of 1 tick against timeouts of 2 (claim) and 1 (progress) in
  `bridge_drain`, as long as the timeouts in `bridge_rivals`; both orders of a run
  and a sweep occur. One bridge and one worker are the three rivalries that differ: a holder, one that
  ignores a refusal, one that lost its task. Claims and polls are not lost in
  `bridge_drain`: if every one is lost, nobody ever works. A task that became an orphan counts as
  settled: `GetQueue` offers available tasks only, so it waits for the PM's release.

`CHECK_DEADLOCK FALSE` everywhere: with a finite number of tasks, messages or
connections a behaviour may end with everything delivered, and a server without calls is idle.

### Fairness

* `RecoveryFairness`: timeouts expire, the monitor's ticker goes on, a handler
  goroutine that can run does. Nothing is assumed of agents, the PM or the health
  monitor, and statements do not fail in that run.
* `WsHub!Fairness`: weak fairness of goroutines that can run; strong fairness of the
  cases of a `select` and of senders on a shared channel (Go chooses at random and
  queues senders).
* `WorkerBridge!FairSpec`: a bridge's goroutine runs while its process does, the
  monitor sweeps, time passes (`FairFleetSpec` says the same of workers). `[]<>` "all bridges wait" says that calls (seconds) do not
  fill the time between them (minutes); without it two bridges polling in turn would stop
  the clock. Nothing obliges the agent to succeed or `b1` to survive.
* `OpenCodeClient!FairSpec`: a goroutine that can run does; an attempt ends, as `http.Client` has a
  time-out; a wait's `select` does not prefer its ticker to the expired context for ever, hence
  strong fairness. The server need not do anything.

## 4. Promises the code does not keep

Three are runs with findings. The rest were found the same way; their properties are at the
end of each module, and the instance given here makes TLC print the behaviour.

| Property | What the code does | Instance |
|---|---|---|
| `FinishedNotRequeued` (run) | `ReleaseTask` updates by id only: a completion between its read and its UPDATE is undone. The timeout spec calls this race safe. | `TaskReleaseRace.cfg` |
| `NextPhaseOpens` (run) | the phase after a completed one stays pending: `advanceWorkflow`'s read fails, and it looks for an *active* phase its caller has just completed | `FlowPhaseStuck.cfg` |
| `WorksOnOwnTask` (run) | a claim refused with 409 counts as granted: the bridge runs the agent on another's task. | `BridgeConflict.cfg` |
| `WorksOnOwnTask` | nothing is sent while the agent runs, and its default limit equals the claim timeout: a healthy bridge loses its task | that, with one bridge and `AgentTimeout = 2` |
| `CapacityRespected` | a heartbeat sets `current_tasks` to 0, so after a lost report the agent gets a second task | one bridge, two tasks, `Lossy = {"complete"}` |
| `RunningIsNotDead` | "Sends heartbeat every 5 minutes while running" (`workers/base.go:158`): none is sent during a task, whose run has no limit | `BridgeDrain.cfg` with `AgentTimeout = 2` |
| `SlotsNotLeaked` | `UPDATE ... RETURNING assignee` returns the NULL it has just written: an automatic release never counts the agent down | 1 handler, `Calls = {"create", "claim", "stale"}`, `MaxRetries = 2` |
| `RetryBudget` | with two calls a completion overwrites an escalation and the task goes round again. One call at a time it is broken by a failure or a restart between a verdict and its look at the retries, by the health monitor (which does not compare them), by a PATCH, and by a release that has read a retry the stale monitor spends meanwhile | 1 agent, 2 handlers, `Calls = {"create", "claim", "complete", "review"}`, `RetryBound = 9` |
| `EscalatedWaitsForPM` | the health monitor requeues escalated tasks of a dead agent | `Calls = {"create", "claim", "escalate", "heartbeat", "health"}`, `RetryBound = 3` |
| `StopDrainsAll` | a registration Run received before quit is added after Stop drained the map | `Hub.cfg`, `SPECIFICATION Spec` |
| `CountsOnce` | trigger and engine both count a completion: 2 of 1 | `FlowPhaseStuck.cfg` |
| `ClosedWhenDone` | so the first of two tasks completes the phase | that, with `MaxTasks = 4`, `MaxPasses = 1` |
| `GateNeedsDecision` | a test task is mapped to the next phase even if that is a gate, and its completion completes the gate | template `<<"single", "gate">>` |
| `CountsEveryFinish` | a task is offered before it is mapped: claimed and completed between its INSERT and its mapping, it is never counted | `FlowCalls.cfg` with one agent, `MaxPasses = 0`, `MaxCount = 2`, `Operations = {"start", "complete"}` |
| `CompletedStays` | behind the failing reads, or with a gate verdict, a completion in flight is followed by the activation of a phase that another one has completed | `FlowCalls.cfg` with `PhaseScans = TRUE`, `Operations = {"start", "complete", "review"}` |
| `CompletedStays` | behind the failing reads advancing renames a completed phase to `complete`, and a rejection cancels what is not `completed` (`workflow/handler.go:178`) | `FlowGates.cfg` with `"reject"` |
| `OneTestTaskPerPass` | two reviewers pass a task at once: the loser's UPDATE matches nothing and its test task is made all the same | `FlowPhaseStuck.cfg` with two calls and `MaxTasks = 3` |
| `RejectionIsFinal` | an activation in flight when the workflow is rejected sets its cancelled phase running; behind the failing reads calls in flight also make the workflow itself complete or active again | `FlowCalls.cfg`; the first conjunct alone in `FlowGates.cfg` with `"reject"` and two calls |
| `AnswersThePrompt` | "polls the session until the last message is complete" (`client.go:131`): the last *finished* reply is taken, which may answer an earlier prompt | `Sessions.cfg`, `MaxPrompts = 2` |
| `RetriesCarryTheBody` | a retry sends the same reader, used up: the prompt arrives without its text | `Sessions.cfg` |
| `FailedDeletionsStayTracked` | `Cleanup` ("safe to call multiple times") empties the list first: what it fails to delete is not tried again | `Sessions.cfg` |

The health monitor requeues without comparing `retry_count`, so with agent runs as long as
its timeout, or heartbeats lost again and again, a task can circulate for ever
(`EveryTaskSettles` fails there); no document promises otherwise.

## 5. Proofs

Every invariant and action property of a passing run is a theorem, for every set of tasks, agents,
handlers, clients, workers and sessions, every template and every timeout and capacity, whatever the
bounds of the runs. "Without" names the operations a theorem excludes; hypotheses are in
the theorems, never in the modules.

| Module | Theorem | Says | Assumes |
|---|---|---|---|
| `TaskLifecycleProofs` | `TypeCorrect` | `[]TypeOK` | |
| | `ActiveOwned` | `[]OwnedWhileActive` | the PM's PATCH never writes `claimed` or `in_progress` by hand |
| | `AssigneeDelivers` | `DeliveredByAssignee` | the PM's PATCH never writes `done` or `failed` by hand |
| | `ServerImplementsOwnership` | `OwnershipSpec` | |
| `WsHubProofs` | `HubTypes` | `[]TypeOK` | |
| | `NeverPanics` | `[]NoPanic` | |
| | `HubImplementsFeed` | `FeedSpec` | |
| `WorkflowEngineProofs` | `FlowTypes` | `[]TypeOK` | |
| | `PhasesOpenInOrder` | `OpenedInOrder` | |
| `WorkflowPlanProofs` | `PlanMatches` | `[]TotalsMatch` | this commit (`~PhaseScans`), without restarts |
| | `CompletedPhasesStay` | `CompletedStays` | this commit, without gate verdicts |
| `WorkflowSequentialProofs` | `EveryFinishCounted` | `[]CountsEveryFinish` | calls do not overlap |
| | `CompletedPhasesStayAlone` | `CompletedStays` | calls do not overlap; behind the failing reads, without rejections |
| `PollingWorkerProofs` | `FleetHeld` | `[](TypeOK /\ JobOK /\ HolderOK)`: active tasks name a process, a busy process has a task | |
| | `HoldersDeliver` | `DoneByHolder` | |
| | `FleetImplementsOwnership` | `OwnershipSpec` | |
| | `WorkersKeepWork` | `[]WorkersKeepTheirTask` | an agent run is shorter than the claim timeout |
| `OpenCodeClientProofs` | `ClientTypes` | `[]TypeOK` | |
| | `NoSessionForgotten` | `[]NothingForgotten` | |
| | `CleanupIsComplete` | `[]CleanupDeletes` | |

### Why the hypotheses are there

None can be dropped; TLC prints a behaviour without each.

* PATCH writes whatever status the PM sends, so it can write an active or delivered row by hand.
* *Calls do not overlap* (`OneAtATime`): section 4 has the behaviours with two calls for
  `CountsEveryFinish` and, with verdicts or behind the failing reads, `CompletedStays`.
* `CompletedPhasesStayAlone` without rejections behind the failing reads: section 4 has the cancelled
  phase. In this commit no phase is ever left as `complete`, and rejections are included.
* `PlanMatches` without restarts: the start maps the first task and then writes the phase's total; a
  restart in between leaves a plan of none for one task (`FlowCalls.cfg` with
  `Operations = {"start", "complete", "restart"}`).
* Both plan theorems are about this commit: behind the failing reads a later phase is started beside the test
  tasks that are planned for it, and its number is overwritten (template `<<"gate", "single">>` and
  `Operations = {"start", "complete", "review", "decide", "approve"}`), and a review task whose insert fails
  is planned for all the same; for completed phases see section 4.
* `CompletedPhasesStay` without gate verdicts: a verdict completes the first phase while the start is still
  about to set it running (the same with `{"start", "complete", "decide"}`). One call at a time it cannot:
  `CompletedPhasesStayAlone` has the verdicts and the code behind the reads.
* `WorkersKeepWork`: in the code a run has no limit and section 4 shows what then happens.

### The arguments

Nearly all rest on one difficulty: a statement executes long after the read it depends on,
so types alone are never inductive. Each invariant says what is still known then.

* **Tasks.** `IInv` adds to the types what a handler's record may hold: a claimer read one of
  four claimable statuses, a completion carries one of the statuses `CompleteRequest` allows,
  a count-down names an agent. Owned-while-active is inductive with it: the claim is
  the only statement that makes an unowned row active, and it writes its caller; those that clear the
  assignee write an inactive status. For delivery, the completion's `WHERE assignee = caller` finds an
  agent by `RequestOK`, and no other statement writes `done` or `failed`.
* **Hub.** `HubInv`: a client is in the map only with an open channel, and before its registration
  its channel is untouched; Run's `hand` names a client that has registered; the events waiting in
  `broadcast` are numbered without a gap up to the last one accepted. `NoPanic` follows from the first part,
  the order of a member's feed from the last.
* **Phases.** `FlowInv` keeps the task and the phase a call holds in range. `OrderInv`: the phase a
  call is about to open is no longer pending, and none before it is.
* **Plans.** `PlanInv`: a phase's total lacks exactly the tasks of the calls that have mapped one and
  not planned for it. `RunPhase` writes the number where `TestTaskTotal` adds to it; that is safe only
  because the write is for the first phase and an addition never is. `BuiltInv`: while the
  first phase is being built nobody finds it complete.
* **One call.** While a call relies on what it has read of a task only its own next statement or
  a restart can happen (lemma `Alone`), so `HeldOK` says that a task about to be mapped is not finished and a phase that
  `advanceWorkflow` has just closed is still completed. `NotCompleted` says that nobody is
  about to open a completed phase.
* **Fleet.** `FleetInv`: who works has a task, and an active row has a holder. `WorkersInv` bounds
  the age of a worker's claim by the age of its run, so the stale monitor cannot have taken it.
* **Sessions.** `ClientInv`: a live session that was handed out is in the list, given up, or ahead in
  a `Cleanup`; a session about to leave the list is gone from the server; a `Cleanup` without
  an error has only live sessions ahead of it.

**Refinements.** `TaskLifecycle` and the fleet map to `TaskOwnership` with `holder[t]` the assignee of an
active task, else none. Each action is an `Acquire`, a `GiveBack` of one task or of a set (stale monitor,
deletion of an agent), a `HandOver` (PATCH), or a stutter. A claim is an `Acquire` because its UPDATE
compares the status again. A bridge that runs a task it does not hold makes stutters. `WsHub` maps to
`EventFeed` with a member's `feed` what was put on its channel; each step of Run, Stop or a
pump is one step of the feed or none.

**What the attempts found.** `TotalsMatch`, `CompletedStays` and `CountsEveryFinish` held
in the first runs and have no invariant in general: the behaviours above appeared where the induction
stopped, and are why four theorems have hypotheses. `OneTestTaskPerPass` has none with two reviewers; with one
it follows from the order of two statements, so it is among the promises of section 4 only. In `WorkerBridge` two guards of a `CASE` in the health monitor
overlapped, which left its value open to the prover (TLC takes the first): it is an IF now.

### Only model-checked

* Liveness (`SilentClaimsRecovered`, `BroadcastReturns`, `LostClientsLeave`, `EveryTaskSettles`,
  `CallsReturn`): the prover has no fairness or ENABLED.
* What folds and recursion over data compute.

## 6. Plan

Done, in this order: `TaskLifecycle` with `TaskOwnership` and its proofs, `WsHub` with `EventFeed`,
`WorkflowEngine`, `WorkerBridge`, `PollingWorker`, `OpenCodeClient`; then the proofs about the other modules.

Next, proofs: bounds that hold when calls do overlap (how far two calls can go over the retry budget
or count a finish twice), and `WorksOnOwnTask` for a single bridge without lost calls.

Next, modelling: the composition of `TaskLifecycle` and `WorkflowEngine` (the agents' counters when
a failed gate takes tasks away, tasks requeued under a live completion).

## 7. Not modelled

Authentication, CRUD of projects, features and comments, dashboards, prompts and the
status endpoints (single statements or no state); CORS and logging; the rate limiter (a library's
token bucket in a map behind one lock, which no route mounts); `cmd/worker` (its package
`internal/worker` is not in the tree); the web UI, scripts and unit files, except the units'
restart policy. Nothing in the tree calls the OpenCode client or starts the polling workers; both are
modelled from their own code.
