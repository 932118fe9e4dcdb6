---------------------------- MODULE WorkerBridge ----------------------------
(***************************************************************************)
(* Worker bridges (internal/workerbridge) against the server they poll.    *)
(* Each bridge is one goroutine: heartbeat, poll, claim, run the agent,    *)
(* verify the build, report.  The server is reduced to the effect of each  *)
(* call and of its two monitors on the task and agent rows; TaskLifecycle  *)
(* has the interleavings inside the handlers.                              *)
(*                                                                         *)
(* Time passes in ticks.  HTTP calls (30 seconds at most) take no tick,    *)
(* agent runs and builds do.                                               *)
(***************************************************************************)
EXTENDS Integers, FiniteSets

CONSTANTS
  Tasks,            \* task ids
  Bridges,          \* bridges, each with an agent name and token of its own
  None,             \* SQL NULL, no job
  MaxRetries,       \* tasks.max_retries
  MaxTasks,         \* agents.max_tasks
  AgentTimeout,     \* ticks an agent run may last (TASK_TIMEOUT_MINUTES)
  BuildTime,        \* ticks a build may last; the code sets no limit
  ClaimTimeout,     \* CLAIM_TIMEOUT_MINUTES of the stale monitor
  ProgressTimeout,  \* PROGRESS_TIMEOUT_MINUTES of the stale monitor
  WarnAfter,        \* health monitor: silence of an agent to warn about
  DeadAfter,        \* health monitor: silence of a dead agent
  Mortal,           \* bridges that may be killed
  Restarts,         \* whether systemd starts a killed bridge again
  Lossy             \* the calls that may be lost, or their responses

ASSUME WorkerBridgeAssumption ==
  /\ None \notin Tasks \cup Bridges
  /\ MaxRetries \in Nat /\ MaxTasks \in Nat
  /\ AgentTimeout \in Nat /\ BuildTime \in Nat
  /\ ClaimTimeout \in Nat /\ ProgressTimeout \in Nat /\ ProgressTimeout <= ClaimTimeout
  /\ WarnAfter \in Nat /\ DeadAfter \in Nat /\ WarnAfter <= DeadAfter
  /\ Mortal \subseteq Bridges
  /\ Restarts \in BOOLEAN
  /\ Lossy \subseteq {"heartbeat", "poll", "claim", "progress", "complete"}

VARIABLES
  row,       \* tasks: status, assignee, retry_count (counted up to max_retries),
             \* and the ticks since claimed_at and updated_at
  load,      \* agents.current_tasks
  presence,  \* agents.status
  silence,   \* ticks since agents.last_heartbeat
  pc,        \* the call or wait each bridge is at
  job,       \* the task it polled
  success,   \* result.Success and buildOK of the job
  elapsed    \* ticks the agent run or the build has lasted

server  == <<row, load, presence, silence>>
agents  == <<load, presence, silence>>
bridges == <<pc, job, success, elapsed>>
vars    == <<server, bridges>>

Active == {"claimed", "in_progress"}
Queued == {"available", "assigned", "orphaned"}   \* statuses with a transition to claimed

AtMost(n, bound) == IF n > bound THEN bound ELSE n
Decrement(n) == IF n > 0 THEN n - 1 ELSE 0

-----------------------------------------------------------------------------
(* What the bridge's calls do to the rows *)

\* PATCH progress: both UPDATEs ask for the caller to be the assignee.
Progress(b) ==
  /\ row' = [row EXCEPT ![job[b]] =
               IF @.assignee = b /\ @.status \in Active
               THEN [@ EXCEPT !.status = "in_progress", !.updated = 0] ELSE @]
  /\ UNCHANGED agents

\* Mutant: a task in progress may be claimed.
ClaimableUnlessFinished(t) == row[t].status \in Queued \cup {"in_progress"}

Claimable(t) == row[t].status \in Queued

Claim(b, t) ==
  /\ row'  = [row EXCEPT ![t] = [@ EXCEPT !.status = "claimed", !.assignee = b,
                                          !.claimed = 0, !.updated = 0]]
  /\ load' = [load EXCEPT ![b] = @ + 1]
  /\ UNCHANGED <<presence, silence>>

\* Mutant: the completion's UPDATE selects the row by id only.
CompleteById(b, t, outcome) ==
  LET done == [row[t] EXCEPT !.status = outcome, !.assignee = None, !.updated = 0] IN
  IF row[t].status \notin Active THEN UNCHANGED server
  ELSE /\ row'  = [row EXCEPT ![t] =
                     IF outcome = "failed" /\ row[t].retry >= MaxRetries
                     THEN [done EXCEPT !.status = "escalated"] ELSE done]
       /\ load' = [load EXCEPT ![b] = Decrement(@)]
       /\ UNCHANGED <<presence, silence>>

\* Mutant: the decrement without GREATEST(..., 0).
CompleteUnfloored(b, t, outcome) ==
  LET done == IF row[t].assignee = b
              THEN [row[t] EXCEPT !.status = outcome, !.assignee = None, !.updated = 0]
              ELSE row[t] IN
  IF row[t].status \notin Active THEN UNCHANGED server
  ELSE /\ row'  = [row EXCEPT ![t] =
                     IF outcome = "failed" /\ row[t].retry >= MaxRetries
                     THEN [done EXCEPT !.status = "escalated"] ELSE done]
       /\ load' = [load EXCEPT ![b] = @ - 1]
       /\ UNCHANGED <<presence, silence>>

\* POST complete: a report from anyone but the assignee leaves the row alone, but
\* still costs the caller a slot, and a failed one on the last attempt escalates.
Complete(b, t, outcome) ==
  LET done == IF row[t].assignee = b
              THEN [row[t] EXCEPT !.status = outcome, !.assignee = None, !.updated = 0]
              ELSE row[t] IN
  IF row[t].status \notin Active THEN UNCHANGED server
  ELSE /\ row'  = [row EXCEPT ![t] =
                     IF outcome = "failed" /\ row[t].retry >= MaxRetries
                     THEN [done EXCEPT !.status = "escalated"] ELSE done]
       /\ load' = [load EXCEPT ![b] = Decrement(@)]
       /\ UNCHANGED <<presence, silence>>

-----------------------------------------------------------------------------
(* The bridge's loop *)

Goto(b, at) == pc' = [pc EXCEPT ![b] = at]

\* Every tick of the ticker starts with a heartbeat that lists no active task.
SendHeartbeat(b) ==
  /\ pc[b] = "idle"
  /\ Goto(b, "poll")
  /\ \/ /\ load'     = [load EXCEPT ![b] = 0]
        /\ presence' = [presence EXCEPT ![b] = "idle"]
        /\ silence'  = [silence EXCEPT ![b] = 0]
        /\ UNCHANGED row
     \/ "heartbeat" \in Lossy /\ UNCHANGED server
  /\ UNCHANGED <<job, success, elapsed>>

\* Tasks GetQueue returns to b; the bridge takes the first.
Queue(b) == IF load[b] >= MaxTasks THEN {} ELSE {t \in Tasks : row[t].status = "available"}

PollQueue(b) ==
  /\ pc[b] = "poll"
  /\ \/ /\ Queue(b) = {} \/ "poll" \in Lossy
        /\ Goto(b, "idle")
        /\ UNCHANGED job
     \/ \E t \in Queue(b) : Goto(b, "claim") /\ job' = [job EXCEPT ![b] = t]
  /\ UNCHANGED <<server, success, elapsed>>

Drop(b) == Goto(b, "idle") /\ job' = [job EXCEPT ![b] = None]

\* claimTask returns nil for 200 and for 409; an error drops the task.
ClaimTask(b) ==
  /\ pc[b] = "claim"
  /\ \/ Claimable(job[b])  /\ Claim(b, job[b])  /\ Goto(b, "start") /\ UNCHANGED job
     \/ ~Claimable(job[b]) /\ UNCHANGED server /\ Goto(b, "start") /\ UNCHANGED job
     \/ /\ "claim" \in Lossy
        /\ \/ Claimable(job[b]) /\ Claim(b, job[b])
           \/ UNCHANGED server
        /\ Drop(b)
  /\ UNCHANGED <<success, elapsed>>

TryProgress(b) == Progress(b) \/ ("progress" \in Lossy /\ UNCHANGED server)

StartAgent(b) ==
  /\ pc[b] = "start"
  /\ TryProgress(b)
  /\ Goto(b, "agent")
  /\ elapsed' = [elapsed EXCEPT ![b] = 0]
  /\ UNCHANGED <<job, success>>

\* The agent succeeds (progress 80), or fails, times out or is cancelled (progress 90).
AgentReturns(b) ==
  /\ pc[b] = "agent"
  /\ TryProgress(b)
  /\ \E ok \in BOOLEAN :
       /\ success' = [success EXCEPT ![b] = ok]
       /\ Goto(b, IF ok THEN "build" ELSE "report")
  /\ elapsed' = [elapsed EXCEPT ![b] = 0]
  /\ UNCHANGED job

VerifyBuild(b) ==
  /\ pc[b] = "build"
  /\ TryProgress(b)
  /\ \E ok \in BOOLEAN : success' = [success EXCEPT ![b] = ok]
  /\ Goto(b, "report")
  /\ elapsed' = [elapsed EXCEPT ![b] = 0]
  /\ UNCHANGED job

Outcome(b) == IF success[b] THEN "done" ELSE "failed"

\* A report that fails is logged and forgotten.
ReportResult(b) ==
  /\ pc[b] = "report"
  /\ \/ Complete(b, job[b], Outcome(b))
     \/ "complete" \in Lossy /\ UNCHANGED server
  /\ Drop(b)
  /\ success' = [success EXCEPT ![b] = FALSE]
  /\ UNCHANGED elapsed

\* The process is killed; a shutdown by signal ends the agent run and reports it first.
Die(b) ==
  /\ b \in Mortal
  /\ pc[b] # "down"
  /\ pc'      = [pc EXCEPT ![b] = "down"]
  /\ job'     = [job EXCEPT ![b] = None]
  /\ success' = [success EXCEPT ![b] = FALSE]
  /\ elapsed' = [elapsed EXCEPT ![b] = 0]
  /\ UNCHANGED server

Start(b) ==
  /\ Restarts
  /\ pc[b] = "down"
  /\ Goto(b, "idle")
  /\ UNCHANGED <<server, job, success, elapsed>>

-----------------------------------------------------------------------------
(* The server's monitors and time *)

\* Mutant: the monitor misses tasks claimed but never started.
StaleSweepStarted(t) ==
  /\ row[t].status = "in_progress"
  /\ row[t].claimed >= ClaimTimeout /\ row[t].updated >= ProgressTimeout
  /\ row' = [row EXCEPT ![t] =
               IF @.retry < MaxRetries
               THEN [@ EXCEPT !.status = "available", !.assignee = None, !.retry = @ + 1]
               ELSE [@ EXCEPT !.status = "escalated", !.updated = 0]]
  /\ UNCHANGED <<agents, bridges>>

\* checkStaleTasks on one task.  A released row comes back without its assignee,
\* so only the escalation counts the holder down.
StaleSweep(t) ==
  LET holder == row[t].assignee IN
  /\ row[t].status \in Active
  /\ row[t].claimed >= ClaimTimeout /\ row[t].updated >= ProgressTimeout
  /\ \/ /\ row[t].retry < MaxRetries
        /\ row' = [row EXCEPT ![t] = [row[t] EXCEPT !.status = "available", !.assignee = None,
                                                    !.retry = @ + 1, !.updated = 0]]
        /\ UNCHANGED load
     \/ /\ row[t].retry >= MaxRetries
        /\ row'  = [row EXCEPT ![t] = [@ EXCEPT !.status = "escalated", !.updated = 0]]
        /\ load' = [load EXCEPT ![holder] = Decrement(@)]
  /\ UNCHANGED <<presence, silence, bridges>>

HealthWarn(b) ==
  /\ presence[b] \notin {"warning", "dead"}
  /\ silence[b] >= WarnAfter /\ silence[b] < DeadAfter
  /\ presence' = [presence EXCEPT ![b] = "warning"]
  /\ UNCHANGED <<row, load, silence, bridges>>

Backups(b) == {c \in Bridges \ {b} : presence[c] \in {"idle", "working"} /\ load[c] < MaxTasks}

\* A silent agent is dead: its tasks go to a backup's name and the queue, or become orphaned.
HealthDead(b) ==
  LET lost(t) == row[t].assignee = b /\ row[t].status \notin {"done", "available"} IN
  /\ presence[b] # "dead"
  /\ silence[b] >= DeadAfter
  /\ presence' = [presence EXCEPT ![b] = "dead"]
  /\ \E c \in IF Backups(b) = {} THEN {None} ELSE Backups(b) :
       row' = [t \in Tasks |->
                 IF ~lost(t) THEN row[t]
                 ELSE IF c = None THEN [row[t] EXCEPT !.status = "orphaned"]
                 ELSE [row[t] EXCEPT !.status = "available", !.assignee = c,
                                     !.retry = AtMost(@ + 1, MaxRetries)]]
  /\ UNCHANGED <<load, silence, bridges>>

\* No tick passes while a bridge is between two calls, or idle without a heartbeat sent.
Waiting(b) ==
  \/ pc[b] = "down"
  \/ pc[b] = "idle"  /\ silence[b] = 0
  \/ pc[b] = "agent" /\ elapsed[b] < AgentTimeout
  \/ pc[b] = "build" /\ elapsed[b] < BuildTime

\* Agents in beating have sent a heartbeat meanwhile.
Elapse(beating) ==
  /\ row'     = [t \in Tasks |-> [row[t] EXCEPT !.claimed = AtMost(@ + 1, ClaimTimeout),
                                               !.updated = AtMost(@ + 1, ProgressTimeout)]]
  /\ silence' = [b \in Bridges |-> IF b \in beating THEN 0 ELSE AtMost(silence[b] + 1, DeadAfter)]
  /\ elapsed' = [b \in Bridges |-> IF pc[b] \in {"agent", "build"} THEN elapsed[b] + 1 ELSE 0]
  /\ UNCHANGED <<load, presence, pc, job, success>>

Tick ==
  /\ \A b \in Bridges : Waiting(b)
  /\ Elapse({b \in Bridges : pc[b] = "idle"})

-----------------------------------------------------------------------------
Init ==
  /\ row = [t \in Tasks |-> [status |-> "available", assignee |-> None, retry |-> 0,
                             claimed |-> 0, updated |-> 0]]
  /\ load     = [b \in Bridges |-> 0]
  /\ presence = [b \in Bridges |-> "idle"]
  /\ silence  = [b \in Bridges |-> 0]
  /\ pc       = [b \in Bridges |-> "idle"]
  /\ job      = [b \in Bridges |-> None]
  /\ success  = [b \in Bridges |-> FALSE]
  /\ elapsed  = [b \in Bridges |-> 0]

BridgeStep(b) ==
  \/ SendHeartbeat(b) \/ PollQueue(b) \/ ClaimTask(b) \/ StartAgent(b)
  \/ AgentReturns(b) \/ VerifyBuild(b) \/ ReportResult(b)

Next ==
  \/ \E b \in Bridges : BridgeStep(b) \/ Die(b) \/ Start(b) \/ HealthWarn(b) \/ HealthDead(b)
  \/ \E t \in Tasks : StaleSweep(t)
  \/ Tick

Spec == Init /\ [][Next]_vars

(* A bridge's goroutine runs while its process does, main.go starts the stale *)
(* monitor on a ticker, and time passes: calls take seconds and the waits     *)
(* between them minutes, so there are always moments without a call.          *)
FairSpec ==
  /\ Spec
  /\ \A b \in Bridges : WF_vars(BridgeStep(b))
  /\ \A t \in Tasks : WF_vars(StaleSweep(t))
  /\ SF_vars(Tick)
  /\ []<>(\A b \in Bridges : Waiting(b))

-----------------------------------------------------------------------------
(* Types of the rows and of each bridge's locals.  The ranges of retry, of the *)
(* ages and of elapsed are where the model stops counting: the code increments *)
(* retry_count and lets time pass without a bound.                            *)
TypeOK ==
  /\ row \in [Tasks -> [status: {"available", "claimed", "in_progress", "done", "failed",
                                 "escalated", "orphaned"},
                        assignee: Bridges \cup {None}, retry: 0..MaxRetries,
                        claimed: 0..ClaimTimeout, updated: 0..ProgressTimeout]]
  /\ load     \in [Bridges -> Nat]
  /\ presence \in [Bridges -> {"idle", "working", "stopping", "warning", "dead"}]
  /\ silence  \in [Bridges -> 0..DeadAfter]
  /\ pc       \in [Bridges -> {"idle", "poll", "claim", "start", "agent", "build", "report",
                               "down"}]
  /\ job      \in [Bridges -> Tasks \cup {None}]
  /\ success  \in [Bridges -> BOOLEAN]
  /\ elapsed  \in [Bridges -> 0..(AgentTimeout + BuildTime)]

AtWork(b) == pc[b] \in {"start", "agent", "build", "report"}
HeldBy(b) == {t \in Tasks : row[t].status \in Active /\ row[t].assignee = b}

Ownership == INSTANCE TaskOwnership WITH
  Agents <- Bridges, Handovers <- {},
  holder <- [t \in Tasks |-> IF row[t].status \in Active THEN row[t].assignee ELSE None]

(* A task has one holder at a time: whatever monitors, late and refused calls *)
(* do, nobody gets a task while another holds it.                             *)
OwnershipSpec == Ownership!Spec

(* A task becomes done only through the bridge the server holds responsible,  *)
(* after its agent and its build succeeded, however many bridges worked on it.*)
DoneByHolder ==
  [][\A t \in Tasks :
       row[t].status # "done" /\ row'[t].status = "done" =>
         \E b \in Bridges : /\ pc[b] = "report" /\ job[b] = t /\ success[b]
                            /\ row[t].assignee = b]_vars

(* Every task settles: it is delivered, fails, or waits for the PM, although  *)
(* a bridge is killed at any point and another ignores refused claims.        *)
EveryTaskSettles ==
  \A t \in Tasks :
    row[t].status \in {"available"} \cup Active ~> row[t].status \notin {"available"} \cup Active

-----------------------------------------------------------------------------
(* Promises of the documents that the code does not keep; the README says how *)
(* each of them is broken.                                                   *)

(* A bridge works on what it holds: from the claim to the report the task is  *)
(* its own on the server, so no work is done twice and no report is refused.  *)
(* It holds for one bridge whose agent runs are shorter than both timeouts:   *)
(* nothing is sent during a run, and a refused claim counts as a claim.       *)
WorksOnOwnTask == \A b \in Bridges : AtWork(b) => job[b] \in HeldBy(b)

(* Capacity: an agent never holds more than max_tasks tasks.                  *)
CapacityRespected == \A b \in Bridges : Cardinality(HeldBy(b)) <= MaxTasks
=============================================================================
