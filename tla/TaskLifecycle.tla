--------------------------- MODULE TaskLifecycle ---------------------------
(***************************************************************************)
(* The task table and the agent table of the Agent Hub server, and every   *)
(* program that writes them: the HTTP handlers of internal/task and        *)
(* internal/agent, the stale-task monitor and the agent health monitor.    *)
(*                                                                         *)
(* Gin serves each request in a goroutine of its own and the handlers run  *)
(* several SQL statements without a transaction, so one action here is one *)
(* SQL statement; what a handler remembers between two statements is its   *)
(* record req[g].  The reads of one row that a single statement makes are  *)
(* one step.  A call whose checks fail answers 4xx and changes nothing: it *)
(* is the absence of a step.                                               *)
(***************************************************************************)
EXTENDS Integers, FiniteSets

CONSTANTS
  Tasks,          \* task ids (UUIDs: never reused)
  Agents,         \* agent names
  Handlers,       \* goroutines serving requests: how many calls may overlap
  None,           \* SQL NULL
  Role,           \* role of each agent
  MaxRetries,     \* tasks.max_retries
  MaxTasks,       \* agents.max_tasks
  Calls,          \* the operations this instance exercises
  PMStatuses,     \* statuses the PM writes by hand through PATCH
  PMAssignees,    \* assignees the PM writes by hand through POST or PATCH
  FlakyAgents,    \* agents whose heartbeats may stop
  ReportedLoads,  \* len(active_tasks) values agents send in heartbeats
  RetryBound,     \* bound: calls that raise retry_count start below it
  LoadBound       \* bound: claims start while current_tasks is below it

Operations ==
  {"create", "patch", "delete", "escalate", "release",
   "claim", "progress", "complete", "review", "test",
   "heartbeat", "register", "unregister", "stale", "health", "fail", "restart"}

ASSUME ConstantsAssumption ==
  /\ None \notin Tasks \cup Agents
  /\ DOMAIN Role = Agents
  /\ MaxRetries \in Nat /\ MaxTasks \in Nat
  /\ RetryBound \in Nat /\ LoadBound \in Nat
  /\ Calls \subseteq Operations
  /\ PMAssignees \subseteq Agents /\ FlakyAgents \subseteq Agents
  /\ ReportedLoads \subseteq Nat

NoRow  == {"unborn", "deleted"}
Active == {"claimed", "in_progress"}
Statuses ==
  NoRow \cup Active \cup
  {"available", "assigned", "orphaned", "blocked", "done", "review", "test",
   "needs_fix", "fix_in_progress", "gate_decision", "failed", "escalated",
   "deployed", "cancelled"}

ASSUME PMStatusesAssumption == PMStatuses \subseteq Statuses \ NoRow

VARIABLES
  status,    \* tasks.status, or a member of NoRow
  assignee,  \* tasks.assignee
  retry,     \* tasks.retry_count
  clock,     \* claimed_at and updated_at: "null" claimed_at IS NULL, "stale" both
             \* older than their timeouts, "fresh" otherwise
  presence,  \* agents.status ("up" is idle or working), or "absent"
  current,   \* agents.current_tasks
  beat,      \* age of last_heartbeat: "none" NULL, "fresh", "late" >15m, "lost" >30m
  req,       \* what each handler goroutine is about to execute
  sweep,     \* the stale monitor: next pass, rows still to be counted down
  health     \* the health monitor: agents to examine, tasks to move

taskRows  == <<status, assignee, retry, clock>>
agentRows == <<presence, current, beat>>
monitors  == <<sweep, health>>
vars      == <<taskRows, agentRows, req, monitors>>

-----------------------------------------------------------------------------
(* Helpers *)

ValidTransitions ==
  [available       |-> {"claimed"},
   assigned        |-> {"claimed"},
   orphaned        |-> {"claimed"},
   claimed         |-> {"in_progress", "done", "review", "available", "failed"},
   in_progress     |-> {"done", "review", "needs_fix", "failed", "gate_decision"},
   done            |-> {"review", "test", "needs_fix", "escalated", "gate_decision"},
   review          |-> {"done", "test", "needs_fix", "gate_decision"},
   needs_fix       |-> {"in_progress", "claimed", "failed"},
   fix_in_progress |-> {"done", "needs_fix"},
   test            |-> {"deployed", "needs_fix", "gate_decision"},
   failed          |-> {"escalated"},
   gate_decision   |-> {"done", "needs_fix"}]

IsValidTransition(from, to) ==
  from \in DOMAIN ValidTransitions /\ to \in ValidTransitions[from]

Row(t) == status[t] \notin NoRow

\* updated_at = NOW() makes the row fresh again; claimed_at stays NULL if it was.
Touched(t) == IF clock[t] = "null" THEN "null" ELSE "fresh"

SetTask(t, s, w, n, c) ==
  /\ status'   = [status EXCEPT ![t] = s]
  /\ assignee' = [assignee EXCEPT ![t] = w]
  /\ retry'    = [retry EXCEPT ![t] = n]
  /\ clock'    = [clock EXCEPT ![t] = c]

\* UPDATE agents SET current_tasks = current_tasks + 1 WHERE name = a
CountUp(a) ==
  /\ current' = IF presence[a] = "absent" THEN current
                ELSE [current EXCEPT ![a] = @ + 1]
  /\ UNCHANGED <<presence, beat>>

\* Mutant: the decrement without GREATEST(..., 0).
CountDownUnfloored(a) ==
  /\ current' = IF presence[a] = "absent" THEN current
                ELSE [current EXCEPT ![a] = @ - 1]
  /\ UNCHANGED <<presence, beat>>

\* UPDATE agents SET current_tasks = GREATEST(current_tasks - 1, 0) WHERE name = a
CountDown(a) ==
  /\ current' = IF presence[a] = "absent" \/ current[a] = 0 THEN current
                ELSE [current EXCEPT ![a] = @ - 1]
  /\ UNCHANGED <<presence, beat>>

Idle == [at |-> "idle", t |-> None, a |-> None, st |-> "unborn", who |-> None]

\* Goroutine g has executed the first statement of a call on task t by agent a:
\* at names its next statement, st the status it carries, who the assignee it read.
Enter(g, at, t, a, st, who) ==
  /\ req[g] = Idle
  /\ req' = [req EXCEPT ![g] = [at |-> at, t |-> t, a |-> a, st |-> st, who |-> who]]

\* Where a handler record can be: between two calls, or before a statement.
Steps ==
  {"idle", "release.requeue", "release.escalate", "release.count",
   "delete.status", "delete.count", "delete.row",
   "claim.update", "claim.count", "progress.start",
   "complete.update", "complete.count", "retry.check", "retry.escalate",
   "review.update", "test.update", "test.assignee", "test.count"}

Goto(g, at) == req' = [req EXCEPT ![g].at = at]
Reply(g)    == req' = [req EXCEPT ![g] = Idle]

Registered(a) == presence[a] # "absent"

-----------------------------------------------------------------------------
(* PM calls: POST /tasks, PATCH, escalate, release, DELETE *)

CreateTask(t) ==
  /\ "create" \in Calls
  /\ status[t] = "unborn"
  /\ \/ SetTask(t, "available", None, 0, "null")
     \/ \E a \in PMAssignees : SetTask(t, "assigned", a, 0, "null")
  /\ UNCHANGED <<agentRows, req, monitors>>

UpdateTask(t) ==
  /\ "patch" \in Calls
  /\ Row(t)
  /\ \E s \in PMStatuses \cup {status[t]}, w \in PMAssignees \cup {assignee[t]} :
       SetTask(t, s, w, retry[t], Touched(t))
  /\ UNCHANGED <<agentRows, req, monitors>>

EscalateTask(t) ==
  /\ "escalate" \in Calls
  /\ Row(t)
  /\ SetTask(t, "escalated", assignee[t], retry[t], Touched(t))
  /\ UNCHANGED <<agentRows, req, monitors>>

Releasable == {"claimed", "in_progress", "orphaned"}

ReleaseRead(g, t) ==
  /\ "release" \in Calls
  /\ status[t] \in Releasable
  /\ IF retry[t] >= MaxRetries
     THEN Enter(g, "release.escalate", t, None, "escalated", assignee[t])
     ELSE Enter(g, "release.requeue", t, None, "available", assignee[t])
  /\ UNCHANGED <<taskRows, agentRows, monitors>>

\* Both UPDATEs of ReleaseTask select the row by id only.
ReleaseUpdate(g) ==
  LET t == req[g].t IN
  /\ \/ /\ req[g].at = "release.requeue"
        /\ Row(t)
        /\ SetTask(t, "available", None, retry[t] + 1, "null")
     \/ /\ req[g].at = "release.escalate"
        /\ Row(t)
        /\ SetTask(t, "escalated", assignee[t], retry[t], Touched(t))
     \/ /\ req[g].at \in {"release.requeue", "release.escalate"}
        /\ ~Row(t)
        /\ UNCHANGED taskRows
  /\ IF req[g].who = None THEN Reply(g) ELSE Goto(g, "release.count")
  /\ UNCHANGED <<agentRows, monitors>>

ReleaseCount(g) ==
  /\ req[g].at = "release.count"
  /\ CountDown(req[g].who)
  /\ Reply(g)
  /\ UNCHANGED <<taskRows, monitors>>

DeleteRead(g, t) ==
  /\ "delete" \in Calls
  /\ Row(t)
  /\ Enter(g, "delete.status", t, None, "deleted", assignee[t])
  /\ UNCHANGED <<taskRows, agentRows, monitors>>

DeleteStatus(g) ==
  /\ req[g].at = "delete.status"
  /\ LET counted == /\ req[g].who # None
                    /\ Row(req[g].t)
                    /\ status[req[g].t] \notin {"deployed", "failed", "escalated"}
     IN Goto(g, IF counted THEN "delete.count" ELSE "delete.row")
  /\ UNCHANGED <<taskRows, agentRows, monitors>>

DeleteCount(g) ==
  /\ req[g].at = "delete.count"
  /\ CountDown(req[g].who)
  /\ Goto(g, "delete.row")
  /\ UNCHANGED <<taskRows, monitors>>

DeleteRow(g) ==
  /\ req[g].at = "delete.row"
  /\ SetTask(req[g].t, "deleted", None, 0, "null")
  /\ Reply(g)
  /\ UNCHANGED <<agentRows, monitors>>

-----------------------------------------------------------------------------
(* Agent calls: claim, progress, complete *)

ClaimRead(g, t, a) ==
  /\ "claim" \in Calls
  /\ Registered(a)
  /\ current[a] < LoadBound
  /\ IsValidTransition(status[t], "claimed")
  /\ Enter(g, "claim.update", t, a, status[t], None)
  /\ UNCHANGED <<taskRows, agentRows, monitors>>

\* Mutant: the claim's UPDATE selects the row by id only.
ClaimUpdateById(g) ==
  /\ req[g].at = "claim.update"
  /\ SetTask(req[g].t, "claimed", req[g].a, retry[req[g].t], "fresh")
  /\ Goto(g, "claim.count")
  /\ UNCHANGED <<agentRows, monitors>>

\* UPDATE ... WHERE id = t AND status = <the status read>; no row means 409.
ClaimUpdate(g) ==
  LET t == req[g].t IN
  /\ req[g].at = "claim.update"
  /\ \/ /\ status[t] = req[g].st
        /\ SetTask(t, "claimed", req[g].a, retry[t], "fresh")
        /\ Goto(g, "claim.count")
     \/ /\ status[t] # req[g].st
        /\ UNCHANGED taskRows
        /\ Reply(g)
  /\ UNCHANGED <<agentRows, monitors>>

ClaimCount(g) ==
  /\ req[g].at = "claim.count"
  /\ CountUp(req[g].a)
  /\ Reply(g)
  /\ UNCHANGED <<taskRows, monitors>>

ProgressTouch(g, t, a) ==
  /\ "progress" \in Calls
  /\ Registered(a)
  /\ Enter(g, "progress.start", t, a, "in_progress", None)
  /\ IF assignee[t] = a /\ status[t] \in Active \cup {"needs_fix", "fix_in_progress"}
     THEN SetTask(t, status[t], assignee[t], retry[t], Touched(t))
     ELSE UNCHANGED taskRows
  /\ UNCHANGED <<agentRows, monitors>>

\* Mutant: progress starts the task whoever the assignee is.
ProgressStartById(g) ==
  LET t == req[g].t IN
  /\ req[g].at = "progress.start"
  /\ SetTask(t, "in_progress", assignee[t], retry[t], Touched(t))
  /\ Reply(g)
  /\ UNCHANGED <<agentRows, monitors>>

ProgressStart(g) ==
  LET t == req[g].t IN
  /\ req[g].at = "progress.start"
  /\ IF assignee[t] = req[g].a /\ status[t] = "claimed"
     THEN SetTask(t, "in_progress", assignee[t], retry[t], Touched(t))
     ELSE UNCHANGED taskRows
  /\ Reply(g)
  /\ UNCHANGED <<agentRows, monitors>>

\* CompleteRequest.status, and the task status CompleteTask derives from it.
Outcomes == {"done", "failed", "blocked", "needs_fix", "gate_decision"}
NewStatus(outcome) ==
  CASE outcome = "blocked"       -> "escalated"
    [] outcome = "gate_decision" -> "done"
    [] OTHER                     -> outcome

CompleteRead(g, t, a, outcome) ==
  /\ "complete" \in Calls
  /\ Registered(a)
  /\ IsValidTransition(status[t], NewStatus(outcome))
  /\ Enter(g, "complete.update", t, a, NewStatus(outcome), None)
  /\ UNCHANGED <<taskRows, agentRows, monitors>>

\* Mutant: the completion's UPDATE asks for some assignee, not for its caller.
CompleteUpdateAssigned(g) ==
  LET t == req[g].t IN
  /\ req[g].at = "complete.update"
  /\ IF assignee[t] # None
     THEN SetTask(t, req[g].st, None, retry[t], Touched(t))
     ELSE UNCHANGED taskRows
  /\ Goto(g, "complete.count")
  /\ UNCHANGED <<agentRows, monitors>>

\* UPDATE ... WHERE id = t AND assignee = a: nobody looks at the row count.
CompleteUpdate(g) ==
  LET t == req[g].t IN
  /\ req[g].at = "complete.update"
  /\ IF assignee[t] = req[g].a
     THEN SetTask(t, req[g].st, None, retry[t], Touched(t))
     ELSE UNCHANGED taskRows
  /\ Goto(g, "complete.count")
  /\ UNCHANGED <<agentRows, monitors>>

CompleteCount(g) ==
  /\ req[g].at = "complete.count"
  /\ CountDown(req[g].a)
  /\ IF req[g].st = "failed" THEN Goto(g, "retry.check") ELSE Reply(g)
  /\ UNCHANGED <<taskRows, monitors>>

\* SELECT retry_count, max_retries; then, in a second statement, escalate.  When
\* the row is gone both variables keep their zero value.
RetryCheck(g) ==
  /\ req[g].at = "retry.check"
  /\ IF ~Row(req[g].t) \/ retry[req[g].t] >= MaxRetries THEN Goto(g, "retry.escalate") ELSE Reply(g)
  /\ UNCHANGED <<taskRows, agentRows, monitors>>

RetryEscalate(g) ==
  LET t == req[g].t IN
  /\ req[g].at = "retry.escalate"
  /\ IF Row(t) THEN SetTask(t, "escalated", assignee[t], retry[t], clock[t])
               ELSE UNCHANGED taskRows
  /\ Reply(g)
  /\ UNCHANGED <<agentRows, monitors>>

-----------------------------------------------------------------------------
(* Agent calls: review and test verdicts *)

ReviewRead(g, t, a) ==
  /\ "review" \in Calls
  /\ Registered(a)
  /\ \/ /\ IsValidTransition(status[t], "test")
        /\ Enter(g, "review.update", t, a, "test", None)
     \/ /\ IsValidTransition(status[t], "escalated")
        /\ Enter(g, "review.update", t, a, "escalated", None)
     \/ /\ \/ IsValidTransition(status[t], "needs_fix")
           \/ IsValidTransition(status[t], "fix_in_progress")
        /\ retry[t] < RetryBound
        /\ \E st \in {"needs_fix", "fix_in_progress"} :
             Enter(g, "review.update", t, a, st, None)
  /\ UNCHANGED <<taskRows, agentRows, monitors>>

\* A minor verdict asks for "fix_in_progress" and does not cost a retry.
ReviewUpdate(g) ==
  LET t  == req[g].t
      st == req[g].st
  IN
  /\ req[g].at = "review.update"
  /\ IF status[t] \in {"review", "done"}
     THEN SetTask(t, st, assignee[t],
                  IF st = "needs_fix" THEN retry[t] + 1 ELSE retry[t], Touched(t))
     ELSE UNCHANGED taskRows
  /\ IF st \in {"needs_fix", "fix_in_progress"} THEN Goto(g, "retry.check") ELSE Reply(g)
  /\ UNCHANGED <<agentRows, monitors>>

TestRead(g, t, a) ==
  /\ "test" \in Calls
  /\ Registered(a)
  /\ \/ /\ IsValidTransition(status[t], "deployed")
        /\ Enter(g, "test.update", t, a, "deployed", None)
     \/ /\ \/ IsValidTransition(status[t], "needs_fix")
           \/ IsValidTransition(status[t], "fix_in_progress")
        /\ retry[t] < RetryBound
        /\ Enter(g, "test.update", t, a, "needs_fix", None)
  /\ UNCHANGED <<taskRows, agentRows, monitors>>

TestUpdate(g) ==
  LET t  == req[g].t
      st == req[g].st
  IN
  /\ req[g].at = "test.update"
  /\ IF status[t] = "test"
     THEN SetTask(t, st, assignee[t],
                  IF st = "needs_fix" THEN retry[t] + 1 ELSE retry[t], Touched(t))
     ELSE UNCHANGED taskRows
  /\ Goto(g, "test.assignee")
  /\ UNCHANGED <<agentRows, monitors>>

AfterTest(g) == IF req[g].st = "needs_fix" THEN Goto(g, "retry.check") ELSE Reply(g)

\* SELECT COALESCE(assignee, ''): the counter of whoever is the assignee now.
TestAssignee(g) ==
  /\ req[g].at = "test.assignee"
  /\ IF assignee[req[g].t] = None
     THEN AfterTest(g)
     ELSE req' = [req EXCEPT ![g].at = "test.count", ![g].who = assignee[req[g].t]]
  /\ UNCHANGED <<taskRows, agentRows, monitors>>

TestCount(g) ==
  /\ req[g].at = "test.count"
  /\ CountDown(req[g].who)
  /\ AfterTest(g)
  /\ UNCHANGED <<taskRows, monitors>>

-----------------------------------------------------------------------------
(* Agent rows: registration, heartbeat, deletion *)

\* A name is registered at most once in a behaviour: beat tells a deleted row apart.
RegisterAgent(a) ==
  /\ "register" \in Calls
  /\ presence[a] = "absent" /\ beat[a] = "none"
  /\ presence' = [presence EXCEPT ![a] = "up"]
  /\ current'  = [current EXCEPT ![a] = 0]
  /\ UNCHANGED <<beat, taskRows, req, monitors>>

\* The heartbeat overwrites the counter with the length of the reported list.
Heartbeat(a) ==
  /\ "heartbeat" \in Calls
  /\ Registered(a)
  /\ \E p \in {"up", "error"}, n \in ReportedLoads :
       /\ presence' = [presence EXCEPT ![a] = p]
       /\ current'  = [current EXCEPT ![a] = n]
  /\ beat' = [beat EXCEPT ![a] = "fresh"]
  /\ UNCHANGED <<taskRows, req, monitors>>

\* Mutant: the tasks of a deleted agent lose their assignee and keep their status.
DeleteAgentKeepsStatus(a) ==
  /\ "unregister" \in Calls
  /\ Registered(a)
  /\ presence' = [presence EXCEPT ![a] = "absent"]
  /\ current'  = [current EXCEPT ![a] = 0]
  /\ beat'     = [beat EXCEPT ![a] = "lost"]
  /\ assignee' = [t \in Tasks |-> IF assignee[t] = a THEN None ELSE assignee[t]]
  /\ UNCHANGED <<status, retry, clock, req, monitors>>

\* One transaction: the agent row goes, all its tasks become available.
DeleteAgent(a) ==
  /\ "unregister" \in Calls
  /\ Registered(a)
  /\ presence' = [presence EXCEPT ![a] = "absent"]
  /\ current'  = [current EXCEPT ![a] = 0]
  /\ beat'     = [beat EXCEPT ![a] = "lost"]
  /\ status'   = [t \in Tasks |-> IF assignee[t] = a THEN "available" ELSE status[t]]
  /\ assignee' = [t \in Tasks |-> IF assignee[t] = a THEN None ELSE assignee[t]]
  /\ UNCHANGED <<retry, clock, req, monitors>>

-----------------------------------------------------------------------------
(* checkStaleTasks: two UPDATE ... RETURNING passes, each followed by a loop *)

Stale(t) == status[t] \in Active /\ clock[t] = "stale"

\* RETURNING yields the columns of the rows as they are after the UPDATE.
ReturnedRows(T) == {<<t, assignee'[t]>> : t \in {u \in T : assignee'[u] # None}}

SweepRelease ==
  LET T == {t \in Tasks : Stale(t) /\ retry[t] < MaxRetries} IN
  /\ "stale" \in Calls
  /\ sweep = [pass |-> "release", rows |-> {}]
  /\ status'   = [t \in Tasks |-> IF t \in T THEN "available" ELSE status[t]]
  /\ assignee' = [t \in Tasks |-> IF t \in T THEN None ELSE assignee[t]]
  /\ retry'    = [t \in Tasks |-> IF t \in T THEN retry[t] + 1 ELSE retry[t]]
  /\ clock'    = [t \in Tasks |-> IF t \in T THEN "null" ELSE clock[t]]
  /\ sweep'    = [pass |-> "escalate", rows |-> ReturnedRows(T)]
  /\ UNCHANGED <<agentRows, req, health>>

\* Mutant: the second pass misses the rows at the limit itself.
SweepEscalateOffByOne ==
  LET T == {t \in Tasks : Stale(t) /\ retry[t] > MaxRetries} IN
  /\ sweep = [pass |-> "escalate", rows |-> {}]
  /\ status' = [t \in Tasks |-> IF t \in T THEN "escalated" ELSE status[t]]
  /\ clock'  = [t \in Tasks |-> IF t \in T THEN "fresh" ELSE clock[t]]
  /\ UNCHANGED <<assignee, retry>>
  /\ sweep'  = [pass |-> "release", rows |-> ReturnedRows(T)]
  /\ UNCHANGED <<agentRows, req, health>>

SweepEscalate ==
  LET T == {t \in Tasks : Stale(t) /\ retry[t] >= MaxRetries} IN
  /\ sweep = [pass |-> "escalate", rows |-> {}]
  /\ status' = [t \in Tasks |-> IF t \in T THEN "escalated" ELSE status[t]]
  /\ clock'  = [t \in Tasks |-> IF t \in T THEN "fresh" ELSE clock[t]]
  /\ UNCHANGED <<assignee, retry>>
  /\ sweep'  = [pass |-> "release", rows |-> ReturnedRows(T)]
  /\ UNCHANGED <<agentRows, req, health>>

SweepCount ==
  /\ \E row \in sweep.rows :
       /\ CountDown(row[2])
       /\ sweep' = [sweep EXCEPT !.rows = @ \ {row}]
  /\ UNCHANGED <<taskRows, req, health>>

-----------------------------------------------------------------------------
(* StartHealthMonitor: one tick examines the agents its query returned *)

NoScan == [at |-> "rest", todo |-> {}, who |-> None, tasks |-> {}, t |-> None, b |-> None]

\* Agents never heard of, and agents heard of in the last 15 minutes, are skipped.
HealthScan ==
  /\ "health" \in Calls
  /\ health = NoScan
  /\ LET due == {a \in Agents : /\ presence[a] \notin {"dead", "absent"}
                                /\ beat[a] \in {"late", "lost"}}
     IN /\ due # {}
        /\ health' = [health EXCEPT !.at = "agent", !.todo = {<<a, beat[a]>> : a \in due}]
  /\ UNCHANGED <<taskRows, agentRows, req, sweep>>

NextAgent(todo) == IF todo = {} THEN NoScan ELSE [NoScan EXCEPT !.at = "agent", !.todo = todo]

SetPresence(a, p) ==
  /\ presence' = IF presence[a] = "absent" THEN presence
                 ELSE [presence EXCEPT ![a] = p]
  /\ UNCHANGED <<current, beat>>

HealthWarn ==
  /\ health.at = "agent"
  /\ \E a \in Agents :
       /\ <<a, "late">> \in health.todo
       /\ SetPresence(a, "warning")
       /\ health' = NextAgent(health.todo \ {<<a, "late">>})
  /\ UNCHANGED <<taskRows, req, sweep>>

HealthDead ==
  /\ health.at = "agent"
  /\ \E a \in Agents :
       /\ <<a, "lost">> \in health.todo
       /\ SetPresence(a, "dead")
       /\ health' = [health EXCEPT !.at = "select", !.who = a,
                                   !.todo = @ \ {<<a, "lost">>}]
  /\ UNCHANGED <<taskRows, req, sweep>>

\* Where the loop over taskIDs goes when T is left.
NextMove(T) ==
  IF T = {} THEN NextAgent(health.todo)
  ELSE [health EXCEPT !.at = "backup", !.tasks = T, !.t = None, !.b = None]

HealthSelect ==
  /\ health.at = "select"
  /\ health' = NextMove({t \in Tasks : /\ assignee[t] = health.who
                                       /\ status[t] \notin {"done", "deployed", "cancelled",
                                                            "available"}})
  /\ UNCHANGED <<taskRows, agentRows, req, sweep>>

BackupsFor(a) ==
  IF presence[a] = "absent" THEN {}
  ELSE {b \in Agents \ {a} : /\ Role[b] = Role[a]
                             /\ presence[b] = "up"
                             /\ current[b] < MaxTasks}

\* ORDER BY current_tasks ASC LIMIT 1
LeastLoaded(B) == {b \in B : \A c \in B : current[b] <= current[c]}

HealthBackup ==
  LET B == BackupsFor(health.who) IN
  /\ health.at = "backup"
  /\ \E t \in health.tasks, b \in (IF B = {} THEN {None} ELSE LeastLoaded(B)) :
       /\ B # {} => retry[t] < RetryBound
       /\ health' = [health EXCEPT !.at = "place", !.t = t, !.b = b]
  /\ UNCHANGED <<taskRows, agentRows, req, sweep>>

\* Mutant: the backup becomes the assignee without a claim of its own.
HealthPlaceDirectly ==
  LET t == health.t IN
  /\ health.at = "place"
  /\ \/ ~Row(t) /\ UNCHANGED taskRows
     \/ /\ Row(t) /\ health.b # None
        /\ SetTask(t, status[t], health.b, retry[t] + 1, clock[t])
     \/ /\ Row(t) /\ health.b = None
        /\ SetTask(t, "orphaned", assignee[t], retry[t], clock[t])
  /\ health' = NextMove(health.tasks \ {t})
  /\ UNCHANGED <<agentRows, req, sweep>>

\* Both UPDATEs select the row by id only; neither touches updated_at.
HealthPlace ==
  LET t == health.t IN
  /\ health.at = "place"
  /\ \/ ~Row(t) /\ UNCHANGED taskRows
     \/ /\ Row(t) /\ health.b # None
        /\ SetTask(t, "available", health.b, retry[t] + 1, clock[t])
     \/ /\ Row(t) /\ health.b = None
        /\ SetTask(t, "orphaned", assignee[t], retry[t], clock[t])
  /\ health' = NextMove(health.tasks \ {t})
  /\ UNCHANGED <<agentRows, req, sweep>>

-----------------------------------------------------------------------------
(* Time, failures, and the next-state relation *)

\* Both timeouts of a claimed row pass without a write to updated_at.
Quiet(t) ==
  /\ "stale" \in Calls
  /\ clock[t] = "fresh" /\ status[t] \in Active
  /\ clock' = [clock EXCEPT ![t] = "stale"]
  /\ UNCHANGED <<status, assignee, retry, agentRows, req, monitors>>

Silent(a) ==
  /\ "health" \in Calls
  /\ Registered(a) /\ a \in FlakyAgents
  /\ \/ beat[a] = "fresh" /\ beat' = [beat EXCEPT ![a] = "late"]
     \/ beat[a] = "late"  /\ beat' = [beat EXCEPT ![a] = "lost"]
  /\ UNCHANGED <<presence, current, taskRows, req, monitors>>

\* Statements whose error nobody looks at, and the step the handler goes on with.
\* A failed SELECT leaves 0 in both retry variables, which counts as exhausted.
Ignores(r, at) ==
  \/ at = "release.count"  /\ r.at = "release.escalate" /\ r.who # None
  \/ at = "delete.row"     /\ r.at \in {"delete.status", "delete.count"}
  \/ at = "test.assignee"  /\ r.at = "test.update"
  \/ at = "retry.escalate" /\ r.at = "retry.check"
  \/ /\ at = "retry.check"
     /\ \/ r.at = "complete.count" /\ r.st = "failed"
        \/ r.at = "review.update" /\ r.st \in {"needs_fix", "fix_in_progress"}
        \/ r.at \in {"test.assignee", "test.count"} /\ r.st = "needs_fix"

\* A statement fails: the handler answers 500, has nothing left to do, or ignores it.
Fail(g) ==
  /\ "fail" \in Calls
  /\ req[g] # Idle
  /\ Reply(g) \/ \E at \in Steps : Ignores(req[g], at) /\ Goto(g, at)
  /\ UNCHANGED <<taskRows, agentRows, monitors>>

\* A pass of the stale monitor fails and is skipped, or one of its decrements is lost.
SweepFail ==
  /\ "fail" \in Calls /\ "stale" \in Calls
  /\ IF sweep.rows # {}
     THEN \E row \in sweep.rows : sweep' = [sweep EXCEPT !.rows = @ \ {row}]
     ELSE sweep' = [sweep EXCEPT !.pass = IF @ = "release" THEN "escalate" ELSE "release"]
  /\ UNCHANGED <<taskRows, agentRows, req, health>>

\* The health monitor ignores every error: a failed query finds no task, or no backup.
HealthFail ==
  /\ "fail" \in Calls
  /\ \/ /\ health.at = "agent"
        /\ \E due \in health.todo :
             health' = IF due[2] = "late" THEN NextAgent(health.todo \ {due})
                       ELSE [health EXCEPT !.at = "select", !.who = due[1],
                                           !.todo = @ \ {due}]
     \/ health.at = "select" /\ health' = NextMove({})
     \/ /\ health.at = "backup"
        /\ \E t \in health.tasks : health' = [health EXCEPT !.at = "place", !.t = t]
     \/ health.at = "place" /\ health' = NextMove(health.tasks \ {health.t})
  /\ UNCHANGED <<taskRows, agentRows, req, sweep>>

\* The server process stops and starts again on the same database.
Restart ==
  /\ "restart" \in Calls
  /\ req'    = [g \in Handlers |-> Idle]
  /\ sweep'  = [pass |-> "release", rows |-> {}]
  /\ health' = NoScan
  /\ UNCHANGED <<taskRows, agentRows>>

Init ==
  /\ status   = [t \in Tasks |-> "unborn"]
  /\ assignee = [t \in Tasks |-> None]
  /\ retry    = [t \in Tasks |-> 0]
  /\ clock    = [t \in Tasks |-> "null"]
  /\ presence = [a \in Agents |-> IF "register" \in Calls THEN "absent" ELSE "up"]
  /\ current  = [a \in Agents |-> 0]
  /\ beat     = [a \in Agents |-> "none"]
  /\ req      = [g \in Handlers |-> Idle]
  /\ sweep    = [pass |-> "release", rows |-> {}]
  /\ health   = NoScan

PMStep ==
  \E t \in Tasks :
    \/ CreateTask(t) \/ UpdateTask(t) \/ EscalateTask(t)
    \/ \E g \in Handlers : ReleaseRead(g, t) \/ DeleteRead(g, t)

AgentStep ==
  \E g \in Handlers, t \in Tasks, a \in Agents :
    \/ ClaimRead(g, t, a) \/ ProgressTouch(g, t, a)
    \/ ReviewRead(g, t, a) \/ TestRead(g, t, a)
    \/ \E outcome \in Outcomes : CompleteRead(g, t, a, outcome)

HandlerStep(g) ==
  \/ ReleaseUpdate(g) \/ ReleaseCount(g)
  \/ DeleteStatus(g) \/ DeleteCount(g) \/ DeleteRow(g)
  \/ ClaimUpdate(g) \/ ClaimCount(g) \/ ProgressStart(g)
  \/ CompleteUpdate(g) \/ CompleteCount(g)
  \/ RetryCheck(g) \/ RetryEscalate(g)
  \/ ReviewUpdate(g)
  \/ TestUpdate(g) \/ TestAssignee(g) \/ TestCount(g)

AgentRowStep == \E a \in Agents : RegisterAgent(a) \/ Heartbeat(a) \/ DeleteAgent(a)

SweepStep  == SweepRelease \/ SweepEscalate \/ SweepCount \/ SweepFail
HealthStep == \/ HealthScan \/ HealthWarn \/ HealthDead \/ HealthSelect
              \/ HealthBackup \/ HealthPlace \/ HealthFail

Passing == (\E t \in Tasks : Quiet(t)) \/ (\E a \in Agents : Silent(a))

Next ==
  \/ PMStep \/ AgentStep
  \/ \E g \in Handlers : HandlerStep(g) \/ Fail(g)
  \/ AgentRowStep \/ SweepStep \/ HealthStep \/ Passing \/ Restart

Spec == Init /\ [][Next]_vars

-----------------------------------------------------------------------------
(* Types *)

Request ==
  [at: Steps, t: Tasks \cup {None}, a: Agents \cup {None}, st: Statuses,
   who: Agents \cup {None}]

Scan ==
  [at: {"rest", "agent", "select", "backup", "place"},
   todo: SUBSET (Agents \X {"late", "lost"}), who: Agents \cup {None},
   tasks: SUBSET Tasks, t: Tasks \cup {None}, b: Agents \cup {None}]

(* Type correctness of every row, counter and handler record. *)
TypeOK ==
  /\ status   \in [Tasks -> Statuses]
  /\ assignee \in [Tasks -> Agents \cup {None}]
  /\ retry    \in [Tasks -> Nat]
  /\ clock    \in [Tasks -> {"null", "fresh", "stale"}]
  /\ presence \in [Agents -> {"up", "error", "warning", "dead", "absent"}]
  /\ current  \in [Agents -> Nat]
  /\ beat     \in [Agents -> {"none", "fresh", "late", "lost"}]
  /\ req      \in [Handlers -> Request]
  /\ sweep    \in [pass: {"release", "escalate"}, rows: SUBSET (Tasks \X Agents)]
  /\ health   \in Scan

-----------------------------------------------------------------------------
(* Safety *)

Held(a) == {t \in Tasks : status[t] \in Active /\ assignee[t] = a}

(* A claimed or in-progress task always has an assignee: no interleaving of   *)
(* claims, completions, releases and the two monitors leaves work running     *)
(* that nobody owns (the PM may still write such a row by hand).              *)
OwnedWhileActive == \A t \in Tasks : status[t] \in Active => assignee[t] \in Agents

(* ClaimTask's "Atomic claim" comment: a task a worker holds goes to another  *)
(* worker only after it was given back, whatever the claimer read earlier.    *)
Holder(t) == IF status[t] \in Active THEN assignee[t] ELSE None
Ownership ==
  INSTANCE TaskOwnership WITH
    holder    <- [t \in Tasks |-> Holder(t)],
    Handovers <- IF "patch" \in Calls THEN PMAssignees ELSE {}
OwnershipSpec == Ownership!Spec

(* Only the current assignee delivers: a task becomes done or failed by the   *)
(* completion of the agent that the row names at that moment, and loses it,   *)
(* however late a report arrives and whoever has claimed the task meanwhile   *)
(* (CompleteTask's WHERE assignee clause).                                    *)
Delivered == {"done", "failed"}
DeliveredBy(g, t) ==
  /\ req[g].at = "complete.update" /\ req'[g].at = "complete.count" /\ req[g].t = t
  /\ req[g].a \in Agents /\ assignee[t] = req[g].a /\ assignee'[t] = None
DeliveredByAssignee ==
  [][\A t \in Tasks :
       status[t] \notin Delivered /\ status'[t] \in Delivered =>
         \E g \in Handlers : DeliveredBy(g, t)]_taskRows

-----------------------------------------------------------------------------
(* Liveness *)

(* main.go starts the stale monitor as a goroutine on a ticker, timeouts      *)
(* expire, and a request goroutine runs its handler to the end.               *)
RecoveryFairness ==
  /\ \A t \in Tasks : WF_vars(Quiet(t))
  /\ WF_vars(SweepRelease) /\ WF_vars(SweepEscalate) /\ WF_vars(SweepCount)
  /\ \A g \in Handlers : WF_vars(HandlerStep(g))

RecoverySpec == Spec /\ RecoveryFairness

(* A task claimed by a worker that falls silent does not stay claimed: the    *)
(* stale monitor returns it to the queue or escalates it, also when the       *)
(* health monitor or the deletion of the agent interferes.                    *)
SilentClaimsRecovered ==
  \A t \in Tasks : status[t] \in Active ~> status[t] \notin Active

-----------------------------------------------------------------------------
(* Promises of the documents that the code does not keep; the README says how *)
(* each of them is broken.                                                   *)

(* The retry budget: max_retries releases or failed verdicts, and the one     *)
(* failed verdict of the last attempt, which escalates; nothing hands the     *)
(* task out again after that.                                                 *)
RetryBudget == \A t \in Tasks : retry[t] <= MaxRetries + 1

(* Quiescence: no handler between two statements and no monitor in a pass.    *)
Quiescent ==
  /\ \A g \in Handlers : req[g] = Idle
  /\ sweep = [pass |-> "release", rows |-> {}]
  /\ health = NoScan

(* No leaked slot: when nothing is in flight an agent is not charged for more *)
(* tasks than it holds.                                                       *)
SlotsNotLeaked ==
  Quiescent => \A a \in Agents : current[a] <= Cardinality(Held(a))

(* Finished work is not queued again: a task delivered or under review does   *)
(* not go straight back to available.                                         *)
FinishedNotRequeued ==
  [][\A t \in Tasks : status[t] \in {"done", "review"} => status'[t] # "available"]_taskRows

(* An escalated task waits for the PM: without a PATCH it leaves that status  *)
(* only by being deleted.                                                     *)
EscalatedWaitsForPM ==
  [][\A t \in Tasks : status[t] = "escalated" => status'[t] \in {"escalated", "deleted"}]_taskRows
=============================================================================
