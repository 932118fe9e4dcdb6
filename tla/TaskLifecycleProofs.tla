------------------------ MODULE TaskLifecycleProofs ------------------------
(***************************************************************************)
(* Proofs about TaskLifecycle, for every set of tasks, agents and handler  *)
(* goroutines and every choice of the operations in use.                   *)
(*                                                                         *)
(* The inductive invariant IInv adds to the types what each handler record *)
(* remembers: the status a claimer read is one that may be claimed, the    *)
(* status a completion carries is one CompleteRequest allows, and so on.   *)
(* Without it nothing is known of a statement that executes long after the *)
(* read it depends on.                                                     *)
(***************************************************************************)
EXTENDS TaskLifecycle, TLAPS

Claimable == {"available", "assigned", "orphaned", "needs_fix"}

AgentCalls == {"claim.update", "claim.count", "progress.start",
               "complete.update", "complete.count"}

OtherCounts == {"release.count", "delete.count", "test.count"}

RequestOK(r) ==
  /\ r.at # "idle" => r.t \in Tasks
  /\ r.at \in AgentCalls => r.a \in Agents
  /\ r.at \in OtherCounts => r.who \in Agents
  /\ r.at = "claim.update"    => r.st \in Claimable
  /\ r.at = "complete.update" => r.st \in {"done", "failed", "escalated", "needs_fix"}
  /\ r.at = "review.update"   => r.st \in {"test", "escalated", "needs_fix", "fix_in_progress"}
  /\ r.at = "test.update"     => r.st \in {"deployed", "needs_fix"}

TasksOK ==
  /\ status   \in [Tasks -> Statuses]
  /\ assignee \in [Tasks -> Agents \cup {None}]
  /\ retry    \in [Tasks -> Nat]
  /\ clock    \in [Tasks -> {"null", "fresh", "stale"}]

AgentsOK ==
  /\ presence \in [Agents -> {"up", "error", "warning", "dead", "absent"}]
  /\ current  \in [Agents -> Nat]
  /\ beat     \in [Agents -> {"none", "fresh", "late", "lost"}]

RequestsOK == /\ req \in [Handlers -> Request]
              /\ \A g \in Handlers : RequestOK(req[g])

SweepOK == sweep \in [pass: {"release", "escalate"}, rows: SUBSET (Tasks \X Agents)]

HealthOK == /\ health \in Scan
            /\ health.at = "place" => health.t \in Tasks

IInv == TasksOK /\ AgentsOK /\ RequestsOK /\ SweepOK /\ HealthOK

LEMMA IInvTypes == IInv => TypeOK
BY DEF IInv, TasksOK, AgentsOK, RequestsOK, SweepOK, HealthOK, TypeOK

-----------------------------------------------------------------------------
(* Facts about the helpers *)

(* Only four statuses may be claimed. *)
LEMMA ClaimableOnly == \A s : IsValidTransition(s, "claimed") => s \in Claimable
BY DEF IsValidTransition, ValidTransitions, Claimable

(* The status a completion carries. *)
LEMMA CompletionStatuses ==
  \A o \in Outcomes : NewStatus(o) \in {"done", "failed", "escalated", "needs_fix"}
BY DEF Outcomes, NewStatus

(* A written row is well typed when the written values are. *)
LEMMA SetTaskTypes ==
  ASSUME TasksOK, NEW t, NEW s \in Statuses, NEW w \in Agents \cup {None},
         NEW n \in Nat, NEW c \in {"null", "fresh", "stale"},
         SetTask(t, s, w, n, c)
  PROVE  TasksOK'
BY DEF TasksOK, SetTask

LEMMA TouchedTypes == \A t : Touched(t) \in {"null", "fresh", "stale"}
BY DEF Touched

(* The counter statements keep current_tasks a natural number. *)
LEMMA CountTypes ==
  ASSUME AgentsOK, NEW a \in Agents, CountUp(a) \/ CountDown(a)
  PROVE  AgentsOK'
<1>1. CASE CountUp(a) BY <1>1 DEF AgentsOK, CountUp
<1>2. CASE CountDown(a) BY <1>2 DEF AgentsOK, CountDown
<1>3. QED BY <1>1, <1>2

(* A handler record stays well formed when it is entered, moved on or dropped. *)
LEMMA EnterOK ==
  ASSUME RequestsOK, NEW g \in Handlers, NEW at \in Steps, NEW t \in Tasks,
         NEW a \in Agents \cup {None}, NEW st \in Statuses, NEW who \in Agents \cup {None},
         RequestOK([at |-> at, t |-> t, a |-> a, st |-> st, who |-> who]),
         Enter(g, at, t, a, st, who)
  PROVE  RequestsOK'
BY DEF RequestsOK, Enter, Request

LEMMA ReplyOK ==
  ASSUME RequestsOK, NEW g \in Handlers, Reply(g)
  PROVE  RequestsOK'
BY DEF RequestsOK, Reply, Idle, Request, RequestOK, Steps, Statuses, NoRow, AgentCalls, OtherCounts

LEMMA GotoOK ==
  ASSUME RequestsOK, NEW g \in Handlers, NEW at \in Steps, Goto(g, at),
         req[g].at # "idle",
         at \notin {"claim.update", "complete.update", "review.update", "test.update"},
         at \in AgentCalls => req[g].at \in AgentCalls,
         at \in OtherCounts => req[g].who \in Agents
  PROVE  RequestsOK'
<1>1. req' = [req EXCEPT ![g] = [req[g] EXCEPT !.at = at]]
  BY DEF Goto, RequestsOK
<1>2. [req[g] EXCEPT !.at = at] \in Request
  BY DEF RequestsOK, Request
<1>3. RequestOK([req[g] EXCEPT !.at = at])
  BY DEF RequestsOK, RequestOK, Request
<1>4. QED BY <1>1, <1>2, <1>3 DEF RequestsOK

(* What an action leaves alone stays well formed. *)
LEMMA Unchanged ==
  /\ TasksOK /\ UNCHANGED taskRows => TasksOK'
  /\ AgentsOK /\ UNCHANGED agentRows => AgentsOK'
  /\ RequestsOK /\ UNCHANGED req => RequestsOK'
  /\ SweepOK /\ UNCHANGED sweep => SweepOK'
  /\ HealthOK /\ UNCHANGED health => HealthOK'
<1>1. TasksOK /\ UNCHANGED taskRows => TasksOK'      BY DEF TasksOK, taskRows
<1>2. AgentsOK /\ UNCHANGED agentRows => AgentsOK'   BY DEF AgentsOK, agentRows
<1>3. RequestsOK /\ UNCHANGED req => RequestsOK'     BY DEF RequestsOK
<1>4. SweepOK /\ UNCHANGED sweep => SweepOK'         BY DEF SweepOK
<1>5. HealthOK /\ UNCHANGED health => HealthOK'      BY DEF HealthOK
<1>6. QED BY <1>1, <1>2, <1>3, <1>4, <1>5

-----------------------------------------------------------------------------
(* The initial states and the steps *)

LEMMA InitIInv == Init => IInv
<1> SUFFICES ASSUME Init PROVE IInv OBVIOUS
<1>1. TasksOK BY DEF Init, TasksOK, Statuses, NoRow
<1>2. AgentsOK BY DEF Init, AgentsOK
<1>3. RequestsOK
  BY DEF Init, RequestsOK, Idle, Request, RequestOK, Steps, Statuses, NoRow, AgentCalls, OtherCounts
<1>4. SweepOK BY DEF Init, SweepOK
<1>5. HealthOK BY DEF Init, HealthOK, NoScan, Scan
<1>6. QED BY <1>1, <1>2, <1>3, <1>4, <1>5 DEF IInv

(* Calls of the PM. *)
LEMMA PMStepIInv == IInv /\ PMStep => IInv'
<1> SUFFICES ASSUME IInv, NEW t \in Tasks,
                    \/ CreateTask(t) \/ UpdateTask(t) \/ EscalateTask(t)
                    \/ \E g \in Handlers : ReleaseRead(g, t) \/ DeleteRead(g, t)
             PROVE  IInv'
  BY DEF PMStep
<1> USE DEF IInv
<1>a. PMAssignees \subseteq Agents /\ PMStatuses \subseteq Statuses
  BY ConstantsAssumption, PMStatusesAssumption
<1>b. /\ status[t] \in Statuses /\ assignee[t] \in Agents \cup {None} /\ retry[t] \in Nat
      /\ {"available", "assigned", "escalated", "deleted"} \subseteq Statuses
  BY DEF TasksOK, Statuses, NoRow
<1>1. CASE CreateTask(t)
  <2>1. TasksOK'
    BY <1>1, <1>a, <1>b, SetTaskTypes DEF CreateTask
  <2>2. QED BY <2>1, <1>1, Unchanged DEF CreateTask, monitors
<1>2. CASE UpdateTask(t)
  <2>1. TasksOK'
    BY <1>2, <1>a, <1>b, SetTaskTypes, TouchedTypes DEF UpdateTask
  <2>2. QED BY <2>1, <1>2, Unchanged DEF UpdateTask, monitors
<1>3. CASE EscalateTask(t)
  <2>1. TasksOK'
    BY <1>3, <1>b, SetTaskTypes, TouchedTypes DEF EscalateTask
  <2>2. QED BY <2>1, <1>3, Unchanged DEF EscalateTask, monitors
<1>4. ASSUME NEW g \in Handlers, ReleaseRead(g, t) PROVE IInv'
  <2>1. RequestsOK'
    BY <1>4, <1>b, EnterOK DEF ReleaseRead, RequestOK, Steps, AgentCalls, OtherCounts
  <2>2. QED BY <2>1, <1>4, Unchanged DEF ReleaseRead, monitors
<1>5. ASSUME NEW g \in Handlers, DeleteRead(g, t) PROVE IInv'
  <2>1. RequestsOK'
    BY <1>5, <1>b, EnterOK DEF DeleteRead, RequestOK, Steps, AgentCalls, OtherCounts
  <2>2. QED BY <2>1, <1>5, Unchanged DEF DeleteRead, monitors
<1>6. QED BY <1>1, <1>2, <1>3, <1>4, <1>5

(* The first statement of an agent's call. *)
LEMMA AgentStepIInv == IInv /\ AgentStep => IInv'
<1> SUFFICES ASSUME IInv, NEW g \in Handlers, NEW t \in Tasks, NEW a \in Agents,
                    \/ ClaimRead(g, t, a) \/ ProgressTouch(g, t, a)
                    \/ ReviewRead(g, t, a) \/ TestRead(g, t, a)
                    \/ \E outcome \in Outcomes : CompleteRead(g, t, a, outcome)
             PROVE  IInv'
  BY DEF AgentStep
<1> USE DEF IInv
<1>b. /\ status[t] \in Statuses /\ assignee[t] \in Agents \cup {None} /\ retry[t] \in Nat
      /\ {"in_progress", "done", "failed", "escalated", "needs_fix", "fix_in_progress",
          "test", "deployed"} \subseteq Statuses
  BY DEF TasksOK, Statuses, NoRow, Active
<1>1. CASE ClaimRead(g, t, a)
  <2>1. RequestsOK'
    BY <1>1, <1>b, EnterOK, ClaimableOnly
    DEF ClaimRead, RequestOK, Steps, AgentCalls, OtherCounts
  <2>2. QED BY <2>1, <1>1, Unchanged DEF ClaimRead, monitors
<1>2. CASE ProgressTouch(g, t, a)
  <2>1. RequestsOK'
    BY <1>2, <1>b, EnterOK DEF ProgressTouch, RequestOK, Steps, AgentCalls, OtherCounts
  <2>2. TasksOK'
    BY <1>2, <1>b, SetTaskTypes, TouchedTypes, Unchanged DEF ProgressTouch
  <2>3. QED BY <2>1, <2>2, <1>2, Unchanged DEF ProgressTouch, monitors
<1>3. CASE ReviewRead(g, t, a)
  <2>1. RequestsOK'
    BY <1>3, <1>b, EnterOK DEF ReviewRead, RequestOK, Steps, AgentCalls, OtherCounts
  <2>2. QED BY <2>1, <1>3, Unchanged DEF ReviewRead, monitors
<1>4. CASE TestRead(g, t, a)
  <2>1. RequestsOK'
    BY <1>4, <1>b, EnterOK DEF TestRead, RequestOK, Steps, AgentCalls, OtherCounts
  <2>2. QED BY <2>1, <1>4, Unchanged DEF TestRead, monitors
<1>5. ASSUME NEW outcome \in Outcomes, CompleteRead(g, t, a, outcome) PROVE IInv'
  <2>1. RequestsOK'
    BY <1>5, <1>b, EnterOK, CompletionStatuses
    DEF CompleteRead, RequestOK, Steps, AgentCalls, OtherCounts
  <2>2. QED BY <2>1, <1>5, Unchanged DEF CompleteRead, monitors
<1>6. QED BY <1>1, <1>2, <1>3, <1>4, <1>5

(* The later statements of the PM's calls. *)
LEMMA PMHandlerIInv ==
  ASSUME IInv, NEW g \in Handlers,
         \/ ReleaseUpdate(g) \/ ReleaseCount(g)
         \/ DeleteStatus(g) \/ DeleteCount(g) \/ DeleteRow(g)
  PROVE  IInv'
<1> USE DEF IInv
<1> DEFINE t == req[g].t
<1>a. RequestOK(req[g]) /\ req[g] \in Request
  BY DEF RequestsOK
<1>b. t \in Tasks => /\ status[t] \in Statuses /\ assignee[t] \in Agents \cup {None}
                     /\ retry[t] \in Nat
  BY DEF TasksOK
<1>c. {"available", "escalated", "deleted"} \subseteq Statuses
  BY DEF Statuses, NoRow
<1>1. CASE ReleaseUpdate(g)
  <2>1. t \in Tasks /\ req[g].at # "idle"
    BY <1>1, <1>a DEF ReleaseUpdate, RequestOK
  <2>2. TasksOK'
    BY <1>1, <1>b, <1>c, <2>1, SetTaskTypes, TouchedTypes, Unchanged DEF ReleaseUpdate
  <2>3. RequestsOK'
    BY <1>1, <1>a, <2>1, ReplyOK, GotoOK DEF ReleaseUpdate, Steps, Request, AgentCalls, OtherCounts
  <2>4. QED BY <1>1, <2>2, <2>3, Unchanged DEF ReleaseUpdate, monitors
<1>2. CASE ReleaseCount(g)
  <2>1. req[g].who \in Agents
    BY <1>2, <1>a DEF ReleaseCount, RequestOK, OtherCounts
  <2>2. AgentsOK' BY <1>2, <2>1, CountTypes DEF ReleaseCount
  <2>3. RequestsOK' BY <1>2, ReplyOK DEF ReleaseCount
  <2>4. QED BY <1>2, <2>2, <2>3, Unchanged DEF ReleaseCount, monitors
<1>3. CASE DeleteStatus(g)
  <2>1. RequestsOK'
    BY <1>3, <1>a, GotoOK DEF DeleteStatus, Steps, Request, AgentCalls, OtherCounts
  <2>2. QED BY <1>3, <2>1, Unchanged DEF DeleteStatus, monitors
<1>4. CASE DeleteCount(g)
  <2>1. req[g].who \in Agents
    BY <1>4, <1>a DEF DeleteCount, RequestOK, OtherCounts
  <2>2. AgentsOK' BY <1>4, <2>1, CountTypes DEF DeleteCount
  <2>3. RequestsOK' BY <1>4, GotoOK DEF DeleteCount, Steps, AgentCalls, OtherCounts
  <2>4. QED BY <1>4, <2>2, <2>3, Unchanged DEF DeleteCount, monitors
<1>5. CASE DeleteRow(g)
  <2>1. TasksOK' BY <1>5, <1>c, SetTaskTypes DEF DeleteRow
  <2>2. RequestsOK' BY <1>5, ReplyOK DEF DeleteRow
  <2>3. QED BY <1>5, <2>1, <2>2, Unchanged DEF DeleteRow, monitors
<1>6. QED BY <1>1, <1>2, <1>3, <1>4, <1>5

(* The later statements of claim, progress and complete. *)
LEMMA WorkHandlerIInv ==
  ASSUME IInv, NEW g \in Handlers,
         \/ ClaimUpdate(g) \/ ClaimCount(g) \/ ProgressStart(g)
         \/ CompleteUpdate(g) \/ CompleteCount(g) \/ RetryCheck(g) \/ RetryEscalate(g)
  PROVE  IInv'
<1> USE DEF IInv
<1> DEFINE t == req[g].t
<1>a. RequestOK(req[g]) /\ req[g] \in Request
  BY DEF RequestsOK
<1>b. t \in Tasks => /\ status[t] \in Statuses /\ assignee[t] \in Agents \cup {None}
                     /\ retry[t] \in Nat /\ clock[t] \in {"null", "fresh", "stale"}
  BY DEF TasksOK
<1>c. {"claimed", "in_progress", "escalated"} \subseteq Statuses
  BY DEF Statuses, Active
<1>d. req[g].at \in AgentCalls => req[g].a \in Agents
  BY <1>a DEF RequestOK
<1>e. req[g].at # "idle" => t \in Tasks
  BY <1>a DEF RequestOK
<1>1. CASE ClaimUpdate(g)
  <2>1. t \in Tasks /\ req[g].a \in Agents
    BY <1>1, <1>d, <1>e DEF ClaimUpdate, AgentCalls
  <2>2. TasksOK'
    BY <1>1, <1>b, <1>c, <2>1, SetTaskTypes, Unchanged DEF ClaimUpdate
  <2>3. RequestsOK'
    BY <1>1, ReplyOK, GotoOK DEF ClaimUpdate, Steps, AgentCalls, OtherCounts
  <2>4. QED BY <1>1, <2>2, <2>3, Unchanged DEF ClaimUpdate, monitors
<1>2. CASE ClaimCount(g)
  <2>1. AgentsOK' BY <1>2, <1>d, CountTypes DEF ClaimCount, AgentCalls
  <2>2. RequestsOK' BY <1>2, ReplyOK DEF ClaimCount
  <2>3. QED BY <1>2, <2>1, <2>2, Unchanged DEF ClaimCount, monitors
<1>3. CASE ProgressStart(g)
  <2>1. t \in Tasks BY <1>3, <1>e DEF ProgressStart
  <2>2. TasksOK'
    BY <1>3, <1>b, <1>c, <2>1, SetTaskTypes, TouchedTypes, Unchanged DEF ProgressStart
  <2>3. RequestsOK' BY <1>3, ReplyOK DEF ProgressStart
  <2>4. QED BY <1>3, <2>2, <2>3, Unchanged DEF ProgressStart, monitors
<1>4. CASE CompleteUpdate(g)
  <2>1. t \in Tasks /\ req[g].st \in Statuses
    BY <1>4, <1>a, <1>e DEF CompleteUpdate, Request
  <2>2. TasksOK'
    BY <1>4, <1>b, <2>1, SetTaskTypes, TouchedTypes, Unchanged DEF CompleteUpdate
  <2>3. RequestsOK'
    BY <1>4, GotoOK DEF CompleteUpdate, Steps, AgentCalls, OtherCounts
  <2>4. QED BY <1>4, <2>2, <2>3, Unchanged DEF CompleteUpdate, monitors
<1>5. CASE CompleteCount(g)
  <2>1. AgentsOK' BY <1>5, <1>d, CountTypes DEF CompleteCount, AgentCalls
  <2>2. RequestsOK'
    BY <1>5, ReplyOK, GotoOK DEF CompleteCount, Steps, AgentCalls, OtherCounts
  <2>3. QED BY <1>5, <2>1, <2>2, Unchanged DEF CompleteCount, monitors
<1>6. CASE RetryCheck(g)
  <2>1. RequestsOK' BY <1>6, ReplyOK, GotoOK DEF RetryCheck, Steps, AgentCalls, OtherCounts
  <2>2. QED BY <1>6, <2>1, Unchanged DEF RetryCheck, monitors
<1>7. CASE RetryEscalate(g)
  <2>1. t \in Tasks BY <1>7, <1>e DEF RetryEscalate
  <2>2. TasksOK'
    BY <1>7, <1>b, <1>c, <2>1, SetTaskTypes, Unchanged DEF RetryEscalate
  <2>3. RequestsOK' BY <1>7, ReplyOK DEF RetryEscalate
  <2>4. QED BY <1>7, <2>2, <2>3, Unchanged DEF RetryEscalate, monitors
<1>8. QED BY <1>1, <1>2, <1>3, <1>4, <1>5, <1>6, <1>7

(* The later statements of a review or test verdict. *)
LEMMA VerdictHandlerIInv ==
  ASSUME IInv, NEW g \in Handlers,
         ReviewUpdate(g) \/ TestUpdate(g) \/ TestAssignee(g) \/ TestCount(g)
  PROVE  IInv'
<1> USE DEF IInv
<1> DEFINE t == req[g].t
<1>a. RequestOK(req[g]) /\ req[g] \in Request
  BY DEF RequestsOK
<1>b. t \in Tasks => /\ status[t] \in Statuses /\ assignee[t] \in Agents \cup {None}
                     /\ retry[t] \in Nat /\ retry[t] + 1 \in Nat
  BY DEF TasksOK
<1>e. req[g].at # "idle" => t \in Tasks
  BY <1>a DEF RequestOK
<1>1. CASE ReviewUpdate(g)
  <2>1. t \in Tasks /\ req[g].st \in Statuses
    BY <1>1, <1>a, <1>e DEF ReviewUpdate, Request
  <2>2. TasksOK'
    BY <1>1, <1>b, <2>1, SetTaskTypes, TouchedTypes, Unchanged DEF ReviewUpdate
  <2>3. RequestsOK'
    BY <1>1, ReplyOK, GotoOK DEF ReviewUpdate, Steps, AgentCalls, OtherCounts
  <2>4. QED BY <1>1, <2>2, <2>3, Unchanged DEF ReviewUpdate, monitors
<1>2. CASE TestUpdate(g)
  <2>1. t \in Tasks /\ req[g].st \in Statuses
    BY <1>2, <1>a, <1>e DEF TestUpdate, Request
  <2>2. TasksOK'
    BY <1>2, <1>b, <2>1, SetTaskTypes, TouchedTypes, Unchanged DEF TestUpdate
  <2>3. RequestsOK'
    BY <1>2, GotoOK DEF TestUpdate, Steps, AgentCalls, OtherCounts
  <2>4. QED BY <1>2, <2>2, <2>3, Unchanged DEF TestUpdate, monitors
<1>3. CASE TestAssignee(g)
  <2>1. t \in Tasks /\ req[g].at = "test.assignee"
    BY <1>3, <1>e DEF TestAssignee
  <2>2. CASE assignee[t] = None
    BY <1>3, <2>1, <2>2, ReplyOK, GotoOK, Unchanged
    DEF TestAssignee, AfterTest, monitors, Steps, AgentCalls, OtherCounts
  <2>3. CASE assignee[t] # None
    <3>1. assignee[t] \in Agents BY <2>1, <2>3, <1>b
    <3> DEFINE r == [req[g] EXCEPT !.at = "test.count", !.who = assignee[t]]
    <3>2. req' = [req EXCEPT ![g] = r]
      BY <1>3, <2>3 DEF TestAssignee, RequestsOK, Request
    <3>3. r \in Request /\ RequestOK(r)
      BY <1>a, <2>1, <3>1 DEF Request, RequestOK, Steps, AgentCalls, OtherCounts
    <3>4. RequestsOK' BY <3>2, <3>3 DEF RequestsOK
    <3>5. QED BY <1>3, <3>4, Unchanged DEF TestAssignee, monitors
  <2>4. QED BY <2>2, <2>3
<1>4. CASE TestCount(g)
  <2>1. req[g].who \in Agents
    BY <1>4, <1>a DEF TestCount, RequestOK, OtherCounts
  <2>2. AgentsOK' BY <1>4, <2>1, CountTypes DEF TestCount
  <2>3. RequestsOK'
    BY <1>4, ReplyOK, GotoOK DEF TestCount, AfterTest, Steps, AgentCalls, OtherCounts
  <2>4. QED BY <1>4, <2>2, <2>3, Unchanged DEF TestCount, monitors
<1>5. QED BY <1>1, <1>2, <1>3, <1>4

(* Registration, heartbeats and deletion of agents. *)
LEMMA AgentRowIInv == IInv /\ AgentRowStep => IInv'
<1> SUFFICES ASSUME IInv, NEW a \in Agents,
                    RegisterAgent(a) \/ Heartbeat(a) \/ DeleteAgent(a)
             PROVE  IInv'
  BY DEF AgentRowStep
<1> USE DEF IInv
<1>1. CASE RegisterAgent(a)
  <2>1. AgentsOK' BY <1>1 DEF RegisterAgent, AgentsOK
  <2>2. QED BY <1>1, <2>1, Unchanged DEF RegisterAgent, monitors
<1>2. CASE Heartbeat(a)
  <2>1. AgentsOK' BY <1>2, ConstantsAssumption DEF Heartbeat, AgentsOK
  <2>2. QED BY <1>2, <2>1, Unchanged DEF Heartbeat, monitors
<1>3. CASE DeleteAgent(a)
  <2>1. AgentsOK' BY <1>3 DEF DeleteAgent, AgentsOK
  <2>2. TasksOK' BY <1>3 DEF DeleteAgent, TasksOK, Statuses
  <2>3. QED BY <1>3, <2>1, <2>2, Unchanged DEF DeleteAgent, monitors
<1>4. QED BY <1>1, <1>2, <1>3

(* The two passes of the stale monitor and its loop. *)
LEMMA SweepIInv == IInv /\ SweepStep => IInv'
<1> SUFFICES ASSUME IInv, SweepStep PROVE IInv'
  OBVIOUS
<1> USE DEF IInv
<1>1. CASE SweepRelease
  <2>1. TasksOK' BY <1>1 DEF SweepRelease, TasksOK, Statuses
  <2>2. SweepOK' BY <1>1, <2>1 DEF SweepRelease, SweepOK, ReturnedRows, TasksOK
  <2>3. QED BY <1>1, <2>1, <2>2, Unchanged DEF SweepRelease
<1>2. CASE SweepEscalate
  <2>1. TasksOK' BY <1>2 DEF SweepEscalate, TasksOK, Statuses
  <2>2. SweepOK' BY <1>2, <2>1 DEF SweepEscalate, SweepOK, ReturnedRows, TasksOK
  <2>3. QED BY <1>2, <2>1, <2>2, Unchanged DEF SweepEscalate
<1>3. CASE SweepCount
  <2>1. PICK row \in sweep.rows : /\ CountDown(row[2])
                                  /\ sweep' = [sweep EXCEPT !.rows = @ \ {row}]
    BY <1>3 DEF SweepCount
  <2>2. row[2] \in Agents BY <2>1 DEF SweepOK
  <2>3. AgentsOK' BY <2>1, <2>2, CountTypes
  <2>4. SweepOK' BY <2>1 DEF SweepOK
  <2>5. QED BY <1>3, <2>3, <2>4, Unchanged DEF SweepCount
<1>4. CASE SweepFail
  <2>1. SweepOK' BY <1>4 DEF SweepFail, SweepOK
  <2>2. QED BY <1>4, <2>1, Unchanged DEF SweepFail
<1>5. QED BY <1>1, <1>2, <1>3, <1>4 DEF SweepStep

(* One tick of the health monitor. *)
LEMMA HealthIInv == IInv /\ HealthStep => IInv'
<1> SUFFICES ASSUME IInv, HealthStep PROVE IInv'
  OBVIOUS
<1> USE DEF IInv
<1>a. health \in Scan BY DEF HealthOK
<1>1. CASE HealthScan
  <2> DEFINE due == {a \in Agents : /\ presence[a] \notin {"dead", "absent"}
                                   /\ beat[a] \in {"late", "lost"}}
             todo == {<<a, beat[a]>> : a \in due}
  <2>1. todo \in SUBSET (Agents \X {"late", "lost"})
    OBVIOUS
  <2>2. health' = [health EXCEPT !.at = "agent", !.todo = todo]
    BY <1>1 DEF HealthScan
  <2> HIDE DEF todo
  <2>3. HealthOK' BY <2>1, <2>2, <1>a DEF HealthOK, Scan
  <2>4. QED BY <1>1, <2>3, Unchanged DEF HealthScan
<1>2. CASE HealthWarn
  <2>1. PICK a \in Agents : /\ SetPresence(a, "warning")
                            /\ health' = NextAgent(health.todo \ {<<a, "late">>})
    BY <1>2 DEF HealthWarn
  <2>2. AgentsOK' BY <2>1 DEF SetPresence, AgentsOK
  <2>3. HealthOK' BY <2>1, <1>a DEF NextAgent, HealthOK, Scan, NoScan
  <2>4. QED BY <1>2, <2>2, <2>3, Unchanged DEF HealthWarn
<1>3. CASE HealthDead
  <2>1. PICK a \in Agents : /\ SetPresence(a, "dead")
                            /\ health' = [health EXCEPT !.at = "select", !.who = a,
                                                        !.todo = @ \ {<<a, "lost">>}]
    BY <1>3 DEF HealthDead
  <2>2. AgentsOK' BY <2>1 DEF SetPresence, AgentsOK
  <2>3. HealthOK' BY <2>1, <1>a DEF HealthOK, Scan
  <2>4. QED BY <1>3, <2>2, <2>3, Unchanged DEF HealthDead
<1>4. CASE HealthSelect
  <2>1. HealthOK' BY <1>4, <1>a DEF HealthSelect, NextMove, NextAgent, HealthOK, Scan, NoScan
  <2>2. QED BY <1>4, <2>1, Unchanged DEF HealthSelect
<1>5. CASE HealthBackup
  <2>1. PICK t \in health.tasks, b \in Agents \cup {None} :
           health' = [health EXCEPT !.at = "place", !.t = t, !.b = b]
    BY <1>5 DEF HealthBackup, LeastLoaded, BackupsFor
  <2>2. HealthOK' BY <2>1, <1>a DEF HealthOK, Scan
  <2>3. QED BY <1>5, <2>2, Unchanged DEF HealthBackup
<1>6. CASE HealthPlace
  <2>1. health.t \in Tasks /\ health.b \in Agents \cup {None}
    BY <1>6, <1>a DEF HealthPlace, HealthOK, Scan
  <2>2. TasksOK'
    <3>1. /\ {"available", "orphaned"} \subseteq Statuses
          /\ assignee[health.t] \in Agents \cup {None}
          /\ retry[health.t] \in Nat /\ retry[health.t] + 1 \in Nat
          /\ clock[health.t] \in {"null", "fresh", "stale"}
      BY <2>1 DEF TasksOK, Statuses
    <3>2. QED BY <1>6, <2>1, <3>1, SetTaskTypes, Unchanged DEF HealthPlace
  <2>3. HealthOK' BY <1>6, <1>a DEF HealthPlace, NextMove, NextAgent, HealthOK, Scan, NoScan
  <2>4. QED BY <1>6, <2>2, <2>3, Unchanged DEF HealthPlace
<1>7. CASE HealthFail
  <2>1. HealthOK'
    <3>1. \A T \in SUBSET Tasks, todo \in SUBSET (Agents \X {"late", "lost"}) :
             HealthOK /\ health' \in {NextMove(T), NextAgent(todo)} => HealthOK'
      <4>1. ASSUME NEW todo \in SUBSET (Agents \X {"late", "lost"})
            PROVE  NextAgent(todo) \in Scan /\ NextAgent(todo).at # "place"
        BY DEF NextAgent, NoScan, Scan
      <4>2. ASSUME NEW T \in SUBSET Tasks
            PROVE  NextMove(T) \in Scan /\ NextMove(T).at # "place"
        <5>1. health.todo \in SUBSET (Agents \X {"late", "lost"})
          BY <1>a DEF Scan
        <5>2. QED BY <1>a, <4>1, <5>1 DEF NextMove, Scan
      <4>3. QED BY <4>1, <4>2 DEF HealthOK
    <3>2. CASE health.at = "agent"
      <4>1. PICK due \in health.todo :
               health' = IF due[2] = "late" THEN NextAgent(health.todo \ {due})
                         ELSE [health EXCEPT !.at = "select", !.who = due[1],
                                             !.todo = @ \ {due}]
        BY <1>7, <3>2 DEF HealthFail
      <4>2. /\ health.todo \ {due} \in SUBSET (Agents \X {"late", "lost"})
            /\ due[1] \in Agents
        BY <1>a DEF Scan
      <4>3. CASE due[2] = "late"
        BY <3>1, <4>1, <4>2, <4>3
      <4>4. CASE due[2] # "late"
        BY <1>a, <4>1, <4>2, <4>4 DEF HealthOK, Scan
      <4>5. QED BY <4>3, <4>4
    <3>3. CASE health.at = "backup"
      BY <1>7, <1>a, <3>3 DEF HealthFail, HealthOK, Scan
    <3>4. CASE health.at \in {"select", "place"}
      <4>1. {} \in SUBSET Tasks /\ health.tasks \ {health.t} \in SUBSET Tasks
        BY <1>a DEF Scan
      <4>2. health' = NextMove({}) \/ health' = NextMove(health.tasks \ {health.t})
        BY <1>7, <3>4 DEF HealthFail
      <4>3. QED BY <3>1, <4>1, <4>2
    <3>5. QED BY <1>7, <3>2, <3>3, <3>4 DEF HealthFail
  <2>2. QED BY <1>7, <2>1, Unchanged DEF HealthFail
<1>8. QED BY <1>1, <1>2, <1>3, <1>4, <1>5, <1>6, <1>7 DEF HealthStep

(* Time, failures and restarts. *)
LEMMA EnvironmentIInv ==
  IInv /\ (Passing \/ Restart \/ \E g \in Handlers : Fail(g)) => IInv'
<1> SUFFICES ASSUME IInv, Passing \/ Restart \/ \E g \in Handlers : Fail(g)
             PROVE  IInv'
  OBVIOUS
<1> USE DEF IInv
<1>1. ASSUME NEW t \in Tasks, Quiet(t) PROVE IInv'
  <2>1. TasksOK' BY <1>1 DEF Quiet, TasksOK
  <2>2. QED BY <1>1, <2>1, Unchanged DEF Quiet, monitors
<1>2. ASSUME NEW a \in Agents, Silent(a) PROVE IInv'
  <2>1. AgentsOK' BY <1>2 DEF Silent, AgentsOK
  <2>2. QED BY <1>2, <2>1, Unchanged DEF Silent, monitors
<1>3. CASE Restart
  <2>1. RequestsOK'
    BY <1>3 DEF Restart, RequestsOK, Idle, Request, RequestOK, Steps, Statuses, NoRow,
                AgentCalls, OtherCounts
  <2>2. SweepOK' /\ HealthOK'
    BY <1>3 DEF Restart, SweepOK, HealthOK, NoScan, Scan
  <2>3. QED BY <1>3, <2>1, <2>2, Unchanged DEF Restart
<1>4. ASSUME NEW g \in Handlers, Fail(g) PROVE IInv'
  <2>1. CASE Reply(g)
    BY <1>4, <2>1, ReplyOK, Unchanged DEF Fail, monitors
  <2>2. ASSUME NEW at \in Steps, Ignores(req[g], at), Goto(g, at) PROVE RequestsOK'
    <3>1. /\ at \in {"release.count", "delete.row", "test.assignee", "retry.escalate",
                    "retry.check"}
          /\ req[g].at # "idle"
          /\ at = "release.count" => req[g].who # None
      BY <2>2 DEF Ignores
    <3>2. req[g].who \in Agents \cup {None}
      BY DEF RequestsOK, Request
    <3>3. QED BY <2>2, <3>1, <3>2, GotoOK DEF AgentCalls, OtherCounts
  <2>3. QED BY <1>4, <2>1, <2>2, Unchanged DEF Fail, monitors
<1>5. QED BY <1>1, <1>2, <1>3, <1>4 DEF Passing

LEMMA StepIInv == IInv /\ [Next]_vars => IInv'
<1> SUFFICES ASSUME IInv, [Next]_vars PROVE IInv'
  OBVIOUS
<1>1. CASE UNCHANGED vars
  BY <1>1, Unchanged DEF IInv, vars, monitors
<1>2. ASSUME NEW g \in Handlers, HandlerStep(g) PROVE IInv'
  BY <1>2, PMHandlerIInv, WorkHandlerIInv, VerdictHandlerIInv DEF HandlerStep
<1>3. QED
  BY <1>1, <1>2, PMStepIInv, AgentStepIInv, AgentRowIInv, SweepIInv, HealthIInv, EnvironmentIInv
  DEF Next

(* Every handler and monitor of the server keeps rows, counters and its own    *)
(* memory well formed.                                                         *)
LEMMA Invariance == Spec => []IInv
BY InitIInv, StepIInv, PTL DEF Spec

(* Type correctness: no interleaving of statements writes a status outside the *)
(* table, a negative current_tasks or an assignee that is not an agent name.   *)
THEOREM TypeCorrect == Spec => []TypeOK
BY Invariance, IInvTypes, PTL

-----------------------------------------------------------------------------
(* How a step changes rows *)

(* Rows keep status and assignee, lose them to a status nobody works in, or   *)
(* move between claimed and in_progress under the same assignee.              *)
OrdinaryRow(t) ==
  \/ status'[t] = status[t] /\ assignee'[t] = assignee[t]
  \/ status'[t] \notin Active \cup Delivered
  \/ status[t] \in Active /\ status'[t] \in Active /\ assignee'[t] = assignee[t]

OrdinaryStep == \A t \in Tasks : OrdinaryRow(t)

LEMMA QuietRows == UNCHANGED <<status, assignee>> => OrdinaryStep
BY DEF OrdinaryStep, OrdinaryRow

LEMMA RestingRow ==
  ASSUME TasksOK, NEW t, NEW s, NEW w, NEW n, NEW c, SetTask(t, s, w, n, c),
         s \notin Active \cup Delivered
  PROVE  OrdinaryStep
BY DEF TasksOK, SetTask, OrdinaryStep, OrdinaryRow

LEMMA KeptRow ==
  ASSUME TasksOK, NEW t \in Tasks, NEW n, NEW c,
         SetTask(t, status[t], assignee[t], n, c)
  PROVE  OrdinaryStep
BY DEF TasksOK, SetTask, OrdinaryStep, OrdinaryRow

(* Of the handlers' statements only a claim, a completion and a PATCH do more. *)
LEMMA HandlerRows ==
  ASSUME IInv, NEW g \in Handlers, HandlerStep(g)
  PROVE  OrdinaryStep \/ ClaimUpdate(g) \/ CompleteUpdate(g)
<1>a. TasksOK /\ req[g] \in Request /\ RequestOK(req[g])
  BY DEF IInv, RequestsOK
<1>1. CASE ReleaseUpdate(g)
  BY <1>1, <1>a, RestingRow, QuietRows DEF ReleaseUpdate, taskRows, Active, Delivered
<1>2. CASE DeleteRow(g)
  BY <1>2, <1>a, RestingRow DEF DeleteRow, Active, Delivered
<1>3. CASE ProgressStart(g)
  BY <1>3, <1>a, QuietRows
  DEF ProgressStart, taskRows, TasksOK, SetTask, OrdinaryStep, OrdinaryRow, Active
<1>4. CASE RetryEscalate(g)
  BY <1>4, <1>a, RestingRow, QuietRows DEF RetryEscalate, taskRows, Active, Delivered
<1>5. CASE ReviewUpdate(g)
  <2>1. req[g].st \notin Active \cup Delivered
    BY <1>5, <1>a DEF ReviewUpdate, RequestOK, Active, Delivered
  <2>2. QED BY <1>5, <1>a, <2>1, RestingRow, QuietRows DEF ReviewUpdate, taskRows
<1>6. CASE TestUpdate(g)
  <2>1. req[g].st \notin Active \cup Delivered
    BY <1>6, <1>a DEF TestUpdate, RequestOK, Active, Delivered
  <2>2. QED BY <1>6, <1>a, <2>1, RestingRow, QuietRows DEF TestUpdate, taskRows
<1>7. CASE UNCHANGED taskRows
  BY <1>7, QuietRows DEF taskRows
<1>8. QED
  BY <1>1, <1>2, <1>3, <1>4, <1>5, <1>6, <1>7
  DEF HandlerStep, ReleaseCount, DeleteStatus, DeleteCount, ClaimCount, CompleteCount,
      RetryCheck, TestAssignee, TestCount

LEMMA EveryStep ==
  ASSUME IInv, [Next]_vars
  PROVE  \/ OrdinaryStep
         \/ \E g \in Handlers : ClaimUpdate(g) \/ CompleteUpdate(g)
         \/ \E t \in Tasks : UpdateTask(t)
<1>a. TasksOK BY DEF IInv
<1>1. CASE PMStep
  <2>1. ASSUME NEW t \in Tasks, CreateTask(t) PROVE OrdinaryStep
    BY <2>1, <1>a, RestingRow DEF CreateTask, Active, Delivered
  <2>2. ASSUME NEW t \in Tasks, EscalateTask(t) PROVE OrdinaryStep
    BY <2>2, <1>a, RestingRow DEF EscalateTask, Active, Delivered
  <2>3. QED BY <1>1, <2>1, <2>2, QuietRows DEF PMStep, ReleaseRead, DeleteRead, taskRows
<1>2. CASE AgentStep
  <2>1. ASSUME NEW g \in Handlers, NEW t \in Tasks, NEW a \in Agents, ProgressTouch(g, t, a)
        PROVE  OrdinaryStep
    BY <2>1, <1>a, KeptRow, QuietRows DEF ProgressTouch, taskRows
  <2>2. QED
    BY <1>2, <2>1, QuietRows
    DEF AgentStep, ClaimRead, ReviewRead, TestRead, CompleteRead, taskRows
<1>3. ASSUME NEW g \in Handlers, HandlerStep(g)
      PROVE  OrdinaryStep \/ ClaimUpdate(g) \/ CompleteUpdate(g)
  BY <1>3, HandlerRows
<1>4. CASE AgentRowStep
  <2>1. ASSUME NEW a \in Agents, DeleteAgent(a) PROVE OrdinaryStep
    BY <2>1 DEF DeleteAgent, OrdinaryStep, OrdinaryRow, Active, Delivered
  <2>2. QED BY <1>4, <2>1, QuietRows DEF AgentRowStep, RegisterAgent, Heartbeat, taskRows
<1>5. CASE SweepStep
  <2>1. CASE SweepRelease
    BY <2>1 DEF SweepRelease, OrdinaryStep, OrdinaryRow, Active, Delivered
  <2>2. CASE SweepEscalate
    BY <2>2 DEF SweepEscalate, OrdinaryStep, OrdinaryRow, Active, Delivered
  <2>3. QED BY <1>5, <2>1, <2>2, QuietRows DEF SweepStep, SweepCount, SweepFail, taskRows
<1>6. CASE HealthStep
  <2>1. CASE HealthPlace
    BY <2>1, <1>a, RestingRow, QuietRows DEF HealthPlace, taskRows, Active, Delivered
  <2>2. QED
    BY <1>6, <2>1, QuietRows
    DEF HealthStep, HealthScan, HealthWarn, HealthDead, HealthSelect, HealthBackup,
        HealthFail, taskRows
<1>7. CASE Passing \/ Restart \/ \E g \in Handlers : Fail(g)
  BY <1>7, QuietRows DEF Passing, Quiet, Silent, Restart, Fail, taskRows
<1>8. CASE UNCHANGED vars
  BY <1>8, QuietRows DEF vars, taskRows
<1>9. QED BY <1>1, <1>2, <1>3, <1>4, <1>5, <1>6, <1>7, <1>8 DEF Next

(* What a claim that wins its race writes. *)
LEMMA ClaimRow ==
  ASSUME IInv, NEW g \in Handlers, ClaimUpdate(g)
  PROVE  \/ OrdinaryStep
         \/ \E t \in Tasks, a \in Agents :
              /\ status[t] \in Claimable
              /\ status'   = [status EXCEPT ![t] = "claimed"]
              /\ assignee' = [assignee EXCEPT ![t] = a]
<1>1. /\ req[g].t \in Tasks
      /\ req[g].a \in Agents
      /\ req[g].st \in Claimable
  BY DEF ClaimUpdate, IInv, RequestsOK, RequestOK, AgentCalls
<1>2. QED BY <1>1, QuietRows DEF ClaimUpdate, SetTask, taskRows

(* What a completion writes. *)
LEMMA CompleteRow ==
  ASSUME IInv, NEW g \in Handlers, CompleteUpdate(g)
  PROVE  \/ OrdinaryStep
         \/ \E t \in Tasks, a \in Agents, s \in {"done", "failed", "escalated", "needs_fix"} :
              /\ assignee[t] = a
              /\ status'   = [status EXCEPT ![t] = s]
              /\ assignee' = [assignee EXCEPT ![t] = None]
<1>1. /\ req[g].t \in Tasks
      /\ req[g].a \in Agents
      /\ req[g].st \in {"done", "failed", "escalated", "needs_fix"}
  BY DEF CompleteUpdate, IInv, RequestsOK, RequestOK, AgentCalls
<1>2. QED BY <1>1, QuietRows DEF CompleteUpdate, SetTask, taskRows

-----------------------------------------------------------------------------
(* Owners *)

(* No running work without an owner, whatever the interleaving, as long as    *)
(* the PM does not write claimed or in_progress by hand.                      *)
THEOREM ActiveOwned ==
  ASSUME PMStatuses \cap Active = {}
  PROVE  Spec => []OwnedWhileActive
<1>1. Init => OwnedWhileActive
  BY DEF Init, OwnedWhileActive, Active
<1>2. OwnedWhileActive /\ IInv /\ [Next]_vars => OwnedWhileActive'
  <2> SUFFICES ASSUME OwnedWhileActive, IInv, [Next]_vars PROVE OwnedWhileActive'
    OBVIOUS
  <2>a. TasksOK BY DEF IInv
  <2>1. CASE OrdinaryStep
    BY <2>1 DEF OwnedWhileActive, OrdinaryStep, OrdinaryRow
  <2>2. ASSUME NEW g \in Handlers, ClaimUpdate(g) PROVE OwnedWhileActive'
    BY <2>1, <2>2, <2>a, ClaimRow DEF OwnedWhileActive, TasksOK
  <2>3. ASSUME NEW g \in Handlers, CompleteUpdate(g) PROVE OwnedWhileActive'
    BY <2>1, <2>3, <2>a, CompleteRow DEF OwnedWhileActive, TasksOK, Active
  <2>4. ASSUME NEW t \in Tasks, UpdateTask(t) PROVE OwnedWhileActive'
    BY <2>4, <2>a, ConstantsAssumption
    DEF UpdateTask, SetTask, OwnedWhileActive, TasksOK
  <2>5. QED BY <2>1, <2>2, <2>3, <2>4, EveryStep
<1>3. QED BY <1>1, <1>2, Invariance, PTL DEF Spec

(* Only the current assignee delivers, as long as the PM does not write done  *)
(* or failed by hand.                                                         *)
THEOREM AssigneeDelivers ==
  ASSUME PMStatuses \cap Delivered = {}
  PROVE  Spec => DeliveredByAssignee
<1> DEFINE Fair == \A t \in Tasks :
             status[t] \notin Delivered /\ status'[t] \in Delivered =>
               \E g \in Handlers : DeliveredBy(g, t)
<1>1. IInv /\ [Next]_vars => [Fair]_taskRows
  <2> SUFFICES ASSUME IInv, [Next]_vars PROVE Fair
    OBVIOUS
  <2>a. TasksOK BY DEF IInv
  <2>1. CASE OrdinaryStep
    BY <2>1 DEF OrdinaryStep, OrdinaryRow, Active, Delivered
  <2>2. ASSUME NEW g \in Handlers, ClaimUpdate(g) PROVE Fair
    BY <2>1, <2>2, <2>a, ClaimRow DEF TasksOK, Delivered
  <2>3. ASSUME NEW g \in Handlers, CompleteUpdate(g) PROVE Fair
    <3>1. req \in [Handlers -> Request] /\ req[g].a \in Agents /\ req[g].t \in Tasks
      BY <2>3 DEF CompleteUpdate, IInv, RequestsOK, RequestOK, AgentCalls
    <3>2. req[g].at = "complete.update" /\ req'[g].at = "complete.count"
      BY <2>3, <3>1 DEF CompleteUpdate, Goto
    <3>3. ASSUME NEW t \in Tasks, status[t] \notin Delivered, status'[t] \in Delivered
          PROVE  DeliveredBy(g, t)
      BY <2>3, <2>a, <3>1, <3>2, <3>3 DEF CompleteUpdate, SetTask, taskRows, TasksOK, DeliveredBy
    <3>4. QED BY <3>3
  <2>4. ASSUME NEW t \in Tasks, UpdateTask(t) PROVE Fair
    BY <2>4, <2>a DEF UpdateTask, SetTask, TasksOK
  <2>5. QED BY <2>1, <2>2, <2>3, <2>4, EveryStep
<1>2. QED BY <1>1, Invariance, PTL DEF Spec, DeliveredByAssignee

-----------------------------------------------------------------------------
(* Refinement of the ownership specification *)

(* An ordinary step keeps some holders and frees the others. *)
LEMMA OrdinaryGivesBack ==
  ASSUME OrdinaryStep
  PROVE  [Ownership!Next]_([t \in Tasks |-> Holder(t)])
<1> DEFINE S == {t \in Tasks : Holder(t) # None /\ Holder(t)' = None}
<1>1. \A t \in Tasks : Holder(t)' = IF t \in S THEN None ELSE Holder(t)
  BY DEF OrdinaryStep, OrdinaryRow, Holder
<1>2. Ownership!GiveBack(S)
  BY <1>1 DEF Ownership!GiveBack
<1>3. S \in SUBSET Tasks
  OBVIOUS
<1>4. QED BY <1>2, <1>3 DEF Ownership!Next

(* ClaimTask is atomic: every behaviour of the server, seen as who holds      *)
(* which task, is a behaviour of TaskOwnership.                               *)
THEOREM ServerImplementsOwnership == Spec => OwnershipSpec
<1> DEFINE H == [t \in Tasks |-> Holder(t)]
<1>1. Init => Ownership!Init
  BY DEF Init, Ownership!Init, Holder, Active
<1>2. IInv /\ [Next]_vars => [Ownership!Next]_H
  <2> SUFFICES ASSUME IInv, [Next]_vars PROVE [Ownership!Next]_H
    OBVIOUS
  <2>a. TasksOK BY DEF IInv
  <2>1. CASE OrdinaryStep
    BY <2>1, OrdinaryGivesBack
  <2>2. ASSUME NEW g \in Handlers, ClaimUpdate(g) PROVE [Ownership!Next]_H
    <3>1. SUFFICES ASSUME NEW t \in Tasks, NEW a \in Agents, status[t] \in Claimable,
                          status'   = [status EXCEPT ![t] = "claimed"],
                          assignee' = [assignee EXCEPT ![t] = a]
                   PROVE  Ownership!Acquire(t, a)
      BY <2>1, <2>2, ClaimRow DEF Ownership!Next
    <3>2. H[t] = None
      BY <3>1 DEF Holder, Claimable, Active
    <3>3. \A u \in Tasks : Holder(u)' = IF u = t THEN a ELSE Holder(u)
      BY <3>1, <2>a DEF Holder, TasksOK, Active
    <3>4. QED BY <3>2, <3>3 DEF Ownership!Acquire
  <2>3. ASSUME NEW g \in Handlers, CompleteUpdate(g) PROVE [Ownership!Next]_H
    <3>1. SUFFICES ASSUME NEW t \in Tasks, NEW a \in Agents,
                          NEW s \in {"done", "failed", "escalated", "needs_fix"},
                          assignee[t] = a,
                          status'   = [status EXCEPT ![t] = s],
                          assignee' = [assignee EXCEPT ![t] = None]
                   PROVE  [Ownership!Next]_H
      BY <2>1, <2>3, CompleteRow
    <3>2. \A u \in Tasks : Holder(u)' = IF u = t THEN None ELSE Holder(u)
      BY <3>1, <2>a DEF Holder, TasksOK, Active
    <3>3. CASE Holder(t) = None
      BY <3>2, <3>3
    <3>4. CASE Holder(t) # None
      <4>1. Ownership!GiveBack({t})
        BY <3>2, <3>4 DEF Ownership!GiveBack
      <4>2. QED BY <4>1 DEF Ownership!Next
    <3>5. QED BY <3>3, <3>4
  <2>4. ASSUME NEW t \in Tasks, UpdateTask(t) PROVE [Ownership!Next]_H
    <3>1. PICK s \in PMStatuses \cup {status[t]}, w \in PMAssignees \cup {assignee[t]} :
             SetTask(t, s, w, retry[t], Touched(t))
      BY <2>4 DEF UpdateTask
    <3>2. \A u \in Tasks \ {t} : Holder(u)' = Holder(u)
      BY <3>1, <2>a DEF SetTask, Holder, TasksOK
    <3>3. Holder(t)' = IF s \in Active THEN w ELSE None
      BY <3>1, <2>a DEF SetTask, Holder, TasksOK
    <3>4. CASE Holder(t)' = Holder(t)
      BY <3>2, <3>4
    <3>5. CASE Holder(t)' = None /\ Holder(t) # None
      <4>1. Ownership!GiveBack({t})
        BY <3>2, <3>5 DEF Ownership!GiveBack
      <4>2. QED BY <4>1 DEF Ownership!Next
    <3>6. CASE Holder(t)' # None /\ Holder(t) = None
      <4>1. w \in Agents /\ Holder(t)' = w
        BY <3>3, <3>6, <2>a, ConstantsAssumption DEF TasksOK
      <4>2. Ownership!Acquire(t, w)
        BY <3>2, <3>6, <4>1 DEF Ownership!Acquire
      <4>3. QED BY <4>1, <4>2 DEF Ownership!Next
    <3>7. CASE Holder(t)' # Holder(t) /\ Holder(t)' # None /\ Holder(t) # None
      <4>1. w \in PMAssignees /\ Holder(t)' = w
        BY <3>3, <3>7, <2>a DEF TasksOK, Holder
      <4>2. Ownership!HandOver(t, w)
        BY <3>2, <4>1, <2>4 DEF Ownership!HandOver, UpdateTask
      <4>3. QED BY <4>1, <4>2, ConstantsAssumption DEF Ownership!Next
    <3>8. QED BY <3>4, <3>5, <3>6, <3>7
  <2>5. QED BY <2>1, <2>2, <2>3, <2>4, EveryStep
<1>3. QED BY <1>1, <1>2, Invariance, PTL DEF Spec, OwnershipSpec, Ownership!Spec
=============================================================================
