--------------------------- MODULE WorkflowEngine ---------------------------
(***************************************************************************)
(* One workflow of the workflow engine (internal/workflow): its phases,    *)
(* the tasks mapped to them, and the calls of the task and workflow        *)
(* handlers that create tasks, count them and move the phases.             *)
(*                                                                         *)
(* None of these calls is a transaction: a call is a sequence of           *)
(* statements, each an action here, and the statements of several calls    *)
(* interleave.  The life of a task between two engine calls is             *)
(* TaskLifecycle's subject and is reduced here to claims, progress and     *)
(* verdicts.                                                               *)
(***************************************************************************)
EXTENDS Integers, FiniteSets, SequencesExt

CONSTANTS
  Agents,     \* workers that claim and complete tasks
  None,       \* no agent
  Calls,      \* HTTP handlers that can be in flight together
  Template,   \* the phase types of the workflow's template
  MaxTasks,   \* bound: rows of tasks, see Rows
  MaxCount,   \* bound: a phase that has counted more has no task claimed again
  MaxPasses,  \* bound: a task that has passed more reviews is not claimed again
  Targets,    \* bound: the indexes a run's gate verdicts name
  Operations, \* bound: the operations a run exercises
  PhaseScans  \* whether reads into the struct Phase succeed.  sqlx refuses a row
              \* with a column the struct lacks, the queries select description
              \* and Phase has no such field: FALSE for this code, TRUE for what
              \* the code behind these reads does once they succeed

PhaseTypes == {"single", "multi", "per_dev", "review", "gate", "decision", "normal", "other"}

ASSUME FlowAssumption ==
  /\ Template \in Seq(PhaseTypes) /\ Template # <<>>
  /\ MaxTasks \in Nat /\ MaxCount \in Nat /\ MaxPasses \in Nat /\ PhaseScans \in BOOLEAN
  /\ None \notin Agents

VARIABLES
  workflow, \* workflows.status, "none" before it starts and "deleted" after
  phases,   \* workflow_phases by index: status, total_tasks, completed_tasks
  tasks,    \* tasks with their row of workflow_task_map, in the order of creation
  call      \* what each handler does next, with which task and phase, and the
            \* finished tasks for which its loop has still to create one

vars == <<workflow, phases, tasks, call>>

Idle == [pc |-> "idle", a |-> None, t |-> 0, i |-> 0, n |-> 0, left |-> {}]
Free(g)  == call[g] = Idle
Spare    == \E g \in Calls : Free(g)  \* a handler for a call that is one step
At(g, p) == call[g].pc = p

Return(g)         == call' = [call EXCEPT ![g] = Idle]
Goto(g, p)        == call' = [call EXCEPT ![g].pc = p]
GotoPhase(g, p, i) == call' = [call EXCEPT ![g].pc = p, ![g].i = i]

-----------------------------------------------------------------------------
(* Rows *)

Finished == {"done", "deployed"}
Mapped(i) == {t \in DOMAIN tasks : tasks[t].phase = i}
FinishedIn(i) == {t \in Mapped(i) : tasks[t].status \in Finished}
WithStatus(s) == {i \in DOMAIN phases : phases[i].status = s}
Least(S) == CHOOSE i \in S : \A j \in S : i <= j

\* UPDATE workflow_phases ... WHERE id: no row after the workflow is deleted.
Update(i, row) == [j \in DOMAIN phases |-> IF j = i THEN row ELSE phases[j]]
SetStatus(i, s) ==
  IF i \in DOMAIN phases THEN Update(i, [phases[i] EXCEPT !.status = s]) ELSE phases
CountUp(i) ==
  IF i \in DOMAIN phases THEN Update(i, [phases[i] EXCEPT !.completed = @ + 1]) ELSE phases
\* Mutant: the planned number is written, not added.
PlanReset(i, n) ==
  IF i \in DOMAIN phases THEN Update(i, [phases[i] EXCEPT !.total = n]) ELSE phases

Plan(i, n) ==
  IF i \in DOMAIN phases THEN Update(i, [phases[i] EXCEPT !.total = @ + n]) ELSE phases

\* Bound: a behaviour has MaxTasks tasks, or fewer of them and one that is
\* worked on again in a phase that has counted it.
Rows(n) ==
  Len(tasks) + n <= MaxTasks - (IF \E i \in DOMAIN phases : phases[i].completed > 2
                                THEN 1 ELSE 0)
MayWork(t) ==
  tasks[t].phase \in DOMAIN phases =>
    \/ phases[tasks[t].phase].completed = 0
    \/ phases[tasks[t].phase].completed <= MaxCount /\ Len(tasks) < MaxTasks

NewTask(kind, status, i, from) ==
  [kind |-> kind, status |-> status, assignee |-> None, phase |-> i, from |-> from, passes |-> 0]

\* Mutant: the trigger unblocks and does not count.
FinishUncounted(t, s) ==
  LET newly == tasks[t].status \notin Finished IN
  /\ tasks' = [u \in DOMAIN tasks |->
       IF u = t THEN [tasks[u] EXCEPT !.status = s, !.assignee = None]
       ELSE IF newly /\ tasks[u].status = "blocked" /\ tasks[u].from = t
       THEN [tasks[u] EXCEPT !.status = "available"]
       ELSE tasks[u]]
  /\ UNCHANGED phases

\* An UPDATE that makes t finished fires fn_task_completed: the phase counts it
\* and the task that waits for it is unblocked.
Finish(t, s) ==
  LET newly == tasks[t].status \notin Finished IN
  /\ tasks' = [u \in DOMAIN tasks |->
       IF u = t THEN [tasks[u] EXCEPT !.status = s, !.assignee = None]
       ELSE IF newly /\ tasks[u].status = "blocked" /\ tasks[u].from = t
       THEN [tasks[u] EXCEPT !.status = "available"]
       ELSE tasks[u]]
  /\ phases' = IF newly THEN CountUp(tasks[t].phase) ELSE phases

-----------------------------------------------------------------------------
(* activatePhase.  Its callers pass a phase without its configuration, so a *)
(* "multi" phase has one task, a gate is an agent's and a decision passes.   *)

StartWorkflow(g) ==
  /\ "start" \in Operations /\ Free(g) /\ workflow = "none"
  /\ workflow' = "active"
  /\ phases' = [i \in DOMAIN Template |->
       [status |-> IF i = 1 THEN "active" ELSE "pending", total |-> 0, completed |-> 0]]
  /\ call' = [call EXCEPT ![g] = [Idle EXCEPT !.pc = "activate", !.i = 1]]
  /\ UNCHANGED tasks

\* createSinglePhaseTasks, createMultiPhaseTasks, enterGatePhase: one task ...
ActivateTask(g) ==
  /\ At(g, "activate") /\ Template[call[g].i] \in {"single", "multi", "gate"}
  /\ Rows(1)
  /\ tasks' = Append(tasks,
       NewTask(IF Template[call[g].i] = "gate" THEN "gate" ELSE "work", "available", 0, 0))
  /\ call' = [call EXCEPT ![g].pc = "map", ![g].t = Len(tasks) + 1]
  /\ UNCHANGED <<workflow, phases>>

\* ... then its row of workflow_task_map, unless the workflow is gone ...
MapTask(g) ==
  /\ At(g, "map")
  /\ IF call[g].i \in DOMAIN phases
     THEN /\ tasks' = [tasks EXCEPT ![call[g].t].phase = call[g].i]
          /\ call' = [call EXCEPT ![g].pc = "run", ![g].n = 1]
     ELSE Return(g) /\ UNCHANGED tasks
  /\ UNCHANGED <<workflow, phases>>

\* ... then the phase, with its number of tasks.
RunPhase(g) ==
  /\ At(g, "run")
  /\ phases' = IF call[g].i \in DOMAIN phases
               THEN Update(call[g].i, [phases[call[g].i] EXCEPT
                             !.status = "running", !.total = call[g].n])
               ELSE phases
  /\ Return(g)
  /\ UNCHANGED <<workflow, tasks>>

\* createPerDevPhaseTasks: a task for every finished task of the phase before ...
ActivatePerDev(g) ==
  /\ At(g, "activate") /\ Template[call[g].i] = "per_dev"
  /\ LET i    == call[g].i
         prev == FinishedIn(i - 1)
     IN
     \/ /\ Mapped(i) # {}
        /\ phases' = SetStatus(i, "running")
        /\ Return(g) /\ UNCHANGED tasks
     \/ /\ Mapped(i) = {} /\ (i = 1 \/ prev = {})
        /\ phases' = IF i \in DOMAIN phases
                     THEN Update(i, [phases[i] EXCEPT !.status = "completed", !.total = 0])
                     ELSE phases
        /\ Return(g) /\ UNCHANGED tasks
     \/ /\ Mapped(i) = {} /\ i > 1 /\ prev # {}
        /\ call' = [call EXCEPT ![g].pc = "dev.task", ![g].n = Cardinality(prev),
                                ![g].left = prev]
        /\ UNCHANGED <<phases, tasks>>
  /\ UNCHANGED workflow

\* ... one after the other: it is inserted as blocked, ...
DevTask(g) ==
  /\ At(g, "dev.task") /\ Rows(1)
  /\ tasks' = Append(tasks, NewTask("work", "blocked", 0, 0))
  /\ call' = [call EXCEPT ![g].pc = "dev.dep", ![g].t = Len(tasks) + 1]
  /\ UNCHANGED <<workflow, phases>>

\* ... then waits for the finished task, should that be finished again, ...
DevDep(g) ==
  /\ At(g, "dev.dep")
  /\ \E d \in call[g].left :
       /\ tasks' = [tasks EXCEPT ![call[g].t].from = d]
       /\ call' = [call EXCEPT ![g].pc = "dev.map", ![g].left = @ \ {d}]
  /\ UNCHANGED <<workflow, phases>>

\* ... and is mapped to the phase.  An insert that fails ends the call, and leaves
\* what a restart leaves.
DevMap(g) ==
  /\ At(g, "dev.map")
  /\ IF call[g].i \in DOMAIN phases
     THEN /\ tasks' = [tasks EXCEPT ![call[g].t].phase = call[g].i]
          /\ Goto(g, IF call[g].left = {} THEN "run" ELSE "dev.task")
     ELSE Return(g) /\ UNCHANGED tasks
  /\ UNCHANGED <<workflow, phases>>

ActivateDecision(g) ==
  /\ At(g, "activate") /\ Template[call[g].i] = "decision"
  /\ phases' = SetStatus(call[g].i, "completed")
  /\ Goto(g, "advance")
  /\ UNCHANGED <<workflow, tasks>>

\* "normal" has no tasks of its own; a type activatePhase does not know is logged
\* and the phase stays active.
ActivatePlain(g) ==
  /\ At(g, "activate") /\ Template[call[g].i] \in {"normal", "review", "other"}
  /\ phases' = IF Template[call[g].i] = "normal" THEN SetStatus(call[g].i, "running")
               ELSE phases
  /\ Return(g)
  /\ UNCHANGED <<workflow, tasks>>

-----------------------------------------------------------------------------
(* advanceWorkflow *)

\* A phase is left when all its tasks are done, or when it has none and is
\* neither a gate nor a decision.
MayLeave(i) ==
  \/ phases[i].completed = phases[i].total /\ phases[i].total > 0
  \/ phases[i].total = 0 /\ Template[i] \notin {"gate", "decision"}

AdvanceRead(g) ==
  /\ At(g, "advance")
  /\ LET active == WithStatus("active") IN
       IF PhaseScans /\ active # {} /\ MayLeave(Least(active))
       THEN GotoPhase(g, "leave", Least(active))
       ELSE Return(g)
  /\ UNCHANGED <<workflow, phases, tasks>>

AdvanceLeave(g) ==
  /\ At(g, "leave")
  /\ phases' = SetStatus(call[g].i, "completed")
  /\ Goto(g, "next")
  /\ UNCHANGED <<workflow, tasks>>

\* Mutant: the pending phase with the greatest index is next.
AdvanceNextLast(g) ==
  /\ At(g, "next")
  /\ LET pending == WithStatus("pending") IN
     \/ /\ pending = {}
        /\ workflow' = "complete" /\ Return(g) /\ UNCHANGED phases
     \/ /\ pending # {}
        /\ phases' = SetStatus(call[g].i, "complete")
        /\ GotoPhase(g, "enter", CHOOSE i \in pending : \A j \in pending : j <= i)
        /\ UNCHANGED workflow
  /\ UNCHANGED tasks

AdvanceNext(g) ==
  /\ At(g, "next")
  /\ LET pending == WithStatus("pending") IN
     \/ /\ pending = {}
        /\ workflow' = IF workflow = "deleted" THEN workflow ELSE "complete"
        /\ Return(g) /\ UNCHANGED phases
     \/ /\ pending # {}
        /\ phases' = SetStatus(call[g].i, "complete")
        /\ GotoPhase(g, "enter", Least(pending))
        /\ UNCHANGED workflow
  /\ UNCHANGED tasks

\* A gate waits for approval; any other phase becomes active and is activated.
AdvanceEnter(g) ==
  /\ At(g, "enter")
  /\ \/ /\ Template[call[g].i] = "gate"
        /\ phases' = SetStatus(call[g].i, "waiting_approval")
        /\ Return(g)
     \/ /\ Template[call[g].i] # "gate"
        /\ phases' = SetStatus(call[g].i, "active")
        /\ Goto(g, "activate")
  /\ UNCHANGED <<workflow, tasks>>

-----------------------------------------------------------------------------
(* CompleteTask and what it sets off *)

\* The status checks of the handlers, for the statuses modelled here.
MayFinish == {"claimed", "in_progress"}
MayJudge  == {"done", "test"}

\* What was asked for decides which of the engine's functions is called.
Completing == [done |-> "complete.done", pass |-> "complete.pass", fail |-> "complete.fail"]
Calling    == [done |-> "count", pass |-> "passed", fail |-> "failed"]

\* The caller asks for "done", or for a gate decision with a verdict; neither the
\* type of the task nor its assignee is checked.
CompleteRead(g, a, t, verdict) ==
  /\ Free(g) /\ tasks[t].status \in MayFinish
  /\ IF verdict = "done" THEN "complete" \in Operations ELSE "decide" \in Operations
  /\ call' = [call EXCEPT ![g] = [Idle EXCEPT !.pc = Completing[verdict], !.a = a, !.t = t]]
  /\ UNCHANGED <<workflow, phases, tasks>>

\* UPDATE ... WHERE assignee: the engine is called whether a row matched or not.
CompleteUpdate(g) ==
  /\ \E v \in DOMAIN Completing : At(g, Completing[v]) /\ Goto(g, Calling[v])
  /\ IF tasks[call[g].t].assignee = call[g].a THEN Finish(call[g].t, "done")
     ELSE UNCHANGED <<phases, tasks>>
  /\ UNCHANGED workflow

\* CheckAndAdvancePhase counts the task once more, whatever became of it ...
Count(g) ==
  /\ At(g, "count")
  /\ LET i == tasks[call[g].t].phase IN
       IF i \in DOMAIN phases THEN phases' = CountUp(i) /\ GotoPhase(g, "totals", i)
       ELSE Return(g) /\ UNCHANGED phases
  /\ UNCHANGED <<workflow, tasks>>

\* ... reads the two numbers of the phase, one after the other ...
ReadTotal(g) ==
  /\ At(g, "totals")
  /\ LET i == call[g].i IN
       call' = [call EXCEPT ![g].pc = "counted",
                            ![g].n = IF i \in DOMAIN phases THEN phases[i].total ELSE 0]
  /\ UNCHANGED <<workflow, phases, tasks>>

ReadCompleted(g) ==
  /\ At(g, "counted")
  /\ LET i == call[g].i IN
       IF i \in DOMAIN phases /\ phases[i].completed >= call[g].n /\ call[g].n > 0
       THEN Goto(g, "close") ELSE Return(g)
  /\ UNCHANGED <<workflow, phases, tasks>>

\* ... and completes the phase.
ClosePhase(g) ==
  /\ At(g, "close")
  /\ phases' = SetStatus(call[g].i, "completed")
  /\ Goto(g, "queue")
  /\ UNCHANGED <<workflow, tasks>>

\* autoQueueNextPhaseTasks: if the next pending phase is for reviews, a review task
\* for each finished task of the phase ...
QueueRead(g) ==
  /\ At(g, "queue")
  /\ LET pending == WithStatus("pending")
         dev     == FinishedIn(call[g].i)
     IN
     IF /\ PhaseScans /\ pending # {} /\ dev # {}
        /\ Template[Least(pending)] \in {"per_dev", "review"}
     THEN call' = [call EXCEPT ![g].pc = "queue.task", ![g].i = Least(pending),
                               ![g].n = Cardinality(dev), ![g].left = dev]
     ELSE Goto(g, "advance")
  /\ UNCHANGED <<workflow, phases, tasks>>

\* ... one after the other: it is inserted as available; if that fails the loop
\* goes on with the next one ...
QueueTask(g) ==
  /\ At(g, "queue.task")
  /\ \E d \in call[g].left :
       \/ /\ Rows(1)
          /\ tasks' = Append(tasks, NewTask("work", "available", 0, d))
          /\ call' = [call EXCEPT ![g].pc = "queue.map", ![g].t = Len(tasks) + 1,
                                  ![g].left = @ \ {d}]
       \/ /\ "fail" \in Operations
          /\ call' = [call EXCEPT ![g].left = @ \ {d}]
          /\ UNCHANGED tasks
  /\ UNCHANGED <<workflow, phases>>

\* ... and is mapped, unless that fails or the workflow is gone ...
QueueMap(g) ==
  /\ At(g, "queue.map")
  /\ \/ /\ call[g].i \in DOMAIN phases
        /\ tasks' = [tasks EXCEPT ![call[g].t].phase = call[g].i]
     \/ /\ call[g].i \notin DOMAIN phases \/ "fail" \in Operations
        /\ UNCHANGED tasks
  /\ Goto(g, "queue.task")
  /\ UNCHANGED <<workflow, phases>>

\* ... and the next phase plans for all of them, those that failed included.
QueueTotal(g) ==
  /\ At(g, "queue.task") /\ call[g].left = {}
  /\ phases' = Plan(call[g].i, call[g].n)
  /\ Goto(g, "advance")
  /\ UNCHANGED <<workflow, tasks>>

-----------------------------------------------------------------------------
(* CheckGateDecision *)

GatePass(g) ==
  /\ At(g, "passed")
  /\ LET i == tasks[call[g].t].phase IN
       IF i \in DOMAIN phases THEN phases' = SetStatus(i, "completed") /\ Goto(g, "advance")
       ELSE Return(g) /\ UNCHANGED phases
  /\ UNCHANGED <<workflow, tasks>>

\* A failed gate reopens the phase before it, or the one whose index the verdict
\* names: an earlier one, its own, a later one, or an index that no phase has ...
GateFail(g) ==
  /\ At(g, "failed")
  /\ LET i == tasks[call[g].t].phase IN
     \E target \in {i - 1} \cup Targets :
       IF {i, target} \subseteq DOMAIN phases
       THEN phases' = SetStatus(target, "active") /\ GotoPhase(g, "requeue", target)
       ELSE Return(g) /\ UNCHANGED phases
  /\ UNCHANGED <<workflow, tasks>>

\* ... and gives its tasks back to the queue; the phase keeps its counters.
Requeue(g) ==
  /\ At(g, "requeue")
  /\ tasks' = [t \in DOMAIN tasks |->
       IF tasks[t].phase = call[g].i /\ tasks[t].status \in {"done", "test", "in_progress"}
       THEN [tasks[t] EXCEPT !.status = "available", !.assignee = None]
       ELSE tasks[t]]
  /\ Goto(g, "advance")
  /\ UNCHANGED <<workflow, phases>>

-----------------------------------------------------------------------------
(* ReviewTask with verdict pass, and CreateWorkflowTestTask *)

ReviewRead(g, t) ==
  /\ "review" \in Operations /\ Free(g)
  /\ tasks[t].status = "done"
  /\ call' = [call EXCEPT ![g] = [Idle EXCEPT !.pc = "review", !.t = t]]
  /\ UNCHANGED <<workflow, phases, tasks>>

ReviewPass(g) ==
  /\ At(g, "review")
  /\ tasks' = IF tasks[call[g].t].status = "done"
              THEN [tasks EXCEPT ![call[g].t].status = "test", ![call[g].t].passes = @ + 1]
              ELSE tasks
  /\ Goto(g, "test.task")
  /\ UNCHANGED <<workflow, phases>>

\* A test task for the phase that follows the reviewed task's ...
TestTaskNew(g) ==
  /\ At(g, "test.task")
  /\ LET i == tasks[call[g].t].phase IN
       IF i \in DOMAIN phases /\ i + 1 \in DOMAIN phases
       THEN /\ Rows(1)
            /\ tasks' = Append(tasks, NewTask("test", "available", 0, call[g].t))
            /\ call' = [call EXCEPT ![g].pc = "test.map", ![g].i = i + 1,
                                    ![g].t = Len(tasks) + 1]
       ELSE Return(g) /\ UNCHANGED tasks
  /\ UNCHANGED <<workflow, phases>>

\* ... is mapped to it, unless the workflow is gone ...
TestTaskMap(g) ==
  /\ At(g, "test.map")
  /\ IF call[g].i \in DOMAIN phases
     THEN tasks' = [tasks EXCEPT ![call[g].t].phase = call[g].i] /\ Goto(g, "test.total")
     ELSE Return(g) /\ UNCHANGED tasks
  /\ UNCHANGED <<workflow, phases>>

\* ... and planned for.
TestTaskTotal(g) ==
  /\ At(g, "test.total")
  /\ phases' = Plan(call[g].i, 1)
  /\ Return(g)
  /\ UNCHANGED <<workflow, tasks>>

-----------------------------------------------------------------------------
(* Workflow handlers *)

\* Mutant: a gate that has been reached is approved, waiting or not.
ApproveReadAny(g) ==
  /\ "approve" \in Operations /\ Free(g) /\ PhaseScans
  /\ \E i \in DOMAIN phases :
       /\ Template[i] = "gate" /\ phases[i].status # "pending"
       /\ call' = [call EXCEPT ![g] = [Idle EXCEPT !.pc = "approve", !.i = i]]
  /\ UNCHANGED <<workflow, phases, tasks>>

\* ApproveGate reads the waiting gate ...
ApproveRead(g) ==
  /\ "approve" \in Operations /\ Free(g) /\ PhaseScans
  /\ \E i \in WithStatus("waiting_approval") :
       call' = [call EXCEPT ![g] = [Idle EXCEPT !.pc = "approve", !.i = i]]
  /\ UNCHANGED <<workflow, phases, tasks>>

\* ... makes it active ...
ApproveGate(g) ==
  /\ At(g, "approve")
  /\ phases' = SetStatus(call[g].i, "active")
  /\ Goto(g, "resume")
  /\ UNCHANGED <<workflow, tasks>>

\* ... resumes the workflow and advances it.
ApproveResume(g) ==
  /\ At(g, "resume")
  /\ workflow' = IF workflow = "deleted" THEN workflow ELSE "active"
  /\ Goto(g, "advance")
  /\ UNCHANGED <<phases, tasks>>

\* Mutant: the completed phases are cancelled too.
RejectAll ==
  /\ "reject" \in Operations /\ Spare /\ workflow \notin {"none", "deleted"}
  /\ workflow' = "rejected"
  /\ phases' = [i \in DOMAIN phases |-> [phases[i] EXCEPT !.status = "cancelled"]]
  /\ UNCHANGED <<tasks, call>>

\* Reject is one transaction.
Reject ==
  /\ "reject" \in Operations /\ Spare /\ workflow \notin {"none", "deleted"}
  /\ workflow' = "rejected"
  /\ phases' = [i \in DOMAIN phases |->
       IF phases[i].status = "completed" THEN phases[i]
       ELSE [phases[i] EXCEPT !.status = "cancelled"]]
  /\ UNCHANGED <<tasks, call>>

\* Mutant: the mappings stay.
DeleteKeepsMappings ==
  /\ "delete" \in Operations /\ Spare /\ workflow \notin {"none", "deleted"}
  /\ workflow' = "deleted"
  /\ phases' = <<>>
  /\ UNCHANGED <<tasks, call>>

\* DELETE cascades to the phases and the mappings; the tasks stay.
DeleteWorkflow ==
  /\ "delete" \in Operations /\ Spare /\ workflow \notin {"none", "deleted"}
  /\ workflow' = "deleted"
  /\ phases' = <<>>
  /\ tasks' = [t \in DOMAIN tasks |-> [tasks[t] EXCEPT !.phase = 0]]
  /\ UNCHANGED call

-----------------------------------------------------------------------------
(* The task handlers that do not reach the engine *)

Claim(a, t) ==
  /\ Spare /\ tasks[t].status \in {"available", "needs_fix"}
  /\ tasks[t].passes <= MaxPasses /\ MayWork(t)
  /\ tasks' = [tasks EXCEPT ![t].status = "claimed", ![t].assignee = a]
  /\ UNCHANGED <<workflow, phases, call>>

Progress(t) ==
  /\ Spare /\ tasks[t].status = "claimed"
  /\ tasks' = [tasks EXCEPT ![t].status = "in_progress"]
  /\ UNCHANGED <<workflow, phases, call>>

\* A failed review or a failed test.
SendBack(t) ==
  /\ "review" \in Operations /\ Spare
  /\ tasks[t].status \in MayJudge
  /\ tasks' = [tasks EXCEPT ![t].status = "needs_fix"]
  /\ UNCHANGED <<workflow, phases, call>>

Deploy(t) ==
  /\ Spare /\ tasks[t].status = "test"
  /\ Finish(t, "deployed")
  /\ UNCHANGED <<workflow, call>>

\* The server restarts: the calls in flight are lost, the rows are not.
Restart ==
  /\ "restart" \in Operations /\ \E g \in Calls : ~Free(g)
  /\ call' = [g \in Calls |-> Idle]
  /\ UNCHANGED <<workflow, phases, tasks>>

-----------------------------------------------------------------------------
(* The specification *)

Init ==
  /\ workflow = "none" /\ phases = <<>> /\ tasks = <<>>
  /\ call = [g \in Calls |-> Idle]

Activate(g) ==
  \/ ActivateTask(g) \/ ActivateDecision(g) \/ ActivatePlain(g)
  \/ ActivatePerDev(g) \/ DevTask(g) \/ DevDep(g) \/ DevMap(g)
Advance(g) == AdvanceRead(g) \/ AdvanceLeave(g) \/ AdvanceNext(g) \/ AdvanceEnter(g)

Next ==
  \/ \E g \in Calls :
       \/ StartWorkflow(g) \/ Activate(g) \/ MapTask(g) \/ RunPhase(g) \/ Advance(g)
       \/ CompleteUpdate(g) \/ Count(g) \/ ReadTotal(g) \/ ReadCompleted(g) \/ ClosePhase(g)
       \/ QueueRead(g) \/ QueueTask(g) \/ QueueMap(g) \/ QueueTotal(g)
       \/ GatePass(g) \/ GateFail(g) \/ Requeue(g)
       \/ ReviewPass(g) \/ TestTaskNew(g) \/ TestTaskMap(g) \/ TestTaskTotal(g)
       \/ ApproveRead(g) \/ ApproveGate(g) \/ ApproveResume(g)
  \/ \E g \in Calls, t \in DOMAIN tasks :
       \/ ReviewRead(g, t)
       \/ \E a \in Agents, v \in {"done", "pass", "fail"} : CompleteRead(g, a, t, v)
  \/ \E t \in DOMAIN tasks :
       \/ Progress(t) \/ SendBack(t) \/ Deploy(t)
       \/ \E a \in Agents : Claim(a, t)
  \/ Reject \/ DeleteWorkflow \/ Restart

Spec == Init /\ [][Next]_vars

-----------------------------------------------------------------------------
(* Properties *)

Quiet == \A g \in Calls : Free(g)
TestTasksOf(t) == {u \in DOMAIN tasks : tasks[u].kind = "test" /\ tasks[u].from = t}

(* Type correctness; a mapped task belongs to an existing phase, and a call   *)
(* holds only tasks and phases that exist.                                    *)
TypeOK ==
  /\ workflow \in {"none", "active", "complete", "rejected", "deleted"}
  /\ DOMAIN phases \in {{}, DOMAIN Template}
  /\ \A i \in DOMAIN phases :
       phases[i] \in [status: {"pending", "active", "running", "waiting_approval",
                               "completed", "complete", "cancelled"},
                      total: Nat, completed: Nat]
  /\ Len(tasks) <= MaxTasks
  /\ \A t \in DOMAIN tasks :
       /\ tasks[t] \in [kind: {"work", "gate", "test"},
                        status: {"available", "blocked", "claimed", "in_progress", "done",
                                 "test", "needs_fix", "deployed"},
                        assignee: Agents \cup {None}, phase: DOMAIN phases \cup {0},
                        from: 0..Len(tasks), passes: Nat]
  /\ \A g \in Calls :
       /\ call[g].a \in Agents \cup {None} /\ call[g].t \in 0..Len(tasks)
       /\ call[g].i \in 0..Len(Template) /\ call[g].n \in Nat
       /\ call[g].left \subseteq DOMAIN tasks

(* Totals match: when no call is in flight, each phase plans for exactly the  *)
(* tasks that are mapped to it, whatever calls created them side by side.     *)
TotalsMatch == Quiet => \A i \in DOMAIN phases : phases[i].total = Cardinality(Mapped(i))

(* Completed phases stay: a phase that is completed, or has been left as      *)
(* complete, is undone only by the verdict of a failed gate that names it.    *)
(* In this commit that holds over a rejection and other calls in flight, not  *)
(* behind the failing reads: there it is about one call after the other.      *)
Completed == WithStatus("completed") \cup WithStatus("complete")
CompletedStays ==
  [][\A i \in DOMAIN phases' \cap Completed :
       \/ phases'[i].status \in {"completed", "complete"}
       \/ \E g \in Calls : call'[g].pc = "requeue" /\ call'[g].i = i]_vars

(* Every finish counts: a phase has counted at least the tasks that are       *)
(* finished in it, over reviews, requeues and deployments.                    *)
CountsEveryFinish ==
  \A i \in DOMAIN phases : Cardinality(FinishedIn(i)) <= phases[i].completed

(* Opened in order: a pending phase is opened only when no earlier phase is   *)
(* pending, over requeues, early test tasks and approvals; the verdict of a   *)
(* failed gate may open the one phase it names, any phase, out of order.      *)
Opened == {"active", "running", "waiting_approval"}
OpenedInOrder ==
  [][\A i \in DOMAIN phases' \cap WithStatus("pending") :
       phases'[i].status \in Opened =>
         \/ \A j \in 1..i - 1 : j \notin WithStatus("pending")
         \/ \E g \in Calls : call'[g].pc = "requeue" /\ call'[g].i = i]_vars

-----------------------------------------------------------------------------
(* What the code does not keep, promised by the documents or expected of it; the README says how *)
(* each of them is broken.                                                   *)

(* All done: a phase is completed, other than by a gate's verdict, when the   *)
(* tasks mapped to it are finished ("All tasks in phase done").               *)
ClosedWhenDone ==
  [][\A g \in Calls : ClosePhase(g) => Mapped(call[g].i) = FinishedIn(call[g].i)]_vars

(* Progress stays within the plan: when no call is in flight, no phase has    *)
(* counted more completed tasks than it has tasks.                            *)
CountsOnce == Quiet => \A i \in DOMAIN phases : phases[i].completed <= phases[i].total

(* One test task per pass: a task that passed review n times has at most n    *)
(* test tasks.                                                                *)
OneTestTaskPerPass ==
  \A t \in DOMAIN tasks : Cardinality(TestTasksOf(t)) <= tasks[t].passes

(* The workflow advances: when no call is in flight, the phase that follows a *)
(* completed one has been opened.                                             *)
NextPhaseOpens ==
  Quiet /\ workflow = "active" =>
    \A i \in WithStatus("completed") : i + 1 \notin WithStatus("pending")

(* Somebody approves: a gate phase is completed only by a verdict or by the   *)
(* engine leaving it once it has been approved.                               *)
GateNeedsDecision ==
  [][\A i \in DOMAIN phases' \cap DOMAIN phases :
       Template[i] = "gate" /\ phases[i].status # "completed" /\ phases'[i].status = "completed"
       => \E g \in Calls : call[g].pc \in {"passed", "leave"}]_vars

(* Rejection is final: a rejected workflow and its cancelled phases are not   *)
(* set going again by calls that read them before.                            *)
RejectionIsFinal ==
  [][/\ workflow = "rejected" => workflow' \in {"rejected", "deleted"}
     /\ \A i \in DOMAIN phases' \cap WithStatus("cancelled") :
          phases'[i].status = "cancelled"]_vars
=============================================================================
