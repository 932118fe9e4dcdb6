---------------------- MODULE WorkflowSequentialProofs ----------------------
(***************************************************************************)
(* Proofs of what the engine keeps when its calls do not overlap: every    *)
(* finish is counted, and a completed phase stays completed.  Restarts     *)
(* between two statements of the call, inserts that fail, deletions and    *)
(* gate verdicts are included, and so is the code behind the reads into    *)
(* Phase; rejections are, except behind these reads, for what they do to   *)
(* completed phases.                                                       *)
(*                                                                         *)
(* Two calls are enough to break the first: a task is offered before it is *)
(* mapped.  One call at a time, what a call has read of its task or its    *)
(* phase is still true at its next statement (HeldOK), and that is what    *)
(* the proofs use.                                                         *)
(***************************************************************************)
EXTENDS WorkflowPlanProofs

OneAtATime == \A g, h \in Calls : g = h

-----------------------------------------------------------------------------
(* The invariant *)

\* Statements that map the task the call has inserted, or come before that.
Inserting == {"map", "test.map", "dev.dep", "dev.map", "queue.map"}

\* What a call knows of the task it is about to map, and of the phase it has left.
HeldOK ==
  \A g \in Calls :
    /\ call[g].pc \in Inserting => tasks[call[g].t].status \notin Finished
    /\ call[g].pc = "next" /\ call[g].i \in DOMAIN phases =>
         phases[call[g].i].status = "completed"

SequentialInv == HeldOK /\ CountsEveryFinish

-----------------------------------------------------------------------------
(* The call in flight *)

Relying == Inserting \cup {"next"}

(* While a call relies on its task or phase, only its own next statement, or  *)
(* a restart, can happen.                                                     *)
LEMMA Alone ==
  ASSUME OneAtATime, [Next]_vars, NEW g \in Calls, call[g].pc \in Relying
  PROVE  \/ UNCHANGED vars \/ Restart \/ AdvanceNext(g)
         \/ MapTask(g) \/ TestTaskMap(g) \/ DevDep(g) \/ DevMap(g) \/ QueueMap(g)
<1> DEFINE Goal ==
      \/ UNCHANGED vars \/ Restart \/ AdvanceNext(g)
      \/ MapTask(g) \/ TestTaskMap(g) \/ DevDep(g) \/ DevMap(g) \/ QueueMap(g)
<1> SUFFICES Goal OBVIOUS
<1>0. Restart => Goal OBVIOUS
<1>1. \A h \in Calls : h = g /\ ~Free(h)
  BY DEF OneAtATime, Free, Idle, Relying, Inserting
<1>2. ~Spare
  BY <1>1 DEF Spare
<1>3. ASSUME NEW h \in Calls,
             \/ StartWorkflow(h) \/ ApproveRead(h) \/ CompleteUpdate(h)
             \/ ActivateTask(h) \/ ActivatePerDev(h) \/ ActivateDecision(h) \/ ActivatePlain(h)
             \/ DevTask(h) \/ RunPhase(h) \/ AdvanceRead(h) \/ AdvanceLeave(h) \/ AdvanceEnter(h)
             \/ Count(h) \/ ReadTotal(h) \/ ReadCompleted(h) \/ ClosePhase(h)
      PROVE  FALSE
  <2>1. ~StartWorkflow(h) /\ ~ApproveRead(h)
    BY <1>1 DEF StartWorkflow, ApproveRead
  <2>2. ASSUME CompleteUpdate(h) PROVE FALSE
    <3>1. PICK v \in DOMAIN Completing : At(g, Completing[v])
      BY <1>1, <2>2 DEF CompleteUpdate
    <3>2. QED BY <3>1 DEF At, Completing, Relying, Inserting
  <2>3. QED
    BY <1>1, <1>3, <2>1, <2>2
    DEF ActivateTask, ActivatePerDev, ActivateDecision, ActivatePlain, DevTask, RunPhase,
        AdvanceRead, AdvanceLeave, AdvanceEnter, Count, ReadTotal, ReadCompleted, ClosePhase, At,
        Relying, Inserting
<1>4. ASSUME NEW h \in Calls,
             \/ QueueRead(h) \/ QueueTask(h) \/ QueueTotal(h)
             \/ GatePass(h) \/ GateFail(h) \/ Requeue(h)
             \/ ReviewPass(h) \/ TestTaskNew(h) \/ TestTaskTotal(h)
             \/ ApproveGate(h) \/ ApproveResume(h)
      PROVE  FALSE
  BY <1>1, <1>4 DEF QueueRead, QueueTask, QueueTotal, GatePass, Requeue, GateFail, ReviewPass,
                    TestTaskNew, TestTaskTotal, ApproveGate, ApproveResume, At, Relying, Inserting
<1>5. ASSUME NEW h \in Calls,
             \/ AdvanceNext(h) \/ MapTask(h) \/ TestTaskMap(h)
             \/ DevDep(h) \/ DevMap(h) \/ QueueMap(h)
      PROVE  Goal
  <2>1. h = g BY <1>1
  <2>2. QED BY <1>5, <2>1
<1>6. ASSUME NEW h \in Calls, NEW t \in DOMAIN tasks,
             \/ ReviewRead(h, t)
             \/ \E a \in Agents, v \in {"done", "pass", "fail"} : CompleteRead(h, a, t, v)
      PROVE  FALSE
  BY <1>1, <1>6 DEF ReviewRead, CompleteRead
<1>7. \A t \in DOMAIN tasks :
        ~Progress(t) /\ ~SendBack(t) /\ ~Deploy(t) /\ \A a \in Agents : ~Claim(a, t)
  BY <1>2 DEF Progress, SendBack, Deploy, Claim
<1>8. ~Reject /\ ~DeleteWorkflow
  BY <1>2 DEF Reject, DeleteWorkflow
<1>9. QED
  <2> HIDE DEF Goal
  <2>1. CASE Next
    BY <2>1, <1>3, <1>4, <1>5, <1>6, <1>7, <1>8, <1>0 DEF Next, Activate, Advance
  <2>2. QED BY <2>1 DEF Goal

(* How a call comes to rely on a task or a phase. *)
LEMMA Arrives ==
  ASSUME FlowInv, OneAtATime, [Next]_vars, NEW g \in Calls, call'[g].pc \in Relying
  PROVE  \/ call'[g] = call[g]
         \/ ActivateTask(g) \/ TestTaskNew(g) \/ DevTask(g) \/ DevDep(g) \/ QueueTask(g)
         \/ AdvanceLeave(g)
<1> DEFINE Goal ==
      \/ call'[g].pc \notin Relying
      \/ call'[g] = call[g]
      \/ ActivateTask(g) \/ TestTaskNew(g) \/ DevTask(g) \/ DevDep(g) \/ QueueTask(g)
      \/ AdvanceLeave(g)
<1> SUFFICES Goal OBVIOUS
<1>0. call \in [Calls -> Request] /\ call[g] \in Request
  BY DEF FlowInv, CallsOK
<1>1. \A h \in Calls : h = g
  BY DEF OneAtATime
<1>2. ASSUME NEW h \in Calls,
             \/ Return(h)
             \/ \E p : p \notin Relying /\ (Goto(h, p) \/ \E i : GotoPhase(h, p, i))
      PROVE  Goal
  <2>1. CASE Return(h)
    <3>1. call'[g] = Idle BY <1>0, <1>1, <2>1 DEF Return
    <3>2. QED BY <3>1, IdleOK DEF Relying, Inserting
  <2>2. CASE \E p : p \notin Relying /\ (Goto(h, p) \/ \E i : GotoPhase(h, p, i))
    <3>1. PICK p : p \notin Relying /\ (Goto(h, p) \/ \E i : GotoPhase(h, p, i))
      BY <2>2
    <3>2. CASE Goto(h, p)
      <4>1. call'[g] = call[g] \/ call'[g].pc = p BY <3>2, CallAfter
      <4>2. QED BY <3>1, <4>1
    <3>3. CASE \E i : GotoPhase(h, p, i)
      <4>1. PICK i : GotoPhase(h, p, i) BY <3>3
      <4>2. call'[g] = call[g] \/ call'[g].pc = p BY <4>1, CallAfter
      <4>3. QED BY <3>1, <4>2
    <3>4. QED BY <3>1, <3>2, <3>3
  <2>3. QED BY <1>2, <2>1, <2>2
<1>3. ASSUME NEW h \in Calls,
             \/ RunPhase(h) \/ ActivateDecision(h) \/ ActivatePlain(h) \/ DevMap(h)
             \/ AdvanceRead(h) \/ AdvanceNext(h) \/ AdvanceEnter(h)
             \/ CompleteUpdate(h) \/ Count(h) \/ ReadCompleted(h) \/ ClosePhase(h)
             \/ QueueMap(h) \/ QueueTotal(h) \/ GatePass(h) \/ GateFail(h) \/ Requeue(h)
             \/ ReviewPass(h) \/ TestTaskMap(h) \/ TestTaskTotal(h)
             \/ ApproveGate(h) \/ ApproveResume(h)
      PROVE  Goal
  <2> DEFINE P == {"advance", "leave", "enter", "activate", "run", "dev.task", "count", "passed",
                   "failed", "totals", "close", "queue", "queue.task", "requeue", "test.task",
                   "test.total", "resume"}
  <2>1. \A p \in P : p \notin Relying
    BY DEF Relying, Inserting
  <2>2. ASSUME CompleteUpdate(h) PROVE \E p \in P : Goto(h, p)
    <3>1. PICK v \in DOMAIN Completing : Goto(h, Calling[v])
      BY <2>2 DEF CompleteUpdate
    <3>2. Calling[v] \in P
      BY DEF Completing, Calling
    <3>3. QED BY <3>1, <3>2
  <2>3. ASSUME DevMap(h), ~Return(h) PROVE \E p \in P : Goto(h, p)
    <3>1. Goto(h, "run") \/ Goto(h, "dev.task") BY <2>3 DEF DevMap
    <3>2. QED BY <3>1
  <2>4. Return(h) \/ \E p \in P : Goto(h, p) \/ \E i : GotoPhase(h, p, i)
    <3>1. CASE \/ RunPhase(h) \/ ActivateDecision(h) \/ ActivatePlain(h) \/ AdvanceRead(h)
               \/ AdvanceNext(h) \/ AdvanceEnter(h) \/ Count(h) \/ ReadCompleted(h)
      BY <3>1 DEF RunPhase, ActivateDecision, ActivatePlain, AdvanceRead, AdvanceNext, AdvanceEnter,
                  Count, ReadCompleted
    <3>2. CASE \/ ClosePhase(h) \/ QueueMap(h) \/ QueueTotal(h) \/ GatePass(h) \/ GateFail(h)
               \/ Requeue(h)
      BY <3>2 DEF ClosePhase, QueueMap, QueueTotal, GatePass, GateFail, Requeue
    <3>3. CASE \/ ReviewPass(h) \/ TestTaskMap(h) \/ TestTaskTotal(h) \/ ApproveGate(h)
               \/ ApproveResume(h)
      BY <3>3 DEF ReviewPass, TestTaskMap, TestTaskTotal, ApproveGate, ApproveResume
    <3>4. QED BY <1>3, <2>2, <2>3, <3>1, <3>2, <3>3
  <2> HIDE DEF P, Goal
  <2>5. QED BY <1>2, <2>1, <2>4
<1>4. ASSUME NEW h \in Calls,
             \/ StartWorkflow(h) \/ MapTask(h) \/ ActivatePerDev(h) \/ ReadTotal(h)
             \/ QueueRead(h) \/ ApproveRead(h)
      PROVE  Goal
  <2>1. CASE Return(h) \/ Goto(h, "advance")
    <3>1. "advance" \notin Relying BY DEF Relying, Inserting
    <3>2. QED BY <1>2, <2>1, <3>1
  <2>2. CASE ~(Return(h) \/ Goto(h, "advance"))
    <3>1. ASSUME StartWorkflow(h) \/ ApproveRead(h) PROVE call'[g].pc \in {"activate", "approve"}
      BY <1>0, <1>1, <3>1 DEF StartWorkflow, ApproveRead, Idle
    <3>2. ASSUME MapTask(h) \/ ReadTotal(h) PROVE call'[g].pc \in {"run", "counted"}
      BY <1>0, <1>1, <2>2, <3>2 DEF MapTask, ReadTotal, Request
    <3>3. ASSUME ActivatePerDev(h) PROVE call'[g].pc = "dev.task"
      BY <1>0, <1>1, <2>2, <3>3 DEF ActivatePerDev, Request
    <3>4. ASSUME QueueRead(h) PROVE call'[g].pc = "queue.task"
      BY <1>0, <1>1, <2>2, <3>4 DEF QueueRead, Request
    <3>5. QED BY <1>4, <3>1, <3>2, <3>3, <3>4 DEF Relying, Inserting
  <2>3. QED BY <2>1, <2>2
<1>5. ASSUME NEW h \in Calls,
             \/ ActivateTask(h) \/ TestTaskNew(h) \/ DevTask(h) \/ DevDep(h) \/ QueueTask(h)
             \/ AdvanceLeave(h)
      PROVE  Goal
  <2>1. h = g BY <1>1
  <2>2. QED BY <1>5, <2>1
<1>6. ASSUME NEW h \in Calls, NEW t \in DOMAIN tasks,
             \/ ReviewRead(h, t)
             \/ \E a \in Agents, v \in {"done", "pass", "fail"} : CompleteRead(h, a, t, v)
      PROVE  Goal
  <2>1. CASE ReviewRead(h, t)
    <3>1. call'[g].pc = "review"
      BY <1>0, <1>1, <2>1 DEF ReviewRead, Idle
    <3>2. QED BY <3>1 DEF Relying, Inserting
  <2>2. ASSUME NEW a \in Agents, NEW v \in {"done", "pass", "fail"}, CompleteRead(h, a, t, v)
        PROVE  Goal
    <3>1. call'[g].pc = Completing[v]
      BY <1>0, <1>1, <2>2 DEF CompleteRead, Idle
    <3>2. Completing[v] \notin Relying
      BY DEF Completing, Relying, Inserting
    <3>3. QED BY <3>1, <3>2
  <2>3. QED BY <1>6, <2>1, <2>2
<1>7. ASSUME NEW t \in DOMAIN tasks,
             Progress(t) \/ SendBack(t) \/ Deploy(t) \/ \E a \in Agents : Claim(a, t)
      PROVE  Goal
  BY <1>7 DEF Progress, SendBack, Deploy, Claim
<1>8. ASSUME Reject \/ DeleteWorkflow \/ UNCHANGED vars PROVE Goal
  BY <1>8 DEF Reject, DeleteWorkflow, vars
<1>9. ASSUME Restart PROVE Goal
  BY <1>9, IdleOK DEF Restart, Relying, Inserting
<1>10. QED
  <2> HIDE DEF Goal
  <2>1. ASSUME NEW h \in Calls,
               \/ StartWorkflow(h) \/ Activate(h) \/ MapTask(h) \/ RunPhase(h) \/ Advance(h)
               \/ CompleteUpdate(h) \/ Count(h) \/ ReadTotal(h) \/ ReadCompleted(h) \/ ClosePhase(h)
               \/ QueueRead(h) \/ QueueTask(h) \/ QueueMap(h) \/ QueueTotal(h)
               \/ GatePass(h) \/ GateFail(h) \/ Requeue(h)
               \/ ReviewPass(h) \/ TestTaskNew(h) \/ TestTaskMap(h) \/ TestTaskTotal(h)
               \/ ApproveRead(h) \/ ApproveGate(h) \/ ApproveResume(h)
        PROVE  Goal
    BY <2>1, <1>3, <1>4, <1>5 DEF Activate, Advance
  <2>2. CASE \E t \in DOMAIN tasks : \/ Progress(t) \/ SendBack(t) \/ Deploy(t)
                                      \/ \E a \in Agents : Claim(a, t)
    BY <2>2, <1>7
  <2>3. CASE Next
    BY <2>1, <2>2, <2>3, <1>6, <1>8, <1>9 DEF Next
  <2>4. QED BY <1>8, <2>3

LEMMA NewRow ==
  ASSUME TasksOK, NEW kind \in {"work", "gate", "test"}, NEW status \in {"available", "blocked"},
         NEW from \in 0..Len(tasks)
  PROVE  LET row == NewTask(kind, status, 0, from) IN
         /\ row \in TaskRow /\ row.phase = 0 /\ row.from <= Len(tasks)
         /\ row.status \notin Finished
<1>1. 0 \in 0..Len(Template) /\ Len(tasks) \in Nat
  BY Domains
<1>2. QED BY <1>1 DEF NewTask, TaskRow, Finished

(* An INSERT of one task: the row is neither mapped nor finished, and it is    *)
(* the task the call holds next.                                              *)
LEMMA Inserted ==
  ASSUME FlowInv, NEW g \in Calls,
         \/ ActivateTask(g) \/ DevTask(g)
         \/ call'[g].pc \in Relying /\ (TestTaskNew(g) \/ QueueTask(g))
  PROVE  /\ DOMAIN tasks' = DOMAIN tasks \cup {Len(tasks) + 1}
         /\ \A u \in DOMAIN tasks : tasks'[u] = tasks[u]
         /\ tasks'[Len(tasks) + 1].status \notin Finished
         /\ call'[g].t = Len(tasks) + 1
<1>0. /\ TasksOK /\ Len(tasks) \in Nat /\ DOMAIN tasks = 1..Len(tasks)
      /\ call \in [Calls -> Request] /\ call[g] \in Request /\ call[g].left \subseteq DOMAIN tasks
  BY Domains DEF FlowInv, CallsOK
<1>1. /\ \E kind \in {"work", "gate", "test"}, status \in {"available", "blocked"},
            from \in 0..Len(tasks) : tasks' = Append(tasks, NewTask(kind, status, 0, from))
      /\ Rows(1) /\ phases' = phases /\ call'[g].t = Len(tasks) + 1
  <2>1. CASE ActivateTask(g)
    <3> DEFINE kind == IF Template[call[g].i] = "gate" THEN "gate" ELSE "work"
    <3>1. kind \in {"work", "gate", "test"} /\ 0 \in 0..Len(tasks)
      BY <1>0
    <3>2. tasks' = Append(tasks, NewTask(kind, "available", 0, 0)) /\ Rows(1) /\ phases' = phases
      BY <2>1 DEF ActivateTask
    <3>3. call'[g].t = Len(tasks) + 1
      BY <1>0, <2>1 DEF ActivateTask, Request
    <3> HIDE DEF kind
    <3>4. QED BY <3>1, <3>2, <3>3
  <2>2. CASE DevTask(g)
    BY <1>0, <2>2 DEF DevTask, Request
  <2>3. CASE call'[g].pc \in Relying /\ TestTaskNew(g)
    <3>1. ~Return(g)
      BY <1>0, <2>3, IdleOK DEF Return, Relying, Inserting
    <3>2. call[g].t \in 0..Len(tasks)
      BY <1>0, <2>3 DEF TestTaskNew, At, FlowInv, CallsOK, OnTask
    <3>3. QED BY <1>0, <2>3, <3>1, <3>2 DEF TestTaskNew, Request
  <2>4. CASE call'[g].pc \in Relying /\ QueueTask(g)
    <3>1. PICK d \in call[g].left :
            \/ /\ Rows(1) /\ tasks' = Append(tasks, NewTask("work", "available", 0, d))
               /\ call' = [call EXCEPT ![g].pc = "queue.map", ![g].t = Len(tasks) + 1,
                                       ![g].left = call[g].left \ {d}]
            \/ call' = [call EXCEPT ![g].left = call[g].left \ {d}]
      BY <1>0, <2>4 DEF QueueTask
    <3>2. ~(call' = [call EXCEPT ![g].left = call[g].left \ {d}])
      BY <1>0, <2>4 DEF QueueTask, At, Request, Relying, Inserting
    <3>3. d \in 0..Len(tasks) /\ phases' = phases
      BY <1>0, <2>4 DEF QueueTask
    <3>4. QED BY <1>0, <3>1, <3>2, <3>3 DEF Request
  <2>5. QED BY <2>1, <2>2, <2>3, <2>4
<1>2. PICK row \in TaskRow : /\ row.phase = 0 /\ row.from <= Len(tasks)
                             /\ row.status \notin Finished /\ tasks' = Append(tasks, row)
  BY <1>0, <1>1, NewRow
<1>3. /\ DOMAIN tasks' = 1..Len(tasks) + 1
      /\ \A u \in DOMAIN tasks : tasks'[u] = tasks[u]
      /\ tasks'[Len(tasks) + 1] = row
  BY <1>0, <1>1, <1>2, TaskAdded
<1>4. 1..Len(tasks) + 1 = 1..Len(tasks) \cup {Len(tasks) + 1}
  BY <1>0
<1>5. QED BY <1>0, <1>1, <1>2, <1>3, <1>4

LEMMA StepHeld ==
  ASSUME FlowInv, OneAtATime, HeldOK, [Next]_vars
  PROVE  HeldOK'
<1>0. call \in [Calls -> Request] /\ PhasesOK /\ \A g \in Calls : call[g] \in Request
  BY DEF FlowInv, CallsOK
<1>1. ASSUME NEW g \in Calls, call'[g].pc \in Relying
      PROVE  /\ call'[g].pc \in Inserting => tasks'[call'[g].t].status \notin Finished
             /\ call'[g].pc = "next" /\ call'[g].i \in DOMAIN phases' =>
                  phases'[call'[g].i].status = "completed"
  <2>1. CASE call'[g] = call[g]
    <3>1. ~Restart
      BY <1>1, IdleOK DEF Restart, Relying, Inserting
    <3>2. ASSUME MapTask(g) \/ TestTaskMap(g) PROVE FALSE
      BY <1>0, <2>1, <3>2, IdleOK DEF MapTask, TestTaskMap, At, Return, Goto, Request
    <3>3. ASSUME DevDep(g) \/ DevMap(g) \/ QueueMap(g) PROVE FALSE
      <4>1. ~DevDep(g) BY <1>0, <2>1 DEF DevDep, At, Request
      <4>2. ~DevMap(g) BY <1>0, <2>1, IdleOK DEF DevMap, At, Return, Goto, Request
      <4>3. ~QueueMap(g) BY <1>0, <2>1 DEF QueueMap, At, Goto, Request
      <4>4. QED BY <3>3, <4>1, <4>2, <4>3
    <3>4. ASSUME AdvanceNext(g) PROVE FALSE
      BY <1>0, <2>1, <3>4, IdleOK DEF AdvanceNext, At, Return, GotoPhase, Request
    <3>5. UNCHANGED vars
      BY <1>1, <2>1, <3>1, <3>2, <3>3, <3>4, Alone
    <3>6. QED BY <2>1, <3>5 DEF HeldOK, vars
  <2>2. CASE ActivateTask(g) \/ TestTaskNew(g) \/ DevTask(g) \/ QueueTask(g)
    <3>1. tasks'[call'[g].t].status \notin Finished
      BY <1>1, <2>2, Inserted
    <3>2. call'[g].pc # "next"
      <4>1. ASSUME ActivateTask(g) \/ DevTask(g) PROVE call'[g].pc # "next"
        BY <1>0, <4>1 DEF ActivateTask, DevTask, Request
      <4>2. ASSUME TestTaskNew(g) PROVE call'[g].pc # "next"
        BY <1>0, <4>2, IdleOK DEF TestTaskNew, Return, Request
      <4>3. ASSUME QueueTask(g) PROVE call'[g].pc # "next"
        BY <1>0, <4>3 DEF QueueTask, At, Request
      <4>4. QED BY <2>2, <4>1, <4>2, <4>3
    <3>3. QED BY <3>1, <3>2
  <2>3. CASE DevDep(g)
    <3>1. PICK d \in call[g].left : tasks' = [tasks EXCEPT ![call[g].t].from = d]
      BY <2>3 DEF DevDep
    <3>2. call'[g].t = call[g].t /\ call'[g].pc = "dev.map" /\ call[g].pc = "dev.dep"
      BY <1>0, <2>3 DEF DevDep, At, Request
    <3>3. call[g].t \in DOMAIN tasks /\ tasks[call[g].t].status \notin Finished
      BY <3>2 DEF HeldOK, Inserting, FlowInv, CallsOK, OnTask
    <3>4. tasks[call[g].t] \in TaskRow
      BY <3>3, Domains, ElementOfSeq DEF FlowInv, TasksOK
    <3>5. tasks'[call[g].t].status = tasks[call[g].t].status
      BY <3>1, <3>3, <3>4 DEF TaskRow
    <3>6. QED BY <3>2, <3>3, <3>5
  <2>4. CASE AdvanceLeave(g)
    <3>1. call'[g].i = call[g].i /\ call'[g].pc = "next"
          /\ phases' = SetStatus(call[g].i, "completed")
      BY <1>0, <2>4 DEF AdvanceLeave, Goto, Request
    <3>2. ASSUME call[g].i \in DOMAIN phases' PROVE phases'[call[g].i].status = "completed"
      <4>1. call[g].i \in DOMAIN phases BY <3>1, <3>2 DEF SetStatus, Update
      <4>2. SetStatus(call[g].i, "completed")[call[g].i].status = "completed"
        BY <1>0, <4>1, StatusSet
      <4>3. QED BY <3>1, <4>2
    <3>3. QED BY <3>1, <3>2 DEF Inserting
  <2>5. QED BY <1>1, <2>1, <2>2, <2>3, <2>4, Arrives
<1>2. QED BY <1>1 DEF HeldOK, Relying

-----------------------------------------------------------------------------
(* What a step does to the tasks *)

\* No task of a phase is newly finished.
NoFinish ==
  \A u \in DOMAIN tasks' : tasks'[u].status \in Finished =>
    /\ u \in DOMAIN tasks /\ tasks[u].status \in Finished
    /\ tasks'[u].phase \in {0, tasks[u].phase}

(* Statements that write columns of rows that exist: a status that is not     *)
(* finished, or the phase of a task that is not.                              *)
LEMMA ColumnsWritten ==
  ASSUME TasksOK, DOMAIN tasks' = DOMAIN tasks, NEW s, s \notin Finished,
         \A u \in DOMAIN tasks :
           \/ tasks'[u] = tasks[u]
           \/ \E a : tasks'[u] = [tasks[u] EXCEPT !.status = s, !.assignee = a]
           \/ \E n : tasks'[u] = [tasks[u] EXCEPT !.status = s, !.passes = n]
           \/ tasks'[u] = [tasks[u] EXCEPT !.status = s]
           \/ tasks'[u] = [tasks[u] EXCEPT !.phase = 0]
           \/ \E d : tasks'[u] = [tasks[u] EXCEPT !.from = d]
           \/ tasks[u].status \notin Finished /\ \E i : tasks'[u] = [tasks[u] EXCEPT !.phase = i]
  PROVE  NoFinish
<1>1. \A u \in DOMAIN tasks : tasks[u] \in TaskRow
  BY Domains, ElementOfSeq DEF TasksOK
<1>2. ASSUME NEW u \in DOMAIN tasks
      PROVE  tasks'[u].status \in Finished =>
               tasks[u].status \in Finished /\ tasks'[u].phase \in {0, tasks[u].phase}
  BY <1>1, <1>2 DEF TaskRow
<1>3. QED BY <1>2 DEF NoFinish

LEMMA FinishedRows ==
  ASSUME FlowInv, NEW t \in DOMAIN tasks, NEW s \in {"done", "deployed"}, Finish(t, s)
  PROVE  /\ DOMAIN tasks' = DOMAIN tasks
         /\ \A u \in DOMAIN tasks : /\ tasks'[u].phase = tasks[u].phase
                                    /\ u # t /\ tasks'[u].status \in Finished =>
                                         tasks[u].status \in Finished
<1>0. \A u \in DOMAIN tasks : tasks[u] \in TaskRow
  BY Domains, ElementOfSeq DEF FlowInv, TasksOK
<1>1. DOMAIN tasks' = DOMAIN tasks
  BY DEF Finish
<1>2. \A u \in DOMAIN tasks :
        \/ u = t /\ tasks'[u] = [tasks[u] EXCEPT !.status = s, !.assignee = None]
        \/ tasks'[u] = [tasks[u] EXCEPT !.status = "available"]
        \/ tasks'[u] = tasks[u]
  BY DEF Finish
<1>3. ASSUME NEW u \in DOMAIN tasks
      PROVE  /\ tasks'[u].phase = tasks[u].phase
             /\ u # t /\ tasks'[u].status \in Finished => tasks[u].status \in Finished
  BY <1>0, <1>2 DEF TaskRow, Finished
<1>4. QED BY <1>1, <1>3

(* No row is newly finished except by an UPDATE that fires the trigger.       *)
LEMMA TaskSteps ==
  ASSUME FlowInv, HeldOK, [Next]_vars
  PROVE  NoFinish \/ \E t \in DOMAIN tasks, s \in {"done", "deployed"} : Finish(t, s)
<1> DEFINE Goal == NoFinish \/ \E t \in DOMAIN tasks, s \in {"done", "deployed"} : Finish(t, s)
<1> SUFFICES Goal OBVIOUS
<1>0. /\ TasksOK /\ DOMAIN tasks = 1..Len(tasks) /\ Len(tasks) \in Nat
      /\ \A u \in DOMAIN tasks : tasks[u] \in TaskRow
      /\ call \in [Calls -> Request] /\ \A g \in Calls : call[g] \in Request
  BY Domains, ElementOfSeq DEF FlowInv, TasksOK, CallsOK
<1>1. CASE tasks' = tasks
  BY <1>1 DEF NoFinish
<1>2. ASSUME NEW t \in DOMAIN tasks, NEW s \in {"done", "deployed"}, Finish(t, s) PROVE Goal
  BY <1>2
<1>3. ASSUME NEW g \in Calls, MapTask(g) \/ TestTaskMap(g) \/ DevMap(g) \/ QueueMap(g) PROVE Goal
  <2> DEFINE t == call[g].t
  <2>1. call[g].pc \in Inserting
        /\ (tasks' = tasks \/ tasks' = [tasks EXCEPT ![t].phase = call[g].i])
    BY <1>3 DEF MapTask, TestTaskMap, DevMap, QueueMap, At, Inserting
  <2>2. tasks[t].status \notin Finished
    BY <2>1 DEF HeldOK
  <2> HIDE DEF t
  <2>3. DOMAIN tasks' = DOMAIN tasks
    BY <2>1
  <2>4. \A u \in DOMAIN tasks :
          \/ tasks'[u] = tasks[u]
          \/ tasks[u].status \notin Finished /\ \E i : tasks'[u] = [tasks[u] EXCEPT !.phase = i]
    BY <2>1, <2>2
  <2>5. "available" \notin Finished BY DEF Finished
  <2>6. QED BY <1>0, <2>3, <2>4, <2>5, ColumnsWritten
<1>4. ASSUME NEW g \in Calls, DevDep(g) PROVE Goal
  <2>1. PICK d \in call[g].left : tasks' = [tasks EXCEPT ![call[g].t].from = d]
    BY <1>4 DEF DevDep
  <2>2. DOMAIN tasks' = DOMAIN tasks
        /\ \A u \in DOMAIN tasks :
             tasks'[u] = tasks[u] \/ tasks'[u] = [tasks[u] EXCEPT !.from = d]
    BY <2>1
  <2>3. "available" \notin Finished BY DEF Finished
  <2>4. QED BY <1>0, <2>2, <2>3, ColumnsWritten
<1>5. ASSUME NEW g \in Calls, Requeue(g) PROVE Goal
  <2>1. /\ DOMAIN tasks' = DOMAIN tasks
        /\ \A u \in DOMAIN tasks :
             \/ tasks'[u] = tasks[u]
             \/ \E a : tasks'[u] = [tasks[u] EXCEPT !.status = "available", !.assignee = a]
    BY <1>5 DEF Requeue
  <2>2. "available" \notin Finished BY DEF Finished
  <2>3. QED BY <1>0, <2>1, <2>2, ColumnsWritten
<1>6. ASSUME NEW t \in DOMAIN tasks, Progress(t) \/ SendBack(t) PROVE Goal
  <2>1. PICK s \in {"in_progress", "needs_fix"} : tasks' = [tasks EXCEPT ![t].status = s]
    BY <1>6 DEF Progress, SendBack
  <2>2. DOMAIN tasks' = DOMAIN tasks
        /\ \A u \in DOMAIN tasks :
             tasks'[u] = tasks[u] \/ tasks'[u] = [tasks[u] EXCEPT !.status = s]
    BY <2>1
  <2>3. s \notin Finished BY DEF Finished
  <2>4. QED BY <1>0, <2>2, <2>3, ColumnsWritten
<1>7. ASSUME NEW t \in DOMAIN tasks, NEW a \in Agents, Claim(a, t) PROVE Goal
  <2>1. /\ DOMAIN tasks' = DOMAIN tasks
        /\ \A u \in DOMAIN tasks :
             \/ tasks'[u] = tasks[u]
             \/ tasks'[u] = [tasks[u] EXCEPT !.status = "claimed", !.assignee = a]
    BY <1>0, <1>7 DEF Claim
  <2>2. "claimed" \notin Finished BY DEF Finished
  <2>3. QED BY <1>0, <2>1, <2>2, ColumnsWritten
<1>8. ASSUME DeleteWorkflow PROVE Goal
  <2>1. /\ DOMAIN tasks' = DOMAIN tasks
        /\ \A u \in DOMAIN tasks : tasks'[u] = [tasks[u] EXCEPT !.phase = 0]
    BY <1>8 DEF DeleteWorkflow
  <2>2. "available" \notin Finished BY DEF Finished
  <2>3. QED BY <1>0, <2>1, <2>2, ColumnsWritten
<1>9. ASSUME NEW g \in Calls, ReviewPass(g) PROVE Goal
  <2>1. DOMAIN tasks' = DOMAIN tasks
    BY <1>9 DEF ReviewPass
  <2>2. \A u \in DOMAIN tasks :
          \/ tasks'[u] = tasks[u]
          \/ tasks'[u] = [tasks[u] EXCEPT !.status = "test", !.passes = tasks[u].passes + 1]
    BY <1>0, <1>9 DEF ReviewPass
  <2>3. "test" \notin Finished BY DEF Finished
  <2>4. QED BY <1>0, <2>1, <2>2, <2>3, ColumnsWritten
<1>10. ASSUME NEW g \in Calls,
              ActivateTask(g) \/ DevTask(g) \/ TestTaskNew(g) \/ QueueTask(g), tasks' # tasks
       PROVE  Goal
  <2>1. CASE TestTaskNew(g)
    <3>1. call'[g].pc = "test.map" BY <1>0, <1>10, <2>1 DEF TestTaskNew, Request
    <3>2. QED BY <2>1, <3>1, Inserted DEF NoFinish, Relying, Inserting
  <2>2. CASE QueueTask(g)
    <3>1. call'[g].pc = "queue.map" BY <1>0, <1>10, <2>2 DEF QueueTask, Request
    <3>2. QED BY <2>2, <3>1, Inserted DEF NoFinish, Relying, Inserting
  <2>3. CASE ActivateTask(g) \/ DevTask(g)
    BY <2>3, Inserted DEF NoFinish
  <2>4. QED BY <1>10, <2>1, <2>2, <2>3
<1>11. ASSUME NEW g \in Calls,
              \/ StartWorkflow(g) \/ RunPhase(g) \/ ActivateDecision(g) \/ ActivatePlain(g)
              \/ ActivatePerDev(g) \/ Advance(g) \/ Count(g) \/ ReadTotal(g) \/ ReadCompleted(g)
              \/ ClosePhase(g) \/ QueueRead(g) \/ QueueTotal(g) \/ GatePass(g) \/ GateFail(g)
              \/ TestTaskTotal(g) \/ ApproveRead(g) \/ ApproveGate(g) \/ ApproveResume(g)
       PROVE  tasks' = tasks
  <2>1. CASE \/ StartWorkflow(g) \/ RunPhase(g) \/ ActivateDecision(g) \/ ActivatePlain(g)
             \/ ActivatePerDev(g) \/ Advance(g)
    BY <2>1 DEF StartWorkflow, RunPhase, ActivateDecision, ActivatePlain, ActivatePerDev, Advance,
                AdvanceRead, AdvanceLeave, AdvanceNext, AdvanceEnter
  <2>2. CASE \/ Count(g) \/ ReadTotal(g) \/ ReadCompleted(g)
             \/ ClosePhase(g) \/ QueueRead(g) \/ QueueTotal(g) \/ GatePass(g) \/ GateFail(g)
             \/ TestTaskTotal(g) \/ ApproveRead(g) \/ ApproveGate(g) \/ ApproveResume(g)
    BY <2>2 DEF Count, ReadTotal, ReadCompleted, ClosePhase, QueueRead, QueueTotal, GatePass,
                GateFail, TestTaskTotal, ApproveRead, ApproveGate, ApproveResume
  <2>3. QED BY <1>11, <2>1, <2>2
<1>12. ASSUME NEW g \in Calls, CompleteUpdate(g) PROVE Goal
  <2>1. call[g].t \in DOMAIN tasks
    <3>1. PICK v \in DOMAIN Completing : At(g, Completing[v])
      BY <1>12 DEF CompleteUpdate
    <3>2. Completing[v] \in OnTask
      BY DEF Completing, OnTask
    <3>3. QED BY <3>1, <3>2 DEF At, FlowInv, CallsOK
  <2>2. tasks' = tasks \/ Finish(call[g].t, "done")
    BY <1>12 DEF CompleteUpdate
  <2>3. QED BY <1>1, <1>2, <2>1, <2>2
<1>13. QED
  <2>1. ASSUME NEW t \in DOMAIN tasks, Deploy(t) PROVE Goal
    BY <1>2, <2>1 DEF Deploy
  <2>2. ASSUME NEW g \in Calls, NEW t \in DOMAIN tasks,
               \/ ReviewRead(g, t)
               \/ \E a \in Agents, v \in {"done", "pass", "fail"} : CompleteRead(g, a, t, v)
        PROVE  tasks' = tasks
    BY <2>2 DEF ReviewRead, CompleteRead
  <2>3. ASSUME Reject \/ Restart \/ UNCHANGED vars PROVE tasks' = tasks
    BY <2>3 DEF Reject, Restart, vars
  <2> HIDE DEF Goal
  <2>4. ASSUME NEW g \in Calls,
               \/ StartWorkflow(g) \/ Activate(g) \/ MapTask(g) \/ RunPhase(g) \/ Advance(g)
               \/ CompleteUpdate(g) \/ Count(g) \/ ReadTotal(g) \/ ReadCompleted(g) \/ ClosePhase(g)
               \/ QueueRead(g) \/ QueueTask(g) \/ QueueMap(g) \/ QueueTotal(g)
               \/ GatePass(g) \/ GateFail(g) \/ Requeue(g)
               \/ ReviewPass(g) \/ TestTaskNew(g) \/ TestTaskMap(g) \/ TestTaskTotal(g)
               \/ ApproveRead(g) \/ ApproveGate(g) \/ ApproveResume(g)
        PROVE  Goal
    BY <2>4, <1>1, <1>3, <1>4, <1>5, <1>9, <1>10, <1>11, <1>12 DEF Activate
  <2>5. CASE \E t \in DOMAIN tasks : \/ Progress(t) \/ SendBack(t) \/ Deploy(t)
                                      \/ \E a \in Agents : Claim(a, t)
    BY <2>5, <1>6, <1>7, <2>1
  <2>6. CASE Next
    BY <2>6, <1>1, <1>8, <2>2, <2>3, <2>4, <2>5 DEF Next
  <2>7. QED BY <1>1, <2>3, <2>6

-----------------------------------------------------------------------------
(* Every finish is counted *)

(* No statement takes back what a phase has counted. *)
LEMMA CountersGrow ==
  ASSUME FlowInv, [Next]_vars, workflow # "none", NEW j \in DOMAIN phases'
  PROVE  j \in DOMAIN phases /\ phases'[j].completed \in Nat
         /\ phases[j].completed \in Nat /\ phases[j].completed <= phases'[j].completed
<1> DEFINE Goal == /\ phases'[j].completed \in Nat
                   /\ phases[j].completed <= phases'[j].completed
<1>0. PhasesOK /\ j \in DOMAIN phases /\ phases[j] \in PhaseRow /\ phases[j].completed \in Nat
  BY StatusChanges DEF FlowInv, PhasesOK, PhaseRow
<1> SUFFICES Goal BY <1>0
<1>1. CASE phases' = phases
  BY <1>0, <1>1
<1>2. CASE \E i, s : phases' = SetStatus(i, s)
  <2>1. PICK i, s : phases' = SetStatus(i, s) BY <1>2
  <2>2. [phases[j] EXCEPT !.status = s].completed = phases[j].completed
    BY <1>0 DEF PhaseRow
  <2>3. QED BY <1>0, <2>1, <2>2 DEF SetStatus, Update
<1>3. CASE \E i : phases' = CountUp(i)
  <2>1. PICK i : phases' = CountUp(i) BY <1>3
  <2>2. [phases[j] EXCEPT !.completed = @ + 1].completed = phases[j].completed + 1
    BY <1>0 DEF PhaseRow
  <2>3. QED BY <1>0, <2>1, <2>2 DEF CountUp, Update
<1>4. CASE \E i, n : phases' = Plan(i, n)
  <2>1. PICK i, n : phases' = Plan(i, n) BY <1>4
  <2>2. [phases[j] EXCEPT !.total = @ + n].completed = phases[j].completed
    BY <1>0 DEF PhaseRow
  <2>3. QED BY <1>0, <2>1, <2>2 DEF Plan, Update
<1>5. CASE \E i, s, n : i \in DOMAIN phases /\ phases' = Update(i, [phases[i] EXCEPT !.status = s, !.total = n])
  <2>1. PICK i, s, n : phases' = Update(i, [phases[i] EXCEPT !.status = s, !.total = n]) BY <1>5
  <2>2. [phases[j] EXCEPT !.status = s, !.total = n].completed = phases[j].completed
    BY <1>0 DEF PhaseRow
  <2>3. QED BY <1>0, <2>1, <2>2 DEF Update
<1>6. CASE Reject
  <2>1. [phases[j] EXCEPT !.status = "cancelled"].completed = phases[j].completed
    BY <1>0 DEF PhaseRow
  <2>2. phases'[j] = phases[j] \/ phases'[j] = [phases[j] EXCEPT !.status = "cancelled"]
    BY <1>0, <1>6 DEF Reject
  <2>3. phases'[j].completed = phases[j].completed
    BY <2>1, <2>2
  <2>4. QED BY <1>0, <2>3
<1>7. ~DeleteWorkflow /\ \A g \in Calls : ~StartWorkflow(g)
  <2>1. ASSUME DeleteWorkflow PROVE FALSE
    <3>1. phases' = <<>> BY <2>1 DEF DeleteWorkflow
    <3>2. DOMAIN phases' = {} BY <3>1
    <3>3. QED BY <3>2
  <2>2. QED BY <2>1 DEF StartWorkflow
<1>8. ASSUME NEW g \in Calls, RunPhase(g) \/ ActivatePerDev(g) PROVE Goal
  <2>1. CASE RunPhase(g)
    <3>1. CASE call[g].i \in DOMAIN phases
      BY <1>5, <2>1, <3>1 DEF RunPhase
    <3>2. CASE call[g].i \notin DOMAIN phases
      BY <1>1, <2>1, <3>2 DEF RunPhase
    <3>3. QED BY <3>1, <3>2
  <2>2. CASE ActivatePerDev(g)
    <3>1. CASE call[g].i \in DOMAIN phases
      BY <1>1, <1>2, <1>5, <2>2, <3>1 DEF ActivatePerDev
    <3>2. CASE call[g].i \notin DOMAIN phases
      BY <1>1, <1>2, <2>2, <3>2 DEF ActivatePerDev
    <3>3. QED BY <3>1, <3>2
  <2>3. QED BY <1>8, <2>1, <2>2
<1>9. ASSUME NEW g \in Calls,
             \/ ActivateDecision(g) \/ ActivatePlain(g) \/ Advance(g) \/ ClosePhase(g) \/ GatePass(g)
             \/ GateFail(g) \/ ApproveGate(g)
      PROVE  Goal
  <2>1. phases' = phases \/ \E i, s : phases' = SetStatus(i, s)
    BY <1>9 DEF ActivateDecision, ActivatePlain, Advance, AdvanceRead, AdvanceLeave, AdvanceNext,
                AdvanceEnter, ClosePhase, GatePass, GateFail, ApproveGate
  <2>2. QED BY <1>1, <1>2, <2>1
<1>10. ASSUME NEW g \in Calls, CompleteUpdate(g) \/ Count(g) PROVE Goal
  BY <1>1, <1>3, <1>10 DEF CompleteUpdate, Count, Finish
<1>11. ASSUME NEW g \in Calls, QueueTotal(g) \/ TestTaskTotal(g) PROVE Goal
  <2>1. \E n : phases' = Plan(call[g].i, n)
    BY <1>11 DEF QueueTotal, TestTaskTotal
  <2>2. QED BY <1>4, <2>1
<1>12. ASSUME NEW t \in DOMAIN tasks,
              Progress(t) \/ SendBack(t) \/ Deploy(t) \/ \E a \in Agents : Claim(a, t)
       PROVE  Goal
  BY <1>1, <1>3, <1>12 DEF Progress, SendBack, Deploy, Claim, Finish
<1>13. ASSUME NEW g \in Calls,
              \/ ActivateTask(g) \/ DevTask(g) \/ DevDep(g) \/ DevMap(g) \/ MapTask(g) \/ ReadTotal(g)
              \/ ReadCompleted(g) \/ QueueRead(g) \/ QueueTask(g) \/ QueueMap(g) \/ Requeue(g) \/ ReviewPass(g) \/ TestTaskNew(g) \/ TestTaskMap(g) \/ ApproveRead(g)
              \/ ApproveResume(g)
              \/ \E t \in DOMAIN tasks :
                   \/ ReviewRead(g, t)
                   \/ \E a \in Agents, v \in {"done", "pass", "fail"} : CompleteRead(g, a, t, v)
       PROVE  Goal
  <2>1. phases' = phases
    BY <1>13 DEF ActivateTask, DevTask, DevDep, DevMap, MapTask, ReadTotal, ReadCompleted, QueueRead,
                 QueueTask, QueueMap, Requeue, ReviewPass,
                 TestTaskNew, TestTaskMap, ApproveRead, ApproveResume, ReviewRead, CompleteRead
  <2>2. QED BY <1>1, <2>1
<1>14. ASSUME Restart \/ UNCHANGED vars PROVE Goal
  BY <1>1, <1>14 DEF Restart, vars
<1>15. QED
  <2> HIDE DEF Goal
  <2>1. ASSUME NEW g \in Calls,
               \/ StartWorkflow(g) \/ Activate(g) \/ MapTask(g) \/ RunPhase(g) \/ Advance(g)
               \/ CompleteUpdate(g) \/ Count(g) \/ ReadTotal(g) \/ ReadCompleted(g) \/ ClosePhase(g)
               \/ QueueRead(g) \/ QueueTask(g) \/ QueueMap(g) \/ QueueTotal(g)
               \/ GatePass(g) \/ GateFail(g) \/ Requeue(g)
               \/ ReviewPass(g) \/ TestTaskNew(g) \/ TestTaskMap(g) \/ TestTaskTotal(g)
               \/ ApproveRead(g) \/ ApproveGate(g) \/ ApproveResume(g)
        PROVE  Goal
    BY <2>1, <1>7, <1>8, <1>9, <1>10, <1>11, <1>13 DEF Activate
  <2>2. CASE \E t \in DOMAIN tasks : \/ Progress(t) \/ SendBack(t) \/ Deploy(t)
                                      \/ \E a \in Agents : Claim(a, t)
    BY <2>2, <1>12
  <2>3. ASSUME NEW g \in Calls, NEW t \in DOMAIN tasks,
               \/ ReviewRead(g, t)
               \/ \E a \in Agents, v \in {"done", "pass", "fail"} : CompleteRead(g, a, t, v)
        PROVE  Goal
    BY <2>3, <1>13
  <2>4. CASE Next
    BY <2>4, <1>6, <1>7, <1>14, <2>1, <2>2, <2>3 DEF Next
  <2>5. QED BY <1>14, <2>4

LEMMA StepCounts ==
  ASSUME FlowInv, FlowInv', HeldOK, CountsEveryFinish, [Next]_vars
  PROVE  CountsEveryFinish'
<1>0. /\ TasksOK /\ PhasesOK /\ \A u \in DOMAIN tasks : tasks[u] \in TaskRow
      /\ DOMAIN phases \subseteq Nat \ {0}
  BY Domains, ElementOfSeq DEF FlowInv, TasksOK, PhasesOK
<1>1. CASE UNCHANGED vars
  BY <1>1 DEF vars, CountsEveryFinish, FinishedIn, Mapped
<1>2. CASE workflow = "none" /\ Next
  <2>1. tasks' = <<>>
    BY <1>2, FreshStep DEF StartWorkflow, FlowInv, FreshOK
  <2>2. \A i : FinishedIn(i)' = {}
    BY <2>1 DEF FinishedIn, Mapped
  <2>3. \A i \in DOMAIN phases' : phases'[i].completed \in Nat
    BY DEF FlowInv, PhasesOK, PhaseRow
  <2>4. QED BY <2>2, <2>3, FS_EmptySet DEF CountsEveryFinish
<1>3. ASSUME workflow # "none", NEW i \in DOMAIN phases'
      PROVE  Cardinality(FinishedIn(i)') <= phases'[i].completed
  <2>1. /\ i \in DOMAIN phases /\ phases'[i].completed \in Nat /\ phases[i].completed \in Nat
        /\ phases[i].completed <= phases'[i].completed
    BY <1>3, CountersGrow
  <2>2. Cardinality(FinishedIn(i)) <= phases[i].completed
    BY <2>1 DEF CountsEveryFinish
  <2>3. IsFiniteSet(FinishedIn(i)) /\ Cardinality(FinishedIn(i)) \in Nat
    <3>1. FinishedIn(i) \in SUBSET DOMAIN tasks BY DEF FinishedIn, Mapped
    <3>2. QED BY <1>0, <3>1, FinitelyMany
  <2>4. i # 0 BY <1>0, <2>1
  <2>5. ASSUME FinishedIn(i)' \subseteq FinishedIn(i)
        PROVE  Cardinality(FinishedIn(i)') <= phases'[i].completed
    <3>1. /\ Cardinality(FinishedIn(i)') \in Nat
          /\ Cardinality(FinishedIn(i)') <= Cardinality(FinishedIn(i))
      BY <2>3, <2>5, FS_Subset, FS_CardinalityType
    <3>2. QED BY <2>1, <2>2, <2>3, <3>1
  <2>6. CASE NoFinish
    <3>1. FinishedIn(i)' \subseteq FinishedIn(i)
      BY <2>4, <2>6 DEF NoFinish, FinishedIn, Mapped
    <3>2. QED BY <2>5, <3>1
  <2>7. ASSUME NEW t \in DOMAIN tasks, NEW s \in {"done", "deployed"}, Finish(t, s)
        PROVE  Cardinality(FinishedIn(i)') <= phases'[i].completed
    <3>1. /\ DOMAIN tasks' = DOMAIN tasks
          /\ \A u \in DOMAIN tasks : /\ tasks'[u].phase = tasks[u].phase
                                     /\ u # t /\ tasks'[u].status \in Finished =>
                                          tasks[u].status \in Finished
      BY <2>7, FinishedRows
    <3>2. CASE tasks[t].status \in Finished \/ tasks[t].phase # i
      <4>1. FinishedIn(i)' \subseteq FinishedIn(i)
        BY <3>1, <3>2 DEF FinishedIn, Mapped
      <4>2. QED BY <2>5, <4>1
    <3>3. CASE tasks[t].status \notin Finished /\ tasks[t].phase = i
      <4>1. phases' = CountUp(i)
        BY <2>7, <3>3 DEF Finish
      <4>2. phases'[i].completed = phases[i].completed + 1
        <5>1. phases[i] \in PhaseRow BY <1>0, <2>1 DEF PhasesOK
        <5>2. [phases[i] EXCEPT !.completed = @ + 1].completed = phases[i].completed + 1
          BY <5>1 DEF PhaseRow
        <5>3. QED BY <2>1, <4>1, <5>2 DEF CountUp, Update
      <4>3. FinishedIn(i)' \subseteq FinishedIn(i) \cup {t}
        BY <3>1 DEF FinishedIn, Mapped
      <4>4. t \notin FinishedIn(i)
        BY <3>3 DEF FinishedIn
      <4>5. /\ IsFiniteSet(FinishedIn(i) \cup {t})
            /\ Cardinality(FinishedIn(i) \cup {t}) = Cardinality(FinishedIn(i)) + 1
        BY <2>3, <4>4, FS_AddElement
      <4>6. /\ Cardinality(FinishedIn(i)') \in Nat
            /\ Cardinality(FinishedIn(i)') <= Cardinality(FinishedIn(i)) + 1
        BY <4>3, <4>5, FS_Subset, FS_CardinalityType
      <4>7. QED BY <2>1, <2>2, <2>3, <4>2, <4>6
    <3>4. QED BY <3>2, <3>3
  <2>8. QED BY <2>6, <2>7, TaskSteps
<1>4. QED BY <1>1, <1>2, <1>3 DEF CountsEveryFinish

-----------------------------------------------------------------------------
(* The theorems *)

LEMMA InitSequential == Init => SequentialInv
<1> SUFFICES ASSUME Init PROVE SequentialInv
  OBVIOUS
<1>1. \A g \in Calls : call[g].pc = "idle"
  BY IdleOK DEF Init
<1>2. DOMAIN phases = {}
  BY DEF Init
<1>3. QED BY <1>1, <1>2 DEF SequentialInv, HeldOK, Inserting, CountsEveryFinish

LEMMA StepSequential == OneAtATime /\ FlowInv /\ SequentialInv /\ [Next]_vars => SequentialInv'
<1> SUFFICES ASSUME OneAtATime, FlowInv, SequentialInv, [Next]_vars PROVE SequentialInv'
  OBVIOUS
<1>1. FlowInv' /\ HeldOK /\ CountsEveryFinish
  BY StepFlow DEF SequentialInv
<1>2. HeldOK'
  BY <1>1, StepHeld
<1>3. CountsEveryFinish'
  BY <1>1, StepCounts
<1>4. QED BY <1>2, <1>3 DEF SequentialInv

(* Every finish counts: one call at a time, a phase has counted at least the  *)
(* tasks that are finished in it, over reviews, requeues by failed gates,     *)
(* deployments and restarts between any two statements                        *)
(* (WorkflowEngine!CountsEveryFinish).  The hypothesis is needed: a task is   *)
(* offered before it is mapped, and one finished in between is never counted. *)
THEOREM EveryFinishCounted ==
  ASSUME OneAtATime
  PROVE  Spec => []CountsEveryFinish
<1>1. Init => FlowInv /\ SequentialInv
  BY InitFlow, InitSequential
<1>2. FlowInv /\ SequentialInv /\ [Next]_vars => FlowInv' /\ SequentialInv'
  BY StepFlow, StepSequential
<1>3. SequentialInv => CountsEveryFinish
  BY DEF SequentialInv
<1>4. QED BY <1>1, <1>2, <1>3, PTL DEF Spec

-----------------------------------------------------------------------------
(* Completed phases stay, behind the reads too *)

\* The phase a call is about to open is not completed meanwhile.
NotCompleted ==
  \A g \in Calls :
    call[g].pc \in Opening \cup {"enter"} /\ call[g].i \in DOMAIN phases =>
      phases[call[g].i].status \notin {"completed", "complete"}

(* While a call opens a phase, only its own statements and a restart happen.  *)
LEMMA OpensAlone ==
  ASSUME OneAtATime, [Next]_vars, NEW g \in Calls, call[g].pc \in Opening \cup {"enter"}
  PROVE  \/ UNCHANGED vars \/ Restart
         \/ Activate(g) \/ MapTask(g) \/ RunPhase(g) \/ AdvanceEnter(g) \/ ApproveGate(g)
<1> DEFINE Goal ==
      \/ UNCHANGED vars \/ Restart
      \/ Activate(g) \/ MapTask(g) \/ RunPhase(g) \/ AdvanceEnter(g) \/ ApproveGate(g)
<1> SUFFICES Goal OBVIOUS
<1>1. \A h \in Calls : h = g /\ ~Free(h)
  BY DEF OneAtATime, Free, Idle, Opening
<1>2. ~Spare
  BY <1>1 DEF Spare
<1>3. ASSUME NEW h \in Calls,
             \/ StartWorkflow(h) \/ AdvanceRead(h) \/ AdvanceLeave(h) \/ AdvanceNext(h)
             \/ ApproveRead(h) \/ CompleteUpdate(h) \/ Count(h) \/ ReadTotal(h)
             \/ ReadCompleted(h) \/ ClosePhase(h)
      PROVE  Goal
  <2>1. ~StartWorkflow(h) /\ ~ApproveRead(h)
    BY <1>1 DEF StartWorkflow, ApproveRead
  <2>2. ASSUME CompleteUpdate(h) PROVE FALSE
    <3>1. PICK v \in DOMAIN Completing : At(g, Completing[v])
      BY <1>1, <2>2 DEF CompleteUpdate
    <3>2. QED BY <3>1 DEF At, Completing, Opening
  <2>3. QED
    BY <1>1, <1>3, <2>1, <2>2
    DEF AdvanceRead, AdvanceLeave, AdvanceNext, Count, ReadTotal, ReadCompleted, ClosePhase, At,
        Opening
<1>4. ASSUME NEW h \in Calls,
             \/ QueueRead(h) \/ QueueTask(h) \/ QueueMap(h) \/ QueueTotal(h)
             \/ GatePass(h) \/ GateFail(h) \/ Requeue(h)
             \/ ReviewPass(h) \/ TestTaskNew(h) \/ TestTaskMap(h) \/ TestTaskTotal(h)
             \/ ApproveResume(h)
      PROVE  Goal
  BY <1>1, <1>4 DEF QueueRead, QueueTask, QueueMap, QueueTotal, GatePass, Requeue, GateFail, ReviewPass,
                    TestTaskNew, TestTaskMap, TestTaskTotal, ApproveResume, At, Opening
<1>5. ASSUME NEW h \in Calls,
             Activate(h) \/ MapTask(h) \/ RunPhase(h) \/ AdvanceEnter(h) \/ ApproveGate(h)
      PROVE  Goal
  <2>1. h = g BY <1>1
  <2>2. QED BY <1>5, <2>1
<1>6. ASSUME NEW h \in Calls, NEW t \in DOMAIN tasks,
             \/ ReviewRead(h, t)
             \/ \E a \in Agents, v \in {"done", "pass", "fail"} : CompleteRead(h, a, t, v)
      PROVE  Goal
  BY <1>1, <1>6 DEF ReviewRead, CompleteRead
<1>7. \A t \in DOMAIN tasks :
        ~Progress(t) /\ ~SendBack(t) /\ ~Deploy(t) /\ \A a \in Agents : ~Claim(a, t)
  BY <1>2 DEF Progress, SendBack, Deploy, Claim
<1>8. ~Reject /\ ~DeleteWorkflow
  BY <1>2 DEF Reject, DeleteWorkflow
<1>9. Restart => Goal
  OBVIOUS
<1>10. QED
  <2> HIDE DEF Goal
  <2>1. CASE Next
    BY <2>1, <1>3, <1>4, <1>5, <1>6, <1>7, <1>8, <1>9 DEF Next, Advance
  <2>2. QED BY <2>1 DEF Goal

LEMMA StepNotCompleted ==
  OneAtATime /\ FlowInv /\ HeldOK /\ NotCompleted /\ [Next]_vars => NotCompleted'
<1> SUFFICES ASSUME OneAtATime, FlowInv, HeldOK, NotCompleted, [Next]_vars, NEW g \in Calls,
                    call'[g].pc \in Opening \cup {"enter"}, call'[g].i \in DOMAIN phases'
             PROVE  phases'[call'[g].i].status \notin {"completed", "complete"}
  BY DEF NotCompleted
<1>0. /\ call \in [Calls -> Request] /\ call[g] \in Request /\ PhasesOK
      /\ DOMAIN phases \subseteq Nat
  BY Domains DEF FlowInv, CallsOK, PhasesOK
<1>1. CASE UNCHANGED vars
  BY <1>1 DEF vars, NotCompleted
<1>2. CASE workflow = "none" /\ Next
  <2>1. PICK h \in Calls : StartWorkflow(h)
    BY <1>2, FreshStep
  <2>2. \A j \in DOMAIN phases' : phases'[j].status \in {"active", "pending"}
    BY <2>1 DEF StartWorkflow
  <2>3. QED BY <2>2
<1>3. CASE workflow # "none" /\ call'[g] = call[g]
  <2>1. ~Restart
    BY IdleOK DEF Restart, Opening
  <2>2. ASSUME Return(g) PROVE FALSE
    BY <1>0, <2>2, IdleOK DEF Return, Opening
  <2>3. ASSUME Activate(g) PROVE FALSE
    <3>1. ASSUME ActivateTask(g) \/ ActivateDecision(g) \/ ActivatePlain(g) PROVE FALSE
      BY <1>0, <1>3, <2>2, <3>1
      DEF ActivateTask, ActivateDecision, ActivatePlain, At, Goto, Request
    <3>2. ASSUME ActivatePerDev(g) \/ DevTask(g) PROVE FALSE
      BY <1>0, <1>3, <2>2, <3>2 DEF ActivatePerDev, DevTask, At, Request
    <3>3. ~DevDep(g) BY <1>0, <1>3 DEF DevDep, At, Request
    <3>4. ~DevMap(g) BY <1>0, <1>3, <2>2 DEF DevMap, At, Goto, Request
    <3>5. QED BY <2>3, <3>1, <3>2, <3>3, <3>4 DEF Activate
  <2>4. ASSUME MapTask(g) \/ RunPhase(g) PROVE FALSE
    <3>1. ~RunPhase(g)
      BY <2>2 DEF RunPhase
    <3>2. call[g].pc = "map" /\ call'[g].pc = "run"
      BY <1>0, <2>2, <2>4, <3>1 DEF MapTask, At, Request
    <3>3. QED BY <1>3, <3>2
  <2>5. ASSUME AdvanceEnter(g) PROVE FALSE
    <3>1. call[g].pc = "enter" /\ call'[g].pc = "activate"
      BY <1>0, <2>2, <2>5 DEF AdvanceEnter, Goto, At, Request
    <3>2. QED BY <1>3, <3>1
  <2>6. ASSUME ApproveGate(g) PROVE FALSE
    <3>1. call[g].pc = "approve" /\ call'[g].pc = "resume"
      BY <1>0, <2>6 DEF ApproveGate, Goto, At, Request
    <3>2. QED BY <1>3, <3>1
  <2>7. QED BY <1>1, <1>3, <2>1, <2>3, <2>4, <2>5, <2>6, OpensAlone
<1>4. CASE /\ workflow # "none" /\ call'[g].i = call[g].i
           /\ call[g].pc \in Opening /\ call'[g].pc \in Opening /\ call'[g] # call[g]
  <2>1. ~Return(g) /\ ~Restart
    BY <1>0, <1>4, IdleOK DEF Return, Restart, Opening
  <2>2. ~Goto(g, "advance") /\ ~Goto(g, "resume")
    BY <1>0, <1>4 DEF Goto, Request, Opening
  <2>3. ~AdvanceEnter(g)
    BY <1>4 DEF AdvanceEnter, At, Opening
  <2>4. phases' = phases
    BY <1>1, <1>4, <2>1, <2>2, <2>3, OpensAlone
    DEF Activate, ActivateTask, ActivatePerDev, ActivateDecision, ActivatePlain, DevTask, DevDep,
        DevMap, MapTask, RunPhase, ApproveGate, vars
  <2>5. QED BY <1>4, <2>4 DEF NotCompleted
<1>5. CASE /\ AdvanceEnter(g) /\ call'[g].i = call[g].i
           /\ phases' = SetStatus(call[g].i, "active")
  <2>1. call[g].i \in DOMAIN phases
    BY <1>5 DEF SetStatus, Update
  <2>2. SetStatus(call[g].i, "active")[call[g].i].status = "active"
    BY <1>0, <2>1, StatusSet
  <2>3. QED BY <1>5, <2>2
<1>6. CASE /\ AdvanceNext(g) /\ WithStatus("pending") # {}
           /\ call'[g].i = Least(WithStatus("pending"))
  <2> DEFINE i == Least(WithStatus("pending"))
  <2>1. i \in WithStatus("pending")
    <3>1. WithStatus("pending") \in SUBSET Nat BY <1>0 DEF WithStatus
    <3>2. QED BY <1>6, <3>1, LeastIn
  <2>2. i \in DOMAIN phases /\ phases[i].status = "pending"
    BY <2>1 DEF WithStatus
  <2>3. phases' = SetStatus(call[g].i, "complete") /\ call[g].pc = "next"
    BY <1>6 DEF AdvanceNext, At
  <2> HIDE DEF i
  <2>4. i # call[g].i
    BY <2>2, <2>3 DEF HeldOK
  <2>5. SetStatus(call[g].i, "complete")[i].status = "pending"
    BY <1>0, <2>2, <2>4, StatusSet
  <2>6. QED BY <1>6, <2>3, <2>5 DEF i
<1>7. CASE /\ phases' = phases /\ call'[g].i \in WithStatus("waiting_approval")
  BY <1>7 DEF WithStatus
<1>8. QED BY <1>1, <1>2, <1>3, <1>4, <1>5, <1>6, <1>7, CallSteps

(* Completed phases stay, one call at a time, whoever decides gates and       *)
(* whatever the reads into Phase do: advancing, approvals, requeues,          *)
(* deletions and restarts undo a phase that is completed, or has been left as *)
(* complete, only by the verdict of a failed gate that names it, and so do    *)
(* rejections as long as the reads fail (WorkflowEngine!CompletedStays).      *)
(* That hypothesis is needed: a rejection cancels a phase that was left.      *)
THEOREM CompletedPhasesStayAlone ==
  ASSUME OneAtATime, PhaseScans => "reject" \notin Operations
  PROVE  Spec => CompletedStays
<1> DEFINE Inv   == /\ FlowInv /\ SequentialInv /\ NotCompleted
                    /\ ~PhaseScans => PlanInv /\ NoneLeft
           Stays == \A i \in DOMAIN phases' \cap Completed :
                      \/ phases'[i].status \in {"completed", "complete"}
                      \/ \E g \in Calls : call'[g].pc = "requeue" /\ call'[g].i = i
<1>1. Init => Inv
  <2> SUFFICES ASSUME Init PROVE NotCompleted /\ NoneLeft
    BY InitFlow, InitSequential, InitPlan
  <2>1. DOMAIN phases = {}
    BY EmptySeq DEF Init
  <2>2. QED BY <2>1 DEF NotCompleted, NoneLeft, WithStatus
<1>2. Inv /\ [Next]_vars => Inv'
  <2> SUFFICES ASSUME Inv, [Next]_vars PROVE Inv'
    OBVIOUS
  <2>1. FlowInv' /\ SequentialInv' /\ NotCompleted'
    BY StepFlow, StepSequential, StepNotCompleted DEF SequentialInv
  <2>2. ASSUME ~PhaseScans PROVE PlanInv' /\ NoneLeft'
    <3>1. PlanInv' BY <2>2, StepPlan
    <3>2. NoneLeft' BY <2>2, StepNoneLeft DEF NoneLeft, WithStatus, vars
    <3>3. QED BY <3>1, <3>2
  <2>3. QED BY <2>1, <2>2
<1>3. Inv /\ [Next]_vars => [Stays]_vars
  <2> SUFFICES ASSUME Inv, [Next]_vars, NEW i \in DOMAIN phases' \cap Completed
               PROVE  \/ phases'[i].status \in {"completed", "complete"}
                      \/ \E g \in Calls : call'[g].pc = "requeue" /\ call'[g].i = i
    OBVIOUS
  <2>1. i \in DOMAIN phases /\ phases[i].status \in {"completed", "complete"} /\ workflow # "none"
    BY Started DEF Completed, WithStatus
  <2>2. ASSUME NEW g \in Calls, Opens(g), call[g].i = i PROVE FALSE
    <3>1. call[g].pc \in Opening \cup {"enter"}
      BY <2>2 DEF Opens, RunPhase, ActivatePerDev, ActivatePlain, AdvanceEnter, ApproveGate, At, Opening
    <3>2. QED BY <2>1, <2>2, <3>1 DEF NotCompleted
  <2>3. ASSUME phases[i].status # "completed", "reject" \in Operations PROVE FALSE
    BY <2>1, <2>3 DEF NoneLeft, WithStatus
  <2>4. QED BY <2>1, <2>2, <2>3, StatusChanges
<1>4. QED BY <1>1, <1>2, <1>3, PTL DEF Spec, CompletedStays
=============================================================================
