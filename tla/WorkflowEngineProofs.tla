------------------------ MODULE WorkflowEngineProofs ------------------------
(***************************************************************************)
(* Proofs about WorkflowEngine, for every template, every set of handlers  *)
(* and agents and every choice of the operations in use.                   *)
(*                                                                         *)
(* A handler's next statement acts on rows it looked at several statements *)
(* ago, so the types alone are not inductive: FlowInv says what is still   *)
(* known of the task and the phase a handler holds, and OrderInv what is   *)
(* known of the phase it is about to open.                                 *)
(***************************************************************************)
EXTENDS WorkflowEngine, SequenceTheorems, FiniteSetTheorems, TLAPS

-----------------------------------------------------------------------------
(* The types, one part for each variable *)

PhaseRow == [status: {"pending", "active", "running", "waiting_approval",
                      "completed", "complete", "cancelled"},
             total: Nat, completed: Nat]

TaskRow == [kind: {"work", "gate", "test"},
            status: {"available", "blocked", "claimed", "in_progress", "done",
                     "test", "needs_fix", "deployed"},
            assignee: Agents \cup {None}, phase: 0..Len(Template), from: Nat, passes: Nat]

\* Where the next statement works on the task, and on the phase, of the call.
OnTask  == {"map", "complete.done", "complete.pass", "complete.fail", "count", "passed",
            "failed", "review", "test.task", "test.map", "dev.dep", "dev.map", "queue.map"}
OnPhase == {"activate", "map", "run", "leave", "next", "enter", "totals", "counted", "close",
            "queue", "queue.task", "queue.map", "requeue", "test.map", "test.total", "approve",
            "resume", "dev.task", "dev.dep", "dev.map"}

Request == [pc: {"idle", "advance"} \cup OnTask \cup OnPhase,
            a: Agents \cup {None}, t: Nat, i: 0..Len(Template), n: Nat, left: SUBSET Nat]

PhasesOK ==
  /\ workflow \in {"none", "active", "complete", "rejected", "deleted"}
  /\ DOMAIN phases \in {{}, DOMAIN Template}
  /\ phases \in [DOMAIN phases -> PhaseRow]

TasksOK ==
  /\ tasks \in Seq(TaskRow) /\ Len(tasks) <= MaxTasks
  /\ \A t \in DOMAIN tasks : /\ tasks[t].phase \in DOMAIN phases \cup {0}
                             /\ tasks[t].from <= Len(tasks)

CallsOK ==
  /\ call \in [Calls -> Request]
  /\ \A g \in Calls :
       /\ call[g].t <= Len(tasks)
       /\ call[g].pc \in OnTask => call[g].t \in DOMAIN tasks
       /\ call[g].pc \in OnPhase => call[g].i \in DOMAIN Template
       /\ call[g].left \subseteq DOMAIN tasks

\* Nothing happens before the workflow starts.
FreshOK == workflow = "none" => phases = <<>> /\ tasks = <<>> /\ \A g \in Calls : Free(g)

FlowInv == PhasesOK /\ TasksOK /\ CallsOK /\ FreshOK

\* What a handler knows of the phase it is about to open.
Opening == {"activate", "map", "run", "approve", "dev.task", "dev.dep", "dev.map"}
OrderInv ==
  \A g \in Calls : call[g].i \in DOMAIN phases =>
    /\ call[g].pc \in Opening => phases[call[g].i].status # "pending"
    /\ call[g].pc = "enter" => \A j \in 1..call[g].i - 1 : phases[j].status # "pending"

-----------------------------------------------------------------------------
(* Facts about the operators of the model *)

LEMMA LessThan == \A x, y \in Nat : y < x => <<y, x>> \in OpToRel(<, Nat)
BY Zenon DEF OpToRel

(* The phase "ORDER BY phase_index LIMIT 1" returns. *)
LEMMA LeastIn ==
  ASSUME NEW S \in SUBSET Nat, S # {}
  PROVE  Least(S) \in S /\ \A j \in S : Least(S) <= j
<1>1. PICK x \in S : \A y \in S : ~(<<y, x>> \in OpToRel(<, Nat))
  BY WFMin, NatLessThanWellFounded
<1>2. ASSUME NEW y \in S PROVE x <= y
  <2>1. x \in Nat /\ y \in Nat OBVIOUS
  <2>2. ~(y < x)
    BY <2>1, <1>1, LessThan
  <2>3. QED BY <2>1, <2>2
<1>3. QED BY <1>2 DEF Least

LEMMA Rooms == MaxTasks \in Nat /\ \A n \in Nat : Rows(n) => Len(tasks) + n <= MaxTasks
BY FlowAssumption DEF Rows

LEMMA Domains ==
  /\ Len(Template) \in Nat /\ DOMAIN Template = 1..Len(Template) /\ 1 \in DOMAIN Template
  /\ TasksOK => Len(tasks) \in Nat /\ DOMAIN tasks = 1..Len(tasks)
<1>1. Len(Template) \in Nat \ {0} /\ DOMAIN Template = 1..Len(Template)
  BY FlowAssumption, LenProperties, EmptySeq
<1>2. TasksOK => Len(tasks) \in Nat /\ DOMAIN tasks = 1..Len(tasks)
  BY LenProperties DEF TasksOK
<1>3. QED BY <1>1, <1>2

LEMMA FinitelyMany ==
  ASSUME TasksOK, NEW S \in SUBSET DOMAIN tasks
  PROVE  IsFiniteSet(S) /\ Cardinality(S) \in Nat
<1>1. IsFiniteSet(DOMAIN tasks)
  BY Domains, FS_Interval
<1>2. IsFiniteSet(S) BY <1>1, FS_Subset
<1>3. QED BY <1>2, FS_CardinalityType

-----------------------------------------------------------------------------
(* What the statements do to the rows *)

(* UPDATE workflow_phases SET status, completed_tasks, total_tasks. *)
LEMMA PhaseUpdates ==
  ASSUME PhasesOK, NEW i
  PROVE  /\ \A row \in PhaseRow : Update(i, row) \in [DOMAIN phases -> PhaseRow]
         /\ \A s \in {"pending", "active", "running", "waiting_approval",
                      "completed", "complete", "cancelled"} :
              SetStatus(i, s) \in [DOMAIN phases -> PhaseRow]
         /\ CountUp(i) \in [DOMAIN phases -> PhaseRow]
         /\ \A n \in Nat : Plan(i, n) \in [DOMAIN phases -> PhaseRow]
<1>1. \A row \in PhaseRow : Update(i, row) \in [DOMAIN phases -> PhaseRow]
  BY DEF PhasesOK, Update
<1>2. i \in DOMAIN phases => phases[i] \in PhaseRow
  BY DEF PhasesOK
<1>3. phases \in [DOMAIN phases -> PhaseRow]
  BY DEF PhasesOK
<1>4. ASSUME NEW s \in {"pending", "active", "running", "waiting_approval",
                       "completed", "complete", "cancelled"}
      PROVE  SetStatus(i, s) \in [DOMAIN phases -> PhaseRow]
  <2>1. i \in DOMAIN phases => [phases[i] EXCEPT !.status = s] \in PhaseRow
    BY <1>2 DEF PhaseRow
  <2>2. QED BY <1>1, <1>3, <2>1 DEF SetStatus
<1>5. CountUp(i) \in [DOMAIN phases -> PhaseRow]
  <2>1. i \in DOMAIN phases => [phases[i] EXCEPT !.completed = @ + 1] \in PhaseRow
    BY <1>2 DEF PhaseRow
  <2>2. QED BY <1>1, <1>3, <2>1 DEF CountUp
<1>6. ASSUME NEW n \in Nat PROVE Plan(i, n) \in [DOMAIN phases -> PhaseRow]
  <2>1. i \in DOMAIN phases => [phases[i] EXCEPT !.total = @ + n] \in PhaseRow
    BY <1>2 DEF PhaseRow
  <2>2. QED BY <1>1, <1>3, <2>1 DEF Plan
<1>7. QED BY <1>1, <1>4, <1>5, <1>6

LEMMA PhasesKept ==
  ASSUME PhasesOK, workflow' \in {"active", "complete", "rejected", "deleted", workflow},
         phases' \in [DOMAIN phases -> PhaseRow]
  PROVE  PhasesOK' /\ DOMAIN phases' = DOMAIN phases
BY DEF PhasesOK

(* UPDATE tasks: the rows stay, some columns change. *)
LEMMA TasksRewritten ==
  ASSUME TasksOK, tasks' = [u \in DOMAIN tasks |-> tasks'[u]],
         \A u \in DOMAIN tasks : /\ tasks'[u] \in TaskRow
                                 /\ tasks'[u].from <= Len(tasks)
                                 /\ tasks'[u].phase \in DOMAIN phases' \cup {0}
  PROVE  TasksOK' /\ Len(tasks') = Len(tasks) /\ DOMAIN tasks' = DOMAIN tasks
<1>1. Len(tasks) \in Nat /\ DOMAIN tasks = 1..Len(tasks)
  BY Domains
<1>2. tasks' \in [1..Len(tasks) -> TaskRow]
  BY <1>1
<1>3. tasks' \in Seq(TaskRow)
  BY <1>1, <1>2, SeqDef
<1>4. DOMAIN tasks' = 1..Len(tasks) /\ DOMAIN tasks' = 1..Len(tasks') /\ Len(tasks') \in Nat
  BY <1>2, <1>3, LenProperties
<1>5. Len(tasks') = Len(tasks)
  BY <1>1, <1>4
<1>6. QED BY <1>1, <1>3, <1>4, <1>5 DEF TasksOK

(* INSERT INTO tasks. *)
LEMMA TaskAdded ==
  ASSUME TasksOK, NEW row \in TaskRow, Rows(1), tasks' = Append(tasks, row),
         DOMAIN phases' = DOMAIN phases,
         row.phase \in DOMAIN phases \cup {0}, row.from <= Len(tasks)
  PROVE  /\ TasksOK' /\ Len(tasks') = Len(tasks) + 1
         /\ DOMAIN tasks' = 1..Len(tasks) + 1
         /\ \A u \in DOMAIN tasks : tasks'[u] = tasks[u]
         /\ tasks'[Len(tasks) + 1] = row
<1>1. Len(tasks) \in Nat /\ DOMAIN tasks = 1..Len(tasks)
  BY Domains
<1>2. /\ tasks' \in Seq(TaskRow) /\ Len(tasks') = Len(tasks) + 1
      /\ \A i \in 1..Len(tasks) : tasks'[i] = tasks[i]
      /\ tasks'[Len(tasks) + 1] = row
  BY AppendProperties DEF TasksOK
<1>3. DOMAIN tasks' = 1..Len(tasks) + 1
  BY <1>2, LenProperties
<1>4. ASSUME NEW t \in DOMAIN tasks'
      PROVE  tasks'[t].phase \in DOMAIN phases' \cup {0} /\ tasks'[t].from <= Len(tasks')
  <2>1. CASE t \in DOMAIN tasks
    <3>1. tasks[t] \in TaskRow BY <2>1, ElementOfSeq, <1>1 DEF TasksOK
    <3>2. tasks[t].from \in Nat /\ tasks[t].from <= Len(tasks) BY <2>1, <3>1 DEF TasksOK, TaskRow
    <3>3. QED BY <2>1, <3>2, <1>1, <1>2 DEF TasksOK
  <2>2. CASE t \notin DOMAIN tasks
    <3>1. t = Len(tasks) + 1 BY <2>2, <1>1, <1>3
    <3>2. row.from \in Nat BY DEF TaskRow
    <3>3. QED BY <3>1, <3>2, <1>1, <1>2
  <2>3. QED BY <2>1, <2>2
<1>5. Len(tasks') <= MaxTasks
  BY <1>1, <1>2, Rooms
<1>6. QED BY <1>1, <1>2, <1>3, <1>4, <1>5 DEF TasksOK

(* A handler moves on, with a task and a phase that exist. *)
LEMMA CallMoves ==
  ASSUME CallsOK, TasksOK, TasksOK', Len(tasks) <= Len(tasks'),
         NEW g \in Calls, NEW r \in Request, call' = [call EXCEPT ![g] = r],
         r.t <= Len(tasks'),
         r.pc \in OnTask => r.t \in DOMAIN tasks',
         r.pc \in OnPhase => r.i \in DOMAIN Template,
         r.left \subseteq DOMAIN tasks'
  PROVE  CallsOK'
<1>1. call' \in [Calls -> Request] BY DEF CallsOK
<1>2. ASSUME NEW h \in Calls
      PROVE  /\ call'[h].t <= Len(tasks')
             /\ call'[h].pc \in OnTask => call'[h].t \in DOMAIN tasks'
             /\ call'[h].pc \in OnPhase => call'[h].i \in DOMAIN Template
             /\ call'[h].left \subseteq DOMAIN tasks'
  <2>1. Len(tasks) \in Nat /\ DOMAIN tasks = 1..Len(tasks) BY Domains
  <2>2. Len(tasks') \in Nat /\ DOMAIN tasks' = 1..Len(tasks') BY LenProperties DEF TasksOK
  <2>3. call[h].t \in Nat BY DEF CallsOK, Request
  <2>4. CASE h = g BY <2>4 DEF CallsOK
  <2>5. CASE h # g
    <3>1. call'[h] = call[h] BY <2>5 DEF CallsOK
    <3>2. QED BY <3>1, <2>1, <2>2, <2>3 DEF CallsOK
  <2>6. QED BY <2>4, <2>5
<1>3. QED BY <1>1, <1>2 DEF CallsOK

LEMMA IdleOK == Idle \in Request /\ Idle.pc = "idle" /\ Idle.t = 0 /\ Idle.left = {}
BY Domains DEF Idle, Request

LEMMA CallReturns ==
  ASSUME CallsOK, TasksOK, TasksOK', Len(tasks) <= Len(tasks'), NEW g \in Calls, Return(g)
  PROVE  CallsOK'
<1>1. Idle.t <= Len(tasks') /\ Idle.pc \notin OnTask \cup OnPhase
  BY IdleOK, LenProperties DEF TasksOK, OnTask, OnPhase
<1>2. QED BY <1>1, IdleOK, CallMoves DEF Return

\* The two short forms, when no task is inserted.
LEMMA CallGoesOn ==
  ASSUME CallsOK, TasksOK, TasksOK', Len(tasks') = Len(tasks), NEW g \in Calls,
         NEW p \in {"idle", "advance"} \cup OnTask \cup OnPhase,
         p \in OnTask => call[g].pc \in OnTask
  PROVE  /\ Goto(g, p) /\ (p \in OnPhase => call[g].i \in DOMAIN Template) => CallsOK'
         /\ \A i \in DOMAIN Template : GotoPhase(g, p, i) => CallsOK'
<1>0. /\ call[g] \in Request /\ call[g].t <= Len(tasks')
      /\ p \in OnTask => call[g].t \in DOMAIN tasks'
      /\ call[g].left \subseteq DOMAIN tasks'
  BY LenProperties DEF CallsOK, TasksOK
<1>1. ASSUME Goto(g, p), p \in OnPhase => call[g].i \in DOMAIN Template PROVE CallsOK'
  <2> DEFINE r == [call[g] EXCEPT !.pc = p]
  <2>1. r \in Request /\ r.pc = p /\ r.t = call[g].t /\ r.i = call[g].i /\ r.left = call[g].left
    BY <1>0 DEF Request
  <2>2. call' = [call EXCEPT ![g] = r]
    BY <1>1 DEF Goto, CallsOK
  <2> HIDE DEF r
  <2>3. Len(tasks) <= Len(tasks')
    BY Domains
  <2>4. QED BY <1>0, <1>1, <2>1, <2>2, <2>3, CallMoves
<1>2. ASSUME NEW i \in DOMAIN Template, GotoPhase(g, p, i) PROVE CallsOK'
  <2> DEFINE r == [call[g] EXCEPT !.pc = p, !.i = i]
  <2>1. r \in Request /\ r.pc = p /\ r.t = call[g].t /\ r.i = i /\ r.left = call[g].left
    <3>1. i \in 0..Len(Template) BY Domains
    <3>2. QED BY <1>0, <3>1 DEF Request
  <2>2. call' = [call EXCEPT ![g] = r]
    BY <1>2 DEF GotoPhase, CallsOK
  <2> HIDE DEF r
  <2>3. Len(tasks) <= Len(tasks')
    BY Domains
  <2>4. QED BY <1>0, <2>1, <2>2, <2>3, CallMoves
<1>3. QED BY <1>1, <1>2

LEMMA TasksSame ==
  ASSUME TasksOK, tasks' = tasks, DOMAIN phases \subseteq DOMAIN phases'
  PROVE  TasksOK' /\ Len(tasks') = Len(tasks)
BY DEF TasksOK

(* A workflow with a call in flight, a phase or a task has started. *)
LEMMA Started ==
  ASSUME FlowInv
  PROVE  /\ \A g \in Calls : call[g].pc # "idle" => workflow # "none"
         /\ \A t \in DOMAIN tasks : workflow # "none"
         /\ \A i \in DOMAIN phases : workflow # "none"
BY DEF FlowInv, FreshOK, Free, Idle

LEMMA StillStarted == workflow # "none" /\ workflow' \in {"active", "complete", "rejected", "deleted", workflow} => FreshOK'
BY DEF FreshOK

-----------------------------------------------------------------------------
(* The steps, section by section of the model *)

LEMMA InitFlow == Init => FlowInv /\ OrderInv
<1> SUFFICES ASSUME Init PROVE FlowInv /\ OrderInv OBVIOUS
<1>1. PhasesOK BY DEF Init, PhasesOK
<1>2. <<>> \in Seq(TaskRow) /\ Len(<<>>) = 0 BY EmptySeq
<1>3. DOMAIN tasks = {} BY DEF Init
<1>4. TasksOK BY <1>2, <1>3, FlowAssumption DEF Init, TasksOK
<1>5. CallsOK
  BY <1>2, IdleOK DEF Init, CallsOK, OnTask, OnPhase
<1>6. FreshOK BY DEF Init, FreshOK, Free
<1>7. OrderInv BY IdleOK DEF Init, OrderInv, Opening
<1>8. QED BY <1>1, <1>4, <1>5, <1>6, <1>7 DEF FlowInv

(* Statements that change rows of phases only, if any. *)
LEMMA PhaseStatements ==
  ASSUME FlowInv, NEW g \in Calls,
         \/ RunPhase(g) \/ ActivateDecision(g) \/ ActivatePlain(g)
         \/ AdvanceLeave(g) \/ AdvanceEnter(g) \/ ReadCompleted(g) \/ ClosePhase(g)
         \/ QueueTotal(g) \/ TestTaskTotal(g) \/ ApproveGate(g)
  PROVE  FlowInv'
<1> USE DEF FlowInv
<1>1. /\ tasks' = tasks /\ workflow' = workflow /\ call[g] \in Request
      /\ call[g].pc \in OnPhase /\ call[g].i \in DOMAIN Template
  BY DEF RunPhase, ActivateDecision, ActivatePlain, AdvanceLeave, AdvanceEnter, ReadCompleted,
         ClosePhase, QueueTotal, TestTaskTotal, ApproveGate, At, OnPhase, CallsOK
<1>2. phases' \in [DOMAIN phases -> PhaseRow]
  <2>1. CASE RunPhase(g)
    <3>1. call[g].i \in DOMAIN phases =>
            [phases[call[g].i] EXCEPT !.status = "running", !.total = call[g].n] \in PhaseRow
      BY <1>1 DEF PhasesOK, PhaseRow, Request
    <3>2. QED BY <2>1, <3>1, PhaseUpdates DEF RunPhase, PhasesOK
  <2>2. CASE QueueTotal(g) \/ TestTaskTotal(g)
    <3>1. call[g].n \in Nat /\ 1 \in Nat
      BY <1>1 DEF Request
    <3>2. \E n \in Nat : phases' = Plan(call[g].i, n)
      BY <2>2, <3>1 DEF QueueTotal, TestTaskTotal
    <3>3. \A n \in Nat : Plan(call[g].i, n) \in [DOMAIN phases -> PhaseRow]
      BY PhaseUpdates
    <3>4. QED BY <3>2, <3>3
  <2>3. CASE \/ ActivateDecision(g) \/ ActivatePlain(g) \/ AdvanceLeave(g) \/ AdvanceEnter(g)
             \/ ReadCompleted(g) \/ ClosePhase(g) \/ ApproveGate(g)
    <3>1. \/ phases' = phases
          \/ \E s \in {"running", "completed", "waiting_approval", "active"} :
               phases' = SetStatus(call[g].i, s)
      BY <2>3
      DEF ActivateDecision, ActivatePlain, AdvanceLeave, AdvanceEnter, ReadCompleted,
          ClosePhase, ApproveGate
    <3>2. QED BY <3>1, PhaseUpdates DEF PhasesOK
  <2>4. QED BY <2>1, <2>2, <2>3
<1>3. PhasesOK' /\ DOMAIN phases' = DOMAIN phases
  BY <1>1, <1>2, PhasesKept
<1>4. TasksOK' /\ Len(tasks') = Len(tasks)
  BY <1>1, <1>3, TasksSame
<1>5. CallsOK'
  <2>1. \/ Return(g)
        \/ \E p \in {"advance", "next", "activate", "close", "queue", "resume"} : Goto(g, p)
    BY DEF RunPhase, ActivateDecision, ActivatePlain, AdvanceLeave, AdvanceEnter, ReadCompleted,
           ClosePhase, QueueTotal, TestTaskTotal, ApproveGate
  <2>2. Len(tasks) <= Len(tasks') BY <1>4, Domains
  <2>3. CASE Return(g)
    BY <1>4, <2>2, <2>3, CallReturns
  <2>4. ASSUME NEW p \in {"advance", "next", "activate", "close", "queue", "resume"}, Goto(g, p)
        PROVE  CallsOK'
    <3>1. p \in {"idle", "advance"} \cup OnTask \cup OnPhase /\ p \notin OnTask
      BY DEF OnTask, OnPhase
    <3>2. QED BY <1>1, <1>4, <2>4, <3>1, CallGoesOn
  <2>5. QED BY <2>1, <2>3, <2>4
<1>6. FreshOK'
  BY <1>1, Started, StillStarted DEF OnPhase
<1>7. QED BY <1>3, <1>4, <1>5, <1>6

(* Reads that fix the phase the next statements work on, and the end of a     *)
(* workflow.                                                                  *)
LEMMA ReadStatements ==
  ASSUME FlowInv, NEW g \in Calls,
         \/ AdvanceRead(g) \/ AdvanceNext(g) \/ ReadTotal(g) \/ Count(g) \/ GatePass(g)
         \/ ApproveRead(g) \/ ApproveResume(g) \/ GateFail(g)
  PROVE  FlowInv'
<1> USE DEF FlowInv
<1>0. call[g] \in Request /\ (call[g].pc \in OnPhase => call[g].i \in DOMAIN Template)
  BY DEF CallsOK
<1>1. tasks' = tasks /\ workflow' \in {"active", "complete", "rejected", "deleted", workflow}
  BY DEF AdvanceRead, AdvanceNext, ReadTotal, Count, GatePass, ApproveRead, ApproveResume, GateFail
<1>2. phases' \in [DOMAIN phases -> PhaseRow]
  <2>1. \/ phases' = phases
        \/ \E i : phases' = CountUp(i)
        \/ \E i : \E s \in {"complete", "completed", "active"} : phases' = SetStatus(i, s)
    BY DEF AdvanceRead, AdvanceNext, ReadTotal, Count, GatePass, ApproveRead, ApproveResume, GateFail
  <2>2. QED BY <2>1, PhaseUpdates DEF PhasesOK
<1>3. PhasesOK' /\ DOMAIN phases' = DOMAIN phases /\ DOMAIN phases \subseteq DOMAIN Template
  BY <1>1, <1>2, PhasesKept DEF PhasesOK
<1>4. TasksOK' /\ Len(tasks') = Len(tasks) /\ Len(tasks) <= Len(tasks')
  BY <1>1, <1>3, TasksSame, Domains
<1>5. \A s : WithStatus(s) \subseteq DOMAIN Template /\ (WithStatus(s) # {} => Least(WithStatus(s)) \in DOMAIN Template)
  <2> SUFFICES ASSUME NEW s
               PROVE  /\ WithStatus(s) \subseteq DOMAIN Template
                      /\ WithStatus(s) # {} => Least(WithStatus(s)) \in DOMAIN Template
    OBVIOUS
  <2>1. WithStatus(s) \subseteq DOMAIN Template
    BY <1>3 DEF WithStatus
  <2>2. WithStatus(s) \in SUBSET Nat
    BY <2>1, Domains
  <2>3. QED BY <2>1, <2>2, LeastIn
<1>6. CallsOK'
  <2>1. CASE Return(g)
    BY <1>4, <2>1, CallReturns
  <2>2. ASSUME NEW p \in {"totals", "leave", "enter", "requeue"}, NEW i \in DOMAIN Template,
               GotoPhase(g, p, i)
        PROVE  CallsOK'
    <3>1. p \in {"idle", "advance"} \cup OnTask \cup OnPhase /\ p \notin OnTask
      BY DEF OnTask, OnPhase
    <3>2. QED BY <1>4, <2>2, <3>1, CallGoesOn
  <2>3. CASE Goto(g, "advance")
    <3>1. "advance" \notin OnTask \cup OnPhase
      BY DEF OnTask, OnPhase
    <3>2. QED BY <1>4, <2>3, <3>1, CallGoesOn
  <2>4. CASE ReadTotal(g)
    <3> DEFINE m == IF call[g].i \in DOMAIN phases THEN phases[call[g].i].total ELSE 0
               r == [call[g] EXCEPT !.pc = "counted", !.n = m]
    <3>1. m \in Nat BY DEF PhasesOK, PhaseRow
    <3>2. call[g].i \in DOMAIN Template BY <1>0, <2>4 DEF ReadTotal, At, OnPhase
    <3>3. call' = [call EXCEPT ![g] = r] BY <2>4 DEF ReadTotal, CallsOK
    <3> HIDE DEF m
    <3>4. r \in Request /\ r.pc = "counted" /\ r.t = call[g].t /\ r.i = call[g].i
          /\ r.left = call[g].left
      BY <1>0, <3>1 DEF Request, OnPhase
    <3>5. r.t <= Len(tasks') /\ r.pc \notin OnTask /\ r.left \subseteq DOMAIN tasks'
      BY <1>1, <1>4, <3>4 DEF CallsOK, OnTask
    <3> HIDE DEF r
    <3>6. QED BY <1>4, <3>2, <3>3, <3>4, <3>5, CallMoves
  <2>5. CASE ApproveRead(g)
    <3>1. PICK i \in WithStatus("waiting_approval") :
                 call' = [call EXCEPT ![g] = [Idle EXCEPT !.pc = "approve", !.i = i]]
      BY <2>5 DEF ApproveRead
    <3>2. i \in DOMAIN Template /\ i \in 0..Len(Template)
      BY <1>5, Domains
    <3> DEFINE r == [Idle EXCEPT !.pc = "approve", !.i = i]
    <3>3. r \in Request /\ r.pc = "approve" /\ r.t = 0 /\ r.i = i /\ r.left = {}
      BY <3>2 DEF Idle, Request, OnPhase
    <3>4. r.t <= Len(tasks') /\ r.pc \notin OnTask
      BY <1>4, <3>3, Domains DEF OnTask
    <3> HIDE DEF r
    <3>5. QED BY <1>4, <3>1, <3>2, <3>3, <3>4, CallMoves DEF r
  <2>6. CASE ApproveResume(g) \/ GatePass(g)
    BY <2>1, <2>3, <2>6 DEF ApproveResume, GatePass
  <2>7. CASE AdvanceRead(g) \/ AdvanceNext(g) \/ Count(g)
    <3>1. \/ Return(g)
          \/ \E p \in {"totals", "leave", "enter", "requeue"}, i \in DOMAIN Template :
               GotoPhase(g, p, i)
      BY <1>3, <1>5, <2>7 DEF AdvanceRead, AdvanceNext, Count
    <3>2. QED BY <2>1, <2>2, <3>1
  <2>8. CASE GateFail(g)
    <3>1. \/ Return(g)
          \/ \E target \in DOMAIN phases : GotoPhase(g, "requeue", target)
      BY <2>8 DEF GateFail
    <3>2. QED BY <1>3, <2>1, <2>2, <3>1
  <2>9. QED BY <2>4, <2>5, <2>6, <2>7, <2>8
<1>7. FreshOK'
  <2>1. workflow # "none"
    BY Started
    DEF AdvanceRead, AdvanceNext, ReadTotal, Count, GatePass, ApproveRead, ApproveResume, GateFail,
        At, WithStatus
  <2>2. QED BY <1>1, <2>1, StillStarted
<1>8. QED BY <1>3, <1>4, <1>6, <1>7

\* A call that starts: what the handler read before its first statement.
LEMMA CallStarts ==
  ASSUME CallsOK, TasksOK, TasksOK', Len(tasks') = Len(tasks), NEW g \in Calls,
         NEW p \in OnTask, NEW a \in Agents \cup {None}, NEW t \in DOMAIN tasks,
         p \notin OnPhase,
         NEW r \in {[Idle EXCEPT !.pc = p, !.t = t], [Idle EXCEPT !.pc = p, !.a = a, !.t = t]},
         call' = [call EXCEPT ![g] = r]
  PROVE  CallsOK'
<1>1. t \in Nat /\ t <= Len(tasks') /\ t \in DOMAIN tasks' /\ Len(tasks) <= Len(tasks')
  BY Domains, LenProperties DEF TasksOK
<1>2. 0 \in 0..Len(Template)
  BY Domains
<1>3. r \in Request /\ r.pc = p /\ r.t = t /\ r.left = {}
  <2>1. CASE r = [Idle EXCEPT !.pc = p, !.t = t]
    BY <1>1, <1>2, <2>1 DEF Idle, Request
  <2>2. CASE r = [Idle EXCEPT !.pc = p, !.a = a, !.t = t]
    BY <1>1, <1>2, <2>2 DEF Idle, Request
  <2>3. QED BY <2>1, <2>2
<1>4. QED BY <1>1, <1>3, CallMoves

LEMMA StartStatements ==
  ASSUME FlowInv, NEW g \in Calls,
         \/ StartWorkflow(g)
         \/ \E t \in DOMAIN tasks :
              \/ ReviewRead(g, t)
              \/ \E a \in Agents, v \in {"done", "pass", "fail"} : CompleteRead(g, a, t, v)
  PROVE  FlowInv'
<1> USE DEF FlowInv
<1>1. CASE StartWorkflow(g)
  <2> DEFINE row(i) == [status |-> IF i = 1 THEN "active" ELSE "pending", total |-> 0, completed |-> 0]
  <2>1. workflow' = "active" /\ tasks' = tasks /\ phases' = [i \in DOMAIN Template |-> row(i)]
    BY <1>1 DEF StartWorkflow
  <2>2. \A i \in DOMAIN Template : row(i) \in PhaseRow
    BY DEF PhaseRow
  <2>3. PhasesOK'
    BY <2>1, <2>2 DEF PhasesOK
  <2>4. DOMAIN phases \subseteq DOMAIN phases'
    BY <2>1 DEF PhasesOK
  <2>5. TasksOK' /\ Len(tasks') = Len(tasks) /\ Len(tasks) <= Len(tasks')
    BY <2>1, <2>4, TasksSame, Domains
  <2>6. CallsOK'
    <3> DEFINE r == [Idle EXCEPT !.pc = "activate", !.i = 1]
    <3>1. 1 \in 0..Len(Template) /\ 1 \in DOMAIN Template
      BY Domains
    <3>2. r \in Request /\ r.pc = "activate" /\ r.t = 0 /\ r.i = 1 /\ r.left = {}
      BY <3>1 DEF Idle, Request, OnPhase
    <3>3. r.t <= Len(tasks') /\ r.pc \notin OnTask
      BY <2>5, <3>2, Domains DEF OnTask
    <3>4. call' = [call EXCEPT ![g] = r]
      BY <1>1 DEF StartWorkflow
    <3> HIDE DEF r
    <3>5. QED BY <2>5, <3>1, <3>2, <3>3, <3>4, CallMoves
  <2>7. FreshOK'
    BY <2>1 DEF FreshOK
  <2>8. QED BY <2>3, <2>5, <2>6, <2>7
<1>2. ASSUME NEW t \in DOMAIN tasks,
             \/ ReviewRead(g, t)
             \/ \E a \in Agents, v \in {"done", "pass", "fail"} : CompleteRead(g, a, t, v)
      PROVE  FlowInv'
  <2>1. UNCHANGED <<workflow, phases, tasks>>
    BY <1>2 DEF ReviewRead, CompleteRead
  <2>2. PhasesOK' /\ TasksOK' /\ Len(tasks') = Len(tasks)
    BY <2>1, TasksSame DEF PhasesOK
  <2>3. {"review", "complete.done", "complete.pass", "complete.fail"} \subseteq OnTask \ OnPhase
    BY DEF OnTask, OnPhase
  <2>4. CASE ReviewRead(g, t)
    <3>1. call' = [call EXCEPT ![g] = [Idle EXCEPT !.pc = "review", !.t = t]]
      BY <2>4 DEF ReviewRead
    <3>2. CallsOK' BY <2>2, <2>3, <3>1, CallStarts
    <3>3. QED BY <2>1, <2>2, <3>2, Started, StillStarted
  <2>5. ASSUME NEW a \in Agents, NEW v \in {"done", "pass", "fail"}, CompleteRead(g, a, t, v)
        PROVE  FlowInv'
    <3>1. call' = [call EXCEPT ![g] = [Idle EXCEPT !.pc = Completing[v], !.a = a, !.t = t]]
      BY <2>5 DEF CompleteRead
    <3>2. Completing[v] \in {"complete.done", "complete.pass", "complete.fail"}
      BY DEF Completing
    <3> DEFINE p == Completing[v]
    <3>3. p \in OnTask /\ p \notin OnPhase BY <3>2, <2>3
    <3>4. call' = [call EXCEPT ![g] = [Idle EXCEPT !.pc = p, !.a = a, !.t = t]]
      BY <3>1
    <3> HIDE DEF p
    <3>5. CallsOK' BY <2>2, <3>3, <3>4, CallStarts
    <3>6. QED BY <2>1, <2>2, <3>5, Started, StillStarted
  <2>6. QED BY <1>2, <2>4, <2>5
<1>3. QED BY <1>1, <1>2

(* An UPDATE that finishes a task keeps the rows well formed. *)
LEMMA FinishRows ==
  ASSUME PhasesOK, TasksOK, NEW t \in DOMAIN tasks, NEW s \in {"done", "deployed"}, Finish(t, s)
  PROVE  /\ tasks' = [u \in DOMAIN tasks |-> tasks'[u]]
         /\ \A u \in DOMAIN tasks : /\ tasks'[u] \in TaskRow
                                    /\ tasks'[u].from = tasks[u].from
                                    /\ tasks'[u].phase = tasks[u].phase
         /\ phases' \in [DOMAIN phases -> PhaseRow]
<1>0. \A u \in DOMAIN tasks : tasks[u] \in TaskRow
  BY Domains, ElementOfSeq DEF TasksOK
<1>1. phases' \in [DOMAIN phases -> PhaseRow]
  <2>1. phases' = phases \/ phases' = CountUp(tasks[t].phase)
    BY DEF Finish
  <2>2. QED BY <2>1, PhaseUpdates DEF PhasesOK
<1>2. \A u \in DOMAIN tasks :
        tasks'[u] \in {[tasks[u] EXCEPT !.status = s, !.assignee = None],
                       [tasks[u] EXCEPT !.status = "available"], tasks[u]}
  BY DEF Finish
<1>3. \A u \in DOMAIN tasks :
        /\ [tasks[u] EXCEPT !.status = s, !.assignee = None] \in TaskRow
        /\ [tasks[u] EXCEPT !.status = "available"] \in TaskRow
  BY <1>0 DEF TaskRow
<1>4. \A u \in DOMAIN tasks : tasks'[u].from = tasks[u].from /\ tasks'[u].phase = tasks[u].phase
  BY <1>0, <1>2 DEF TaskRow
<1>5. tasks' = [u \in DOMAIN tasks |-> tasks'[u]]
  BY DEF Finish
<1>6. QED BY <1>0, <1>1, <1>2, <1>3, <1>4, <1>5

(* Statements that change rows of tasks that exist, on behalf of a call. *)
LEMMA TaskStatements ==
  ASSUME FlowInv, NEW g \in Calls,
         \/ MapTask(g) \/ CompleteUpdate(g) \/ Requeue(g) \/ ReviewPass(g) \/ TestTaskMap(g)
         \/ DevMap(g) \/ QueueMap(g)
  PROVE  FlowInv'
<1> USE DEF FlowInv
<1>0. /\ \A u \in DOMAIN tasks : tasks[u] \in TaskRow
      /\ call[g] \in Request
      /\ call[g].pc \in OnTask => call[g].t \in DOMAIN tasks
      /\ call[g].pc \in OnPhase => call[g].i \in DOMAIN Template
  BY Domains, ElementOfSeq DEF TasksOK, CallsOK
<1>1. workflow' = workflow /\ call[g].pc # "idle"
  <2>1. CASE CompleteUpdate(g)
    BY <2>1 DEF CompleteUpdate, At, Completing
  <2>2. CASE \/ MapTask(g) \/ Requeue(g) \/ ReviewPass(g) \/ TestTaskMap(g)
             \/ DevMap(g) \/ QueueMap(g)
    BY <2>2 DEF MapTask, Requeue, ReviewPass, TestTaskMap, DevMap, QueueMap, At
  <2>3. QED BY <2>1, <2>2
<1>2. FreshOK'
  BY <1>1, Started, StillStarted
<1>3. CASE CompleteUpdate(g)
  <2>1. PICK v \in DOMAIN Completing : At(g, Completing[v]) /\ Goto(g, Calling[v])
    BY <1>3 DEF CompleteUpdate
  <2>2. Completing[v] \in OnTask /\ Calling[v] \in OnTask /\ Calling[v] \notin OnPhase
    BY DEF Completing, Calling, OnTask, OnPhase
  <2>3. call[g].t \in DOMAIN tasks
    BY <1>0, <2>1, <2>2 DEF At
  <2>4. CASE Finish(call[g].t, "done")
    <3>1. /\ phases' \in [DOMAIN phases -> PhaseRow]
          /\ tasks' = [u \in DOMAIN tasks |-> tasks'[u]]
          /\ \A u \in DOMAIN tasks : /\ tasks'[u] \in TaskRow
                                     /\ tasks'[u].from = tasks[u].from
                                     /\ tasks'[u].phase = tasks[u].phase
      BY <2>3, <2>4, FinishRows
    <3>2. PhasesOK' /\ DOMAIN phases' = DOMAIN phases
      BY <1>1, <3>1, PhasesKept
    <3>3. \A u \in DOMAIN tasks : /\ tasks'[u].phase \in DOMAIN phases' \cup {0}
                                  /\ tasks'[u].from <= Len(tasks)
      BY <3>1, <3>2 DEF TasksOK
    <3>4. TasksOK' /\ Len(tasks') = Len(tasks)
      BY <3>1, <3>3, TasksRewritten
    <3>5. CallsOK'
      BY <2>1, <2>2, <3>4, CallGoesOn DEF At
    <3>6. QED BY <1>2, <3>2, <3>4, <3>5
  <2>5. CASE UNCHANGED <<phases, tasks>>
    <3>1. PhasesOK' /\ TasksOK' /\ Len(tasks') = Len(tasks)
      BY <1>1, <2>5, TasksSame DEF PhasesOK
    <3>2. CallsOK'
      BY <2>1, <2>2, <3>1, CallGoesOn DEF At
    <3>3. QED BY <1>2, <3>1, <3>2
  <2>6. QED BY <1>3, <2>4, <2>5 DEF CompleteUpdate
<1>4. CASE \/ MapTask(g) \/ Requeue(g) \/ ReviewPass(g) \/ TestTaskMap(g)
           \/ DevMap(g) \/ QueueMap(g)
  <2>1. phases' = phases /\ PhasesOK'
    BY <1>1, <1>4
    DEF MapTask, Requeue, ReviewPass, TestTaskMap, DevMap, QueueMap, PhasesOK
  <2>2. /\ tasks' = [u \in DOMAIN tasks |-> tasks'[u]]
        /\ \A u \in DOMAIN tasks : /\ tasks'[u] \in TaskRow
                                   /\ tasks'[u].from = tasks[u].from
                                   /\ tasks'[u].phase \in DOMAIN phases \cup {0}
    <3>0. tasks = [u \in DOMAIN tasks |-> tasks[u]]
      BY LenProperties DEF TasksOK
    <3>1. CASE tasks' = tasks
      BY <1>0, <3>0, <3>1 DEF TasksOK
    <3>2. CASE call[g].i \in DOMAIN phases /\ tasks' = [tasks EXCEPT ![call[g].t].phase = call[g].i]
      <4>1. tasks' = [u \in DOMAIN tasks |->
                        IF u = call[g].t THEN [tasks[u] EXCEPT !.phase = call[g].i] ELSE tasks[u]]
        BY <3>0, <3>2
      <4>2. call[g].i \in 0..Len(Template)
        BY <1>0 DEF Request
      <4>3. \A u \in DOMAIN tasks : [tasks[u] EXCEPT !.phase = call[g].i] \in TaskRow
        BY <1>0, <4>2 DEF TaskRow
      <4>4. \A u \in DOMAIN tasks :
              /\ [tasks[u] EXCEPT !.phase = call[g].i].from = tasks[u].from
              /\ [tasks[u] EXCEPT !.phase = call[g].i].phase = call[g].i
        BY <1>0 DEF TaskRow
      <4>5. QED BY <1>0, <3>2, <4>1, <4>3, <4>4 DEF TasksOK
    <3>3. CASE Requeue(g)
      <4>1. \A u \in DOMAIN tasks :
              /\ [tasks[u] EXCEPT !.status = "available", !.assignee = None] \in TaskRow
              /\ [tasks[u] EXCEPT !.status = "available", !.assignee = None].from = tasks[u].from
              /\ [tasks[u] EXCEPT !.status = "available", !.assignee = None].phase = tasks[u].phase
        BY <1>0 DEF TaskRow
      <4>2. /\ tasks' = [u \in DOMAIN tasks |-> tasks'[u]]
            /\ \A u \in DOMAIN tasks :
                 tasks'[u] \in {[tasks[u] EXCEPT !.status = "available", !.assignee = None], tasks[u]}
        BY <3>3 DEF Requeue
      <4>3. QED BY <1>0, <4>1, <4>2 DEF TasksOK
    <3>4. CASE tasks' = [tasks EXCEPT ![call[g].t].status = "test", ![call[g].t].passes = @ + 1]
      <4>1. \A u \in DOMAIN tasks :
              /\ [tasks[u] EXCEPT !.status = "test", !.passes = @ + 1] \in TaskRow
              /\ [tasks[u] EXCEPT !.status = "test", !.passes = @ + 1].from = tasks[u].from
              /\ [tasks[u] EXCEPT !.status = "test", !.passes = @ + 1].phase = tasks[u].phase
        <5> SUFFICES ASSUME NEW u \in DOMAIN tasks
                     PROVE  LET row == [tasks[u] EXCEPT !.status = "test", !.passes = @ + 1]
                            IN  row \in TaskRow /\ row.from = tasks[u].from
                                                /\ row.phase = tasks[u].phase
          OBVIOUS
        <5>1. tasks[u] \in TaskRow /\ tasks[u].passes + 1 \in Nat
          BY <1>0 DEF TaskRow
        <5>2. QED BY <5>1 DEF TaskRow
      <4>2. /\ tasks' = [u \in DOMAIN tasks |-> tasks'[u]]
            /\ \A u \in DOMAIN tasks :
                 tasks'[u] \in {[tasks[u] EXCEPT !.status = "test", !.passes = @ + 1], tasks[u]}
        BY <1>0, <3>0, <3>4
      <4>3. QED BY <1>0, <4>1, <4>2 DEF TasksOK
    <3>5. QED BY <1>4, <3>1, <3>2, <3>3, <3>4
              DEF MapTask, ReviewPass, TestTaskMap, DevMap, QueueMap
  <2>3. TasksOK' /\ Len(tasks') = Len(tasks) /\ Len(tasks) <= Len(tasks')
    <3>1. \A u \in DOMAIN tasks : /\ tasks'[u].phase \in DOMAIN phases' \cup {0}
                                  /\ tasks'[u].from <= Len(tasks)
      BY <2>1, <2>2 DEF TasksOK
    <3>2. QED BY <2>2, <3>1, TasksRewritten, Domains
  <2>4. CallsOK'
    <3>1. CASE Return(g)
      BY <2>3, <3>1, CallReturns
    <3>2. CASE MapTask(g) /\ call' = [call EXCEPT ![g].pc = "run", ![g].n = 1]
      <4> DEFINE r == [call[g] EXCEPT !.pc = "run", !.n = 1]
      <4>1. call' = [call EXCEPT ![g] = r]
        BY <3>2 DEF CallsOK
      <4>2. r \in Request /\ r.pc = "run" /\ r.t = call[g].t /\ r.i = call[g].i
            /\ r.left = call[g].left
        BY <1>0 DEF Request, OnPhase
      <4>3. r.t <= Len(tasks') /\ r.pc \notin OnTask /\ r.i \in DOMAIN Template
            /\ r.left \subseteq DOMAIN tasks'
        BY <1>0, <2>3, <3>2, <4>2 DEF CallsOK, OnTask, OnPhase, MapTask, At
      <4> HIDE DEF r
      <4>4. QED BY <2>3, <4>1, <4>2, <4>3, CallMoves
    <3>3. CASE TestTaskMap(g) /\ Goto(g, "test.total")
      <4>1. "test.total" \notin OnTask /\ "test.total" \in OnPhase /\ call[g].i \in DOMAIN Template
        BY <1>0, <3>3 DEF OnTask, OnPhase, TestTaskMap, At
      <4>2. QED BY <2>3, <3>3, <4>1, CallGoesOn
    <3>4. CASE Requeue(g)
      <4>1. Goto(g, "advance") /\ "advance" \notin OnTask \cup OnPhase
        BY <3>4 DEF Requeue, OnTask, OnPhase
      <4>2. QED BY <2>3, <4>1, CallGoesOn
    <3>5. CASE ReviewPass(g)
      <4>1. Goto(g, "test.task") /\ "test.task" \in OnTask /\ "test.task" \notin OnPhase
            /\ call[g].pc \in OnTask
        BY <3>5 DEF ReviewPass, OnTask, OnPhase, At
      <4>2. QED BY <2>3, <4>1, CallGoesOn
    <3>6. CASE (DevMap(g) \/ QueueMap(g)) /\ ~Return(g)
      <4>1. \E p \in {"run", "dev.task", "queue.task"} : Goto(g, p)
        BY <3>6 DEF DevMap, QueueMap
      <4>2. {"run", "dev.task", "queue.task"} \subseteq OnPhase \ OnTask
            /\ call[g].i \in DOMAIN Template
        BY <1>0, <3>6 DEF OnTask, OnPhase, DevMap, QueueMap, At
      <4>3. QED BY <2>3, <4>1, <4>2, CallGoesOn
    <3>7. QED BY <1>4, <3>1, <3>2, <3>3, <3>4, <3>5, <3>6 DEF MapTask, TestTaskMap
  <2>5. QED BY <1>2, <2>1, <2>3, <2>4
<1>5. QED BY <1>3, <1>4

(* Statements that insert tasks. *)
LEMMA InsertStatements ==
  ASSUME FlowInv, NEW g \in Calls,
         ActivateTask(g) \/ TestTaskNew(g) \/ DevTask(g) \/ QueueTask(g)
  PROVE  FlowInv'
<1> USE DEF FlowInv
<1>0. /\ call[g] \in Request /\ call[g].t <= Len(tasks)
      /\ call[g].pc \in OnTask => call[g].t \in DOMAIN tasks
      /\ call[g].pc \in OnPhase => call[g].i \in DOMAIN Template
      /\ Len(tasks) \in Nat /\ DOMAIN tasks = 1..Len(tasks) /\ DOMAIN phases \subseteq DOMAIN Template
      /\ DOMAIN Template = 1..Len(Template) /\ Len(Template) \in Nat
      /\ call[g].left \subseteq DOMAIN tasks
  BY Domains DEF CallsOK, PhasesOK
<1>1. workflow' = workflow /\ call[g].pc # "idle"
  BY DEF ActivateTask, DevTask, QueueTask, TestTaskNew, At
<1>2. FreshOK'
  BY <1>1, Started, StillStarted
<1>3. CASE ActivateTask(g)
  <2> DEFINE row == NewTask(IF Template[call[g].i] = "gate" THEN "gate" ELSE "work", "available", 0, 0)
  <2>1. row \in TaskRow /\ row.phase = 0 /\ row.from = 0
    BY <1>0 DEF NewTask, TaskRow
  <2>2. Rows(1) /\ tasks' = Append(tasks, row) /\ phases' = phases
    BY <1>3 DEF ActivateTask
  <2> HIDE DEF row
  <2>3. TasksOK' /\ Len(tasks') = Len(tasks) + 1 /\ DOMAIN tasks' = 1..Len(tasks) + 1
    BY <1>0, <2>1, <2>2, TaskAdded
  <2>4. PhasesOK'
    BY <1>1, <2>2 DEF PhasesOK
  <2>5. CallsOK'
    <3> DEFINE r == [call[g] EXCEPT !.pc = "map", !.t = Len(tasks) + 1]
    <3>1. call' = [call EXCEPT ![g] = r]
      BY <1>3 DEF ActivateTask, CallsOK
    <3>2. call[g].i \in DOMAIN Template
      BY <1>0, <1>3 DEF ActivateTask, At, OnPhase
    <3>3. r \in Request /\ r.pc = "map" /\ r.t = Len(tasks) + 1 /\ r.i = call[g].i
          /\ r.left = call[g].left
      <4>1. Len(tasks) + 1 \in Nat BY <1>0
      <4>2. "map" \in {"idle", "advance"} \cup OnTask \cup OnPhase BY DEF OnTask
      <4>3. QED BY <1>0, <4>1, <4>2 DEF Request
    <3> HIDE DEF r
    <3>4. r.t <= Len(tasks') /\ r.t \in DOMAIN tasks' /\ Len(tasks) <= Len(tasks')
          /\ r.left \subseteq DOMAIN tasks'
      BY <1>0, <2>3, <3>3
    <3>5. QED BY <2>3, <3>1, <3>2, <3>3, <3>4, CallMoves
  <2>6. QED BY <1>2, <2>3, <2>4, <2>5
<1>4. CASE TestTaskNew(g)
  <2>0. call[g].t \in DOMAIN tasks
    BY <1>0, <1>4 DEF TestTaskNew, At, OnTask
  <2>1. CASE Return(g) /\ tasks' = tasks /\ phases' = phases
    <3>1. PhasesOK' /\ TasksOK' /\ Len(tasks') = Len(tasks) /\ Len(tasks) <= Len(tasks')
      BY <1>0, <1>1, <2>1, TasksSame DEF PhasesOK
    <3>2. QED BY <1>2, <2>1, <3>1, CallReturns
  <2>2. CASE ~(Return(g) /\ tasks' = tasks /\ phases' = phases)
    <3> DEFINE row == NewTask("test", "available", 0, call[g].t)
               i == tasks[call[g].t].phase
               r == [call[g] EXCEPT !.pc = "test.map", !.i = i + 1, !.t = Len(tasks) + 1]
    <3>1. row \in TaskRow /\ row.phase = 0 /\ row.from = call[g].t
      BY <1>0 DEF NewTask, TaskRow, Request
    <3>2. /\ i \in DOMAIN phases /\ i + 1 \in DOMAIN phases /\ phases' = phases
          /\ Rows(1) /\ tasks' = Append(tasks, row)
      BY <1>4, <2>2 DEF TestTaskNew
    <3>3. call' = [call EXCEPT ![g] = r]
      BY <1>4, <2>2 DEF TestTaskNew, CallsOK
    <3>4. i + 1 \in DOMAIN Template /\ i + 1 \in 0..Len(Template)
      BY <1>0, <3>2
    <3> HIDE DEF row
    <3>5. TasksOK' /\ Len(tasks') = Len(tasks) + 1 /\ DOMAIN tasks' = 1..Len(tasks) + 1
      BY <1>0, <3>1, <3>2, TaskAdded
    <3> HIDE DEF i
    <3>6. r \in Request /\ r.pc = "test.map" /\ r.t = Len(tasks) + 1 /\ r.i = i + 1
          /\ r.left = call[g].left
      <4>1. Len(tasks) + 1 \in Nat BY <1>0
      <4>2. "test.map" \in {"idle", "advance"} \cup OnTask \cup OnPhase BY DEF OnTask
      <4>3. QED BY <1>0, <3>4, <4>1, <4>2 DEF Request
    <3> HIDE DEF r
    <3>7. r.t <= Len(tasks') /\ r.t \in DOMAIN tasks' /\ Len(tasks) <= Len(tasks')
          /\ r.left \subseteq DOMAIN tasks'
      BY <1>0, <3>5, <3>6
    <3>8. CallsOK'
      BY <3>3, <3>4, <3>5, <3>6, <3>7, CallMoves
    <3>9. PhasesOK' BY <1>1, <3>2 DEF PhasesOK
    <3>10. QED BY <1>2, <3>5, <3>8, <3>9
  <2>3. QED BY <2>1, <2>2
<1>5. CASE DevTask(g)
  <2> DEFINE row == NewTask("work", "blocked", 0, 0)
             r == [call[g] EXCEPT !.pc = "dev.dep", !.t = Len(tasks) + 1]
  <2>1. row \in TaskRow /\ row.phase = 0 /\ row.from = 0
    BY <1>0 DEF NewTask, TaskRow
  <2>2. Rows(1) /\ tasks' = Append(tasks, row) /\ phases' = phases /\ call[g].i \in DOMAIN Template
    BY <1>0, <1>5 DEF DevTask, At, OnPhase
  <2>3. call' = [call EXCEPT ![g] = r]
    BY <1>5 DEF DevTask, CallsOK
  <2> HIDE DEF row
  <2>4. TasksOK' /\ Len(tasks') = Len(tasks) + 1 /\ DOMAIN tasks' = 1..Len(tasks) + 1
    BY <1>0, <2>1, <2>2, TaskAdded
  <2>5. r \in Request /\ r.pc = "dev.dep" /\ r.t = Len(tasks) + 1 /\ r.i = call[g].i
        /\ r.left = call[g].left
    <3>1. Len(tasks) + 1 \in Nat BY <1>0
    <3>2. "dev.dep" \in {"idle", "advance"} \cup OnTask \cup OnPhase BY DEF OnTask
    <3>3. QED BY <1>0, <3>1, <3>2 DEF Request
  <2> HIDE DEF r
  <2>6. r.t <= Len(tasks') /\ r.t \in DOMAIN tasks' /\ Len(tasks) <= Len(tasks')
        /\ r.left \subseteq DOMAIN tasks'
    BY <1>0, <2>4, <2>5
  <2>7. CallsOK' BY <2>2, <2>3, <2>4, <2>5, <2>6, CallMoves
  <2>8. PhasesOK' BY <1>1, <2>2 DEF PhasesOK
  <2>9. QED BY <1>2, <2>4, <2>7, <2>8
<1>6. CASE QueueTask(g)
  <2>1. PICK d \in call[g].left :
          \/ /\ Rows(1)
             /\ tasks' = Append(tasks, NewTask("work", "available", 0, d))
             /\ call' = [call EXCEPT ![g].pc = "queue.map", ![g].t = Len(tasks) + 1,
                                     ![g].left = @ \ {d}]
          \/ /\ call' = [call EXCEPT ![g].left = @ \ {d}]
             /\ UNCHANGED tasks
    BY <1>6 DEF QueueTask
  <2>2. /\ phases' = phases /\ PhasesOK' /\ call[g].i \in DOMAIN Template
        /\ d \in DOMAIN tasks /\ d \in Nat /\ d <= Len(tasks)
        /\ call[g].pc \notin OnTask /\ call[g].left \ {d} \subseteq DOMAIN tasks
        /\ call[g].left \ {d} \in SUBSET Nat
    BY <1>0, <1>1, <1>6 DEF QueueTask, At, OnPhase, OnTask, PhasesOK
  <2>3. CASE /\ call' = [call EXCEPT ![g].left = @ \ {d}] /\ UNCHANGED tasks
    <3> DEFINE r == [call[g] EXCEPT !.left = call[g].left \ {d}]
    <3>1. call' = [call EXCEPT ![g] = r] BY <2>3 DEF CallsOK
    <3>2. r \in Request /\ r.pc = call[g].pc /\ r.t = call[g].t /\ r.i = call[g].i
          /\ r.left = call[g].left \ {d}
      BY <1>0, <2>2 DEF Request
    <3> HIDE DEF r
    <3>3. TasksOK' /\ Len(tasks') = Len(tasks) /\ Len(tasks) <= Len(tasks')
      BY <1>0, <2>2, <2>3, TasksSame
    <3>4. CallsOK' BY <1>0, <2>2, <2>3, <3>1, <3>2, <3>3, CallMoves
    <3>5. QED BY <1>2, <2>2, <3>3, <3>4
  <2>4. CASE /\ Rows(1)
             /\ tasks' = Append(tasks, NewTask("work", "available", 0, d))
             /\ call' = [call EXCEPT ![g].pc = "queue.map", ![g].t = Len(tasks) + 1,
                                     ![g].left = @ \ {d}]
    <3> DEFINE row == NewTask("work", "available", 0, d)
               r == [call[g] EXCEPT !.pc = "queue.map", !.t = Len(tasks) + 1,
                                    !.left = call[g].left \ {d}]
    <3>1. row \in TaskRow /\ row.phase = 0 /\ row.from = d
      BY <1>0, <2>2 DEF NewTask, TaskRow
    <3>2. call' = [call EXCEPT ![g] = r] BY <2>4 DEF CallsOK
    <3>3. tasks' = Append(tasks, row) BY <2>4
    <3> HIDE DEF row
    <3>4. TasksOK' /\ Len(tasks') = Len(tasks) + 1 /\ DOMAIN tasks' = 1..Len(tasks) + 1
      BY <1>0, <2>2, <2>4, <3>1, <3>3, TaskAdded
    <3>5. r \in Request /\ r.pc = "queue.map" /\ r.t = Len(tasks) + 1 /\ r.i = call[g].i
          /\ r.left = call[g].left \ {d}
      <4>1. Len(tasks) + 1 \in Nat BY <1>0
      <4>2. "queue.map" \in {"idle", "advance"} \cup OnTask \cup OnPhase BY DEF OnTask
      <4>3. QED BY <1>0, <2>2, <4>1, <4>2 DEF Request
    <3> HIDE DEF r
    <3>6. r.t <= Len(tasks') /\ r.t \in DOMAIN tasks' /\ Len(tasks) <= Len(tasks')
          /\ r.left \subseteq DOMAIN tasks'
      BY <1>0, <2>2, <3>4, <3>5
    <3>7. CallsOK' BY <2>2, <3>2, <3>4, <3>5, <3>6, CallMoves
    <3>8. QED BY <1>2, <2>2, <3>4, <3>7
  <2>5. QED BY <2>1, <2>3, <2>4
<1>7. QED BY <1>3, <1>4, <1>5, <1>6

(* What the loops over finished tasks read, and the dependency they insert. *)
LEMMA LoopStatements ==
  ASSUME FlowInv, NEW g \in Calls, ActivatePerDev(g) \/ QueueRead(g) \/ DevDep(g)
  PROVE  FlowInv'
<1> USE DEF FlowInv
<1>0. /\ call[g] \in Request /\ call[g].t \in Nat /\ call[g].t <= Len(tasks)
      /\ call[g].pc \in OnTask => call[g].t \in DOMAIN tasks
      /\ call[g].i \in DOMAIN Template
      /\ Len(tasks) \in Nat /\ DOMAIN tasks = 1..Len(tasks) /\ DOMAIN phases \subseteq DOMAIN Template
      /\ DOMAIN Template = 1..Len(Template) /\ Len(Template) \in Nat
      /\ call[g].left \subseteq DOMAIN tasks
  BY Domains DEF CallsOK, PhasesOK, Request, ActivatePerDev, QueueRead, DevDep, At, OnPhase
<1>1. workflow' = workflow /\ call[g].pc # "idle"
  BY DEF ActivatePerDev, QueueRead, DevDep, At
<1>2. FreshOK'
  BY <1>1, Started, StillStarted
<1>3. CASE /\ tasks' = tasks /\ (Return(g) \/ Goto(g, "advance"))
           /\ \/ phases' = phases
              \/ phases' = SetStatus(call[g].i, "running")
              \/ /\ call[g].i \in DOMAIN phases
                 /\ phases' = Update(call[g].i, [phases[call[g].i] EXCEPT
                                       !.status = "completed", !.total = 0])
  <2>1. phases' \in [DOMAIN phases -> PhaseRow]
    <3>1. call[g].i \in DOMAIN phases => phases[call[g].i] \in PhaseRow
      BY DEF PhasesOK
    <3>2. call[g].i \in DOMAIN phases =>
            [phases[call[g].i] EXCEPT !.status = "completed", !.total = 0] \in PhaseRow
      BY <3>1 DEF PhaseRow
    <3>3. CASE phases' = phases
      BY <3>3 DEF PhasesOK
    <3>4. CASE phases' = SetStatus(call[g].i, "running")
      BY <3>4, PhaseUpdates
    <3>5. CASE /\ call[g].i \in DOMAIN phases
               /\ phases' = Update(call[g].i, [phases[call[g].i] EXCEPT
                                     !.status = "completed", !.total = 0])
      BY <3>2, <3>5, PhaseUpdates
    <3>6. QED BY <1>3, <3>3, <3>4, <3>5
  <2>2. PhasesOK' /\ DOMAIN phases' = DOMAIN phases
    BY <1>1, <2>1, PhasesKept
  <2>3. TasksOK' /\ Len(tasks') = Len(tasks) /\ Len(tasks) <= Len(tasks')
    BY <1>0, <1>3, <2>2, TasksSame
  <2>4. CASE Return(g)
    BY <1>2, <2>2, <2>3, <2>4, CallReturns
  <2>5. CASE Goto(g, "advance")
    <3>1. "advance" \notin OnTask \cup OnPhase BY DEF OnTask, OnPhase
    <3>2. CallsOK' BY <2>3, <2>5, <3>1, CallGoesOn
    <3>3. QED BY <1>2, <2>2, <2>3, <3>2
  <2>6. QED BY <1>3, <2>4, <2>5
<1>4. ASSUME NEW S \in SUBSET DOMAIN tasks, NEW p \in {"dev.task", "queue.task"},
             NEW i \in DOMAIN Template, UNCHANGED <<phases, tasks>>,
             call' = [call EXCEPT ![g] = [call[g] EXCEPT !.pc = p, !.i = i, !.n = Cardinality(S),
                                                         !.left = S]]
      PROVE  FlowInv'
  <2> DEFINE r == [call[g] EXCEPT !.pc = p, !.i = i, !.n = Cardinality(S), !.left = S]
  <2>1. Cardinality(S) \in Nat /\ S \in SUBSET Nat BY <1>0, FinitelyMany
  <2>2. i \in 0..Len(Template) /\ p \in OnPhase /\ p \notin OnTask
    BY <1>0 DEF OnPhase, OnTask
  <2>3. r \in Request /\ r.pc = p /\ r.t = call[g].t /\ r.i = i /\ r.left = S
    BY <1>0, <2>1, <2>2 DEF Request
  <2>4. call' = [call EXCEPT ![g] = r] BY <1>4
  <2> HIDE DEF r
  <2>5. PhasesOK' /\ TasksOK' /\ Len(tasks') = Len(tasks) /\ Len(tasks) <= Len(tasks')
        /\ DOMAIN tasks' = DOMAIN tasks
    BY <1>0, <1>1, <1>4, TasksSame DEF PhasesOK
  <2>6. r.t <= Len(tasks') /\ r.pc \notin OnTask /\ r.i \in DOMAIN Template
        /\ r.left \subseteq DOMAIN tasks'
    BY <1>0, <2>2, <2>3, <2>5
  <2>7. CallsOK' BY <2>3, <2>4, <2>5, <2>6, CallMoves
  <2>8. QED BY <1>2, <2>5, <2>7
<1>5. CASE ActivatePerDev(g)
  <2> DEFINE prev == FinishedIn(call[g].i - 1)
  <2>1. prev \in SUBSET DOMAIN tasks BY DEF FinishedIn, Mapped
  <2>2. CASE /\ call' = [call EXCEPT ![g].pc = "dev.task", ![g].n = Cardinality(prev),
                                     ![g].left = prev]
             /\ UNCHANGED <<phases, tasks>>
    <3> HIDE DEF prev
    <3>1. call' = [call EXCEPT ![g] = [call[g] EXCEPT !.pc = "dev.task", !.i = call[g].i,
                                                      !.n = Cardinality(prev), !.left = prev]]
      BY <1>0, <2>2 DEF CallsOK, Request
    <3>2. QED BY <1>0, <1>4, <2>1, <2>2, <3>1
  <2>3. QED BY <1>3, <1>5, <2>2 DEF ActivatePerDev
<1>6. CASE QueueRead(g)
  <2> DEFINE dev == FinishedIn(call[g].i)
             i == Least(WithStatus("pending"))
  <2>1. dev \in SUBSET DOMAIN tasks BY DEF FinishedIn, Mapped
  <2>2. CASE Goto(g, "advance")
    BY <1>3, <1>6, <2>2 DEF QueueRead
  <2>3. CASE ~Goto(g, "advance")
    <3>1. /\ WithStatus("pending") # {} /\ UNCHANGED <<phases, tasks>>
          /\ call' = [call EXCEPT ![g].pc = "queue.task", ![g].i = i,
                                  ![g].n = Cardinality(dev), ![g].left = dev]
      BY <1>6, <2>3 DEF QueueRead
    <3>2. i \in DOMAIN phases
      <4>1. WithStatus("pending") \in SUBSET Nat /\ WithStatus("pending") \subseteq DOMAIN phases
        BY <1>0 DEF WithStatus
      <4>2. QED BY <3>1, <4>1, LeastIn
    <3> HIDE DEF dev, i
    <3>3. call' = [call EXCEPT ![g] = [call[g] EXCEPT !.pc = "queue.task", !.i = i,
                                                      !.n = Cardinality(dev), !.left = dev]]
      BY <3>1 DEF CallsOK
    <3>4. QED BY <1>0, <1>4, <2>1, <3>1, <3>2, <3>3
  <2>4. QED BY <2>2, <2>3
<1>7. CASE DevDep(g)
  <2>1. PICK d \in call[g].left :
          /\ tasks' = [tasks EXCEPT ![call[g].t].from = d]
          /\ call' = [call EXCEPT ![g].pc = "dev.map", ![g].left = @ \ {d}]
    BY <1>7 DEF DevDep
  <2>2. phases' = phases /\ PhasesOK' /\ d \in Nat /\ d <= Len(tasks)
    BY <1>0, <1>1, <1>7, <2>1 DEF DevDep, PhasesOK
  <2>3. /\ \A u \in DOMAIN tasks : tasks[u] \in TaskRow
        /\ tasks = [u \in DOMAIN tasks |-> tasks[u]]
    BY <1>0, ElementOfSeq, LenProperties DEF TasksOK
  <2>4. tasks' = [u \in DOMAIN tasks |->
                    IF u = call[g].t THEN [tasks[u] EXCEPT !.from = d] ELSE tasks[u]]
    BY <2>1, <2>3
  <2>5. \A u \in DOMAIN tasks :
          /\ [tasks[u] EXCEPT !.from = d] \in TaskRow
          /\ [tasks[u] EXCEPT !.from = d].from = d
          /\ [tasks[u] EXCEPT !.from = d].phase = tasks[u].phase
    BY <2>2, <2>3 DEF TaskRow
  <2>6. \A u \in DOMAIN tasks : /\ tasks'[u] \in TaskRow
                                /\ tasks'[u].from <= Len(tasks)
                                /\ tasks'[u].phase \in DOMAIN phases' \cup {0}
    BY <2>2, <2>3, <2>4, <2>5 DEF TasksOK
  <2>7. tasks' = [u \in DOMAIN tasks |-> tasks'[u]] BY <2>4
  <2>8. TasksOK' /\ Len(tasks') = Len(tasks) /\ DOMAIN tasks' = DOMAIN tasks
    BY <2>6, <2>7, TasksRewritten
  <2> DEFINE r == [call[g] EXCEPT !.pc = "dev.map", !.left = call[g].left \ {d}]
  <2>9. call' = [call EXCEPT ![g] = r] BY <2>1 DEF CallsOK
  <2>10. "dev.map" \in OnTask /\ call[g].pc \in OnTask /\ call[g].left \ {d} \in SUBSET Nat
    BY <1>0, <1>7 DEF DevDep, At, OnTask
  <2>11. r \in Request /\ r.pc = "dev.map" /\ r.t = call[g].t /\ r.i = call[g].i
         /\ r.left = call[g].left \ {d}
    BY <1>0, <2>10 DEF Request
  <2> HIDE DEF r
  <2>12. r.t <= Len(tasks') /\ r.t \in DOMAIN tasks' /\ Len(tasks) <= Len(tasks')
         /\ r.left \subseteq DOMAIN tasks'
    BY <1>0, <2>8, <2>10, <2>11
  <2>13. CallsOK' BY <1>0, <2>8, <2>9, <2>11, <2>12, CallMoves
  <2>14. QED BY <1>2, <2>2, <2>8, <2>13
<1>8. QED BY <1>5, <1>6, <1>7

(* One-statement calls and the restart: no call in flight takes part. *)
LEMMA OneStatementCalls ==
  ASSUME FlowInv,
         \/ Reject \/ DeleteWorkflow \/ Restart
         \/ \E t \in DOMAIN tasks :
              \/ Progress(t) \/ SendBack(t) \/ Deploy(t)
              \/ \E a \in Agents : Claim(a, t)
  PROVE  FlowInv'
<1> USE DEF FlowInv
<1>0. /\ \A u \in DOMAIN tasks : tasks[u] \in TaskRow
      /\ tasks = [u \in DOMAIN tasks |-> tasks[u]]
  BY Domains, ElementOfSeq, LenProperties DEF TasksOK
<1>1. CASE Restart
  <2>1. UNCHANGED <<workflow, phases, tasks>>
    BY <1>1 DEF Restart
  <2>2. PhasesOK' /\ TasksOK' /\ Len(tasks') = Len(tasks)
    BY <2>1, TasksSame DEF PhasesOK
  <2>3. CallsOK'
    <3>1. \A g \in Calls : call'[g] = Idle
      BY <1>1 DEF Restart
    <3>2. /\ Idle \in Request /\ Idle.t <= Len(tasks') /\ Idle.pc \notin OnTask \cup OnPhase
          /\ Idle.left \subseteq DOMAIN tasks'
      BY <2>2, IdleOK, Domains DEF OnTask, OnPhase
    <3>3. QED BY <1>1, <3>1, <3>2 DEF Restart, CallsOK
  <2>4. FreshOK'
    BY <1>1, <2>1 DEF Restart, FreshOK, Free
  <2>5. QED BY <2>2, <2>3, <2>4
<1>2. CASE Reject
  <2>1. workflow' = "rejected" /\ tasks' = tasks /\ call' = call
    BY <1>2 DEF Reject
  <2>2. phases' \in [DOMAIN phases -> PhaseRow]
    <3>1. \A i \in DOMAIN phases :
            phases[i] \in PhaseRow /\ [phases[i] EXCEPT !.status = "cancelled"] \in PhaseRow
      BY DEF PhasesOK, PhaseRow
    <3>2. QED BY <1>2, <3>1 DEF Reject
  <2>3. PhasesOK' /\ DOMAIN phases' = DOMAIN phases
    BY <2>1, <2>2, PhasesKept
  <2>4. TasksOK' BY <2>1, <2>3, TasksSame
  <2>5. QED BY <2>1, <2>3, <2>4 DEF CallsOK, FreshOK
<1>3. CASE DeleteWorkflow
  <2>1. workflow' = "deleted" /\ phases' = <<>> /\ call' = call
    BY <1>3 DEF DeleteWorkflow
  <2>2. PhasesOK'
    BY <2>1 DEF PhasesOK
  <2>3. 0 \in 0..Len(Template) BY Domains
  <2>4. \A u \in DOMAIN tasks : [tasks[u] EXCEPT !.phase = 0] \in TaskRow
                                /\ [tasks[u] EXCEPT !.phase = 0].from = tasks[u].from
                                /\ [tasks[u] EXCEPT !.phase = 0].phase = 0
    BY <1>0, <2>3 DEF TaskRow
  <2>5. tasks' = [u \in DOMAIN tasks |-> [tasks[u] EXCEPT !.phase = 0]]
    BY <1>3 DEF DeleteWorkflow
  <2>6. TasksOK' /\ Len(tasks') = Len(tasks) /\ DOMAIN tasks' = DOMAIN tasks
    <3>1. \A u \in DOMAIN tasks : tasks[u].from <= Len(tasks) BY DEF TasksOK
    <3>2. QED BY <2>4, <2>5, <3>1, TasksRewritten
  <2>7. QED BY <2>1, <2>2, <2>6 DEF CallsOK, FreshOK
<1>4. ASSUME NEW t \in DOMAIN tasks,
             Progress(t) \/ SendBack(t) \/ Deploy(t) \/ \E a \in Agents : Claim(a, t)
      PROVE  FlowInv'
  <2>1. workflow' = workflow /\ call' = call /\ workflow # "none"
    BY <1>4, Started DEF Progress, SendBack, Deploy, Claim
  <2>2. /\ phases' \in [DOMAIN phases -> PhaseRow]
        /\ tasks' = [u \in DOMAIN tasks |-> tasks'[u]]
        /\ \A u \in DOMAIN tasks : /\ tasks'[u] \in TaskRow
                                   /\ tasks'[u].from = tasks[u].from
                                   /\ tasks'[u].phase = tasks[u].phase
    <3>1. CASE Deploy(t)
      BY <3>1, FinishRows DEF Deploy
    <3>2. ASSUME NEW s \in {"claimed", "in_progress", "needs_fix"},
                 tasks' = [tasks EXCEPT ![t].status = s]
          PROVE  /\ tasks' = [u \in DOMAIN tasks |-> tasks'[u]]
                 /\ \A u \in DOMAIN tasks : /\ tasks'[u] \in TaskRow
                                            /\ tasks'[u].from = tasks[u].from
                                            /\ tasks'[u].phase = tasks[u].phase
      <4>1. [tasks[t] EXCEPT !.status = s] \in TaskRow
            /\ [tasks[t] EXCEPT !.status = s].from = tasks[t].from
            /\ [tasks[t] EXCEPT !.status = s].phase = tasks[t].phase
        BY <1>0 DEF TaskRow
      <4>2. tasks' = [tasks EXCEPT ![t] = [tasks[t] EXCEPT !.status = s]]
        BY <1>0, <3>2
      <4>3. QED BY <1>0, <4>1, <4>2
    <3>3. ASSUME NEW a \in Agents, Claim(a, t)
          PROVE  /\ tasks' = [u \in DOMAIN tasks |-> tasks'[u]]
                 /\ \A u \in DOMAIN tasks : /\ tasks'[u] \in TaskRow
                                            /\ tasks'[u].from = tasks[u].from
                                            /\ tasks'[u].phase = tasks[u].phase
      <4> DEFINE row == [tasks[t] EXCEPT !.status = "claimed", !.assignee = a]
      <4>1. row \in TaskRow /\ row.from = tasks[t].from /\ row.phase = tasks[t].phase
        BY <1>0 DEF TaskRow
      <4>2. tasks' = [tasks EXCEPT ![t] = row]
        BY <1>0, <3>3 DEF Claim
      <4> HIDE DEF row
      <4>3. QED BY <1>0, <4>1, <4>2
    <3>4. phases' = phases \/ Deploy(t)
      BY <1>4 DEF Progress, SendBack, Claim
    <3>5. QED BY <1>4, <3>1, <3>2, <3>3, <3>4 DEF Progress, SendBack, PhasesOK
  <2>3. PhasesOK' /\ DOMAIN phases' = DOMAIN phases
    BY <2>1, <2>2, PhasesKept
  <2>4. \A u \in DOMAIN tasks : /\ tasks'[u].phase \in DOMAIN phases' \cup {0}
                                /\ tasks'[u].from <= Len(tasks)
    BY <2>2, <2>3 DEF TasksOK
  <2>5. TasksOK' /\ Len(tasks') = Len(tasks) /\ DOMAIN tasks' = DOMAIN tasks
    BY <2>2, <2>4, TasksRewritten
  <2>6. QED BY <2>1, <2>3, <2>5 DEF CallsOK, FreshOK
<1>5. QED BY <1>1, <1>2, <1>3, <1>4

LEMMA StepFlow == FlowInv /\ [Next]_vars => FlowInv'
<1> SUFFICES ASSUME FlowInv, [Next]_vars PROVE FlowInv'
  OBVIOUS
<1>1. ASSUME NEW g \in Calls,
             \/ StartWorkflow(g) \/ Activate(g) \/ MapTask(g) \/ RunPhase(g) \/ Advance(g)
             \/ CompleteUpdate(g) \/ Count(g) \/ ReadTotal(g) \/ ReadCompleted(g) \/ ClosePhase(g)
             \/ QueueRead(g) \/ QueueTask(g) \/ QueueMap(g) \/ QueueTotal(g)
             \/ GatePass(g) \/ GateFail(g) \/ Requeue(g)
             \/ ReviewPass(g) \/ TestTaskNew(g) \/ TestTaskMap(g) \/ TestTaskTotal(g)
             \/ ApproveRead(g) \/ ApproveGate(g) \/ ApproveResume(g)
      PROVE  FlowInv'
  BY <1>1, PhaseStatements, ReadStatements, StartStatements, TaskStatements, InsertStatements,
     LoopStatements
  DEF Activate, Advance
<1>2. ASSUME NEW g \in Calls, NEW t \in DOMAIN tasks,
             \/ ReviewRead(g, t)
             \/ \E a \in Agents, v \in {"done", "pass", "fail"} : CompleteRead(g, a, t, v)
      PROVE  FlowInv'
  BY <1>2, StartStatements
<1>3. CASE \/ Reject \/ DeleteWorkflow \/ Restart
           \/ \E t \in DOMAIN tasks : \/ Progress(t) \/ SendBack(t) \/ Deploy(t)
                                      \/ \E a \in Agents : Claim(a, t)
  BY <1>3, OneStatementCalls
<1>4. CASE UNCHANGED vars
  BY <1>4 DEF vars, FlowInv, PhasesOK, TasksOK, CallsOK, FreshOK, Free
<1>5. QED BY <1>1, <1>2, <1>3, <1>4 DEF Next

LEMMA FlowInvariance == Spec => []FlowInv
BY InitFlow, StepFlow, PTL DEF Spec

(* Types: whatever calls interleave, with workflows deleted and rejected      *)
(* under them and restarts between their statements, a mapped task belongs to *)
(* an existing phase, and no handler holds a task or a phase out of range.    *)
THEOREM FlowTypes == Spec => []TypeOK
<1>1. FlowInv => TypeOK
  <2> SUFFICES ASSUME FlowInv PROVE TypeOK
    OBVIOUS
  <2>1. Len(tasks) \in Nat /\ DOMAIN tasks = 1..Len(tasks)
    BY Domains DEF FlowInv
  <2>2. \A t \in DOMAIN tasks : tasks[t] \in TaskRow /\ tasks[t].from \in 0..Len(tasks)
                                /\ tasks[t].phase \in DOMAIN phases \cup {0}
    <3> SUFFICES ASSUME NEW t \in DOMAIN tasks
                 PROVE  tasks[t] \in TaskRow /\ tasks[t].from \in 0..Len(tasks)
                        /\ tasks[t].phase \in DOMAIN phases \cup {0}
      OBVIOUS
    <3>1. tasks[t] \in TaskRow
      BY <2>1, ElementOfSeq DEF FlowInv, TasksOK
    <3>2. tasks[t].from \in Nat /\ tasks[t].from <= Len(tasks)
      BY <2>1, <3>1 DEF FlowInv, TasksOK, TaskRow
    <3>3. QED BY <2>1, <3>1, <3>2 DEF FlowInv, TasksOK
  <2>3. \A g \in Calls : /\ call[g] \in Request /\ call[g].t \in 0..Len(tasks)
                         /\ call[g].left \subseteq DOMAIN tasks
    BY <2>1 DEF FlowInv, CallsOK, Request
  <2>4. \A i \in DOMAIN phases : phases[i] \in PhaseRow
    BY DEF FlowInv, PhasesOK
  <2>5. \A t \in DOMAIN tasks :
          tasks[t] \in [kind: {"work", "gate", "test"},
                        status: {"available", "blocked", "claimed", "in_progress", "done",
                                 "test", "needs_fix", "deployed"},
                        assignee: Agents \cup {None}, phase: DOMAIN phases \cup {0},
                        from: 0..Len(tasks), passes: Nat]
    BY <2>2 DEF TaskRow
  <2>6. \A g \in Calls :
          /\ call[g].a \in Agents \cup {None} /\ call[g].t \in 0..Len(tasks)
          /\ call[g].i \in 0..Len(Template) /\ call[g].n \in Nat
          /\ call[g].left \subseteq DOMAIN tasks
    BY <2>3 DEF Request
  <2>7. QED
    BY <2>4, <2>5, <2>6 DEF FlowInv, PhasesOK, TasksOK, TypeOK, PhaseRow
<1>2. QED BY <1>1, FlowInvariance, PTL

-----------------------------------------------------------------------------
(* Phases are opened in order *)

\* The statements that set a phase going, other than a gate's verdict.
Opens(g) ==
  RunPhase(g) \/ ActivatePerDev(g) \/ ActivatePlain(g) \/ AdvanceEnter(g) \/ ApproveGate(g)

LEMMA UpdateAt ==
  ASSUME NEW i, NEW row, NEW j \in DOMAIN phases
  PROVE  Update(i, row)[j] = IF j = i THEN row ELSE phases[j]
BY DEF Update

LEMMA StatusSet ==
  ASSUME PhasesOK, NEW i, NEW s, NEW j \in DOMAIN phases
  PROVE  SetStatus(i, s)[j].status = IF j = i THEN s ELSE phases[j].status
<1>1. phases[j] \in PhaseRow
  BY DEF PhasesOK
<1>2. [phases[j] EXCEPT !.status = s].status = s
  BY <1>1 DEF PhaseRow
<1>3. QED BY <1>2 DEF SetStatus, Update

LEMMA StatusKept ==
  ASSUME PhasesOK, NEW i, NEW n, NEW j \in DOMAIN phases
  PROVE  CountUp(i)[j].status = phases[j].status /\ Plan(i, n)[j].status = phases[j].status
<1>1. phases[j] \in PhaseRow
  BY DEF PhasesOK
<1>2. [phases[j] EXCEPT !.completed = @ + 1].status = phases[j].status
  BY <1>1 DEF PhaseRow
<1>3. [phases[j] EXCEPT !.total = @ + n].status = phases[j].status
  BY <1>1 DEF PhaseRow
<1>4. CountUp(i)[j].status = phases[j].status
  BY <1>2 DEF CountUp, Update
<1>5. Plan(i, n)[j].status = phases[j].status
  BY <1>3 DEF Plan, Update
<1>6. QED BY <1>4, <1>5

(* Who may change the status of a phase, and to what. *)
LEMMA StatusChanges ==
  ASSUME FlowInv, [Next]_vars, workflow # "none", NEW j \in DOMAIN phases'
  PROVE  /\ j \in DOMAIN phases
         /\ \/ phases'[j].status = phases[j].status
            \/ phases'[j].status \in {"completed", "complete"}
            \/ /\ phases'[j].status = "cancelled" /\ phases[j].status # "completed"
               /\ "reject" \in Operations
            \/ \E g \in Calls : /\ Opens(g) /\ call[g].i = j
                                /\ phases'[j].status \in Opened
            \/ \E g \in Calls : /\ call'[g].pc = "requeue" /\ call'[g].i = j
                                /\ phases'[j].status = "active"
<1>0. PhasesOK /\ phases \in [DOMAIN phases -> PhaseRow]
  BY DEF FlowInv, PhasesOK
<1> DEFINE Goal == 
      /\ j \in DOMAIN phases
      /\ \/ phases'[j].status = phases[j].status
         \/ phases'[j].status \in {"completed", "complete"}
         \/ /\ phases'[j].status = "cancelled" /\ phases[j].status # "completed"
            /\ "reject" \in Operations
         \/ \E g \in Calls : /\ Opens(g) /\ call[g].i = j
                             /\ phases'[j].status \in Opened
         \/ \E g \in Calls : /\ call'[g].pc = "requeue" /\ call'[g].i = j
                             /\ phases'[j].status = "active"
<1>1. CASE phases' = phases \/ \E i, n : phases' = CountUp(i) \/ phases' = Plan(i, n)
  <2>1. j \in DOMAIN phases BY <1>1 DEF CountUp, Plan, Update
  <2>2. ASSUME NEW i, NEW n, phases' = CountUp(i) \/ phases' = Plan(i, n)
        PROVE  phases'[j].status = phases[j].status
    <3>1. CountUp(i)[j].status = phases[j].status /\ Plan(i, n)[j].status = phases[j].status
      BY <1>0, <2>1, StatusKept
    <3>2. QED BY <2>2, <3>1
  <2>3. QED BY <1>1, <2>1, <2>2
<1>2. CASE \E i, s : phases' = SetStatus(i, s) /\ s \in {"completed", "complete"}
  <2>1. PICK i, s : phases' = SetStatus(i, s) /\ s \in {"completed", "complete"} BY <1>2
  <2>2. j \in DOMAIN phases BY <2>1 DEF SetStatus, Update
  <2>3. SetStatus(i, s)[j].status = IF j = i THEN s ELSE phases[j].status
    BY <1>0, <2>2, StatusSet
  <2>4. QED BY <2>1, <2>2, <2>3
<1>3. ASSUME NEW g \in Calls, Opens(g) PROVE Goal
  <2> DEFINE i == call[g].i
  <2>1. CASE RunPhase(g)
    <3>1. CASE i \in DOMAIN phases
      <4> DEFINE row == [phases[i] EXCEPT !.status = "running", !.total = call[g].n]
      <4>1. phases' = Update(i, row) BY <2>1, <3>1 DEF RunPhase
      <4>2. phases[i] \in PhaseRow BY <1>0, <3>1
      <4>3. row.status = "running" BY <4>2 DEF PhaseRow
      <4> HIDE DEF row
      <4>4. j \in DOMAIN phases BY <4>1 DEF Update
      <4>5. phases'[j] = IF j = i THEN row ELSE phases[j]
        <5>1. Update(i, row)[j] = IF j = i THEN row ELSE phases[j]
          BY <4>4, UpdateAt
        <5>2. QED BY <4>1, <5>1
      <4>6. QED BY <1>3, <4>3, <4>4, <4>5 DEF Opened
    <3>2. CASE i \notin DOMAIN phases
      BY <2>1, <3>2 DEF RunPhase
    <3>3. QED BY <3>1, <3>2
  <2>2. CASE \E s \in Opened : phases' = SetStatus(i, s)
    <3>1. PICK s \in Opened : phases' = SetStatus(i, s) BY <2>2
    <3>2. j \in DOMAIN phases BY <3>1 DEF SetStatus, Update
    <3>3. phases'[j].status = IF j = i THEN s ELSE phases[j].status
      <4>1. SetStatus(i, s)[j].status = IF j = i THEN s ELSE phases[j].status
        BY <1>0, <3>2, StatusSet
      <4>2. QED BY <3>1, <4>1
    <3>4. QED BY <1>3, <3>2, <3>3
  <2>3. CASE /\ i \in DOMAIN phases
             /\ phases' = Update(i, [phases[i] EXCEPT !.status = "completed", !.total = 0])
    <3> DEFINE row == [phases[i] EXCEPT !.status = "completed", !.total = 0]
    <3>1. phases[i] \in PhaseRow BY <1>0, <2>3
    <3>2. row.status = "completed" BY <3>1 DEF PhaseRow
    <3> HIDE DEF row
    <3>3. j \in DOMAIN phases BY <2>3 DEF Update
    <3>4. phases'[j] = IF j = i THEN row ELSE phases[j]
      <4>1. Update(i, row)[j] = IF j = i THEN row ELSE phases[j]
        BY <3>3, UpdateAt
      <4>2. QED BY <2>3, <4>1 DEF row
    <3>5. QED BY <3>2, <3>3, <3>4
  <2>4. CASE phases' = phases BY <1>1, <2>4
  <2>5. CASE ActivatePerDev(g)
    BY <2>2, <2>3, <2>4, <2>5 DEF ActivatePerDev, Opened
  <2>6. CASE ActivatePlain(g) \/ AdvanceEnter(g) \/ ApproveGate(g)
    BY <2>2, <2>4, <2>6 DEF ActivatePlain, AdvanceEnter, ApproveGate, Opened
  <2>7. QED BY <1>3, <2>1, <2>5, <2>6 DEF Opens
<1>4. ASSUME NEW g \in Calls, GateFail(g) PROVE Goal
  <2>1. CASE phases' = phases BY <1>1, <2>1
  <2>2. CASE phases' # phases
    <3>1. PICK target : phases' = SetStatus(target, "active") /\ GotoPhase(g, "requeue", target)
      BY <1>4, <2>2 DEF GateFail
    <3>2. j \in DOMAIN phases BY <3>1 DEF SetStatus, Update
    <3>3. phases'[j].status = IF j = target THEN "active" ELSE phases[j].status
      <4>1. SetStatus(target, "active")[j].status = IF j = target THEN "active" ELSE phases[j].status
        BY <1>0, <3>2, StatusSet
      <4>2. QED BY <3>1, <4>1
    <3>4. call'[g].pc = "requeue" /\ call'[g].i = target
      BY <3>1 DEF GotoPhase, FlowInv, CallsOK, Request
    <3>5. QED BY <3>2, <3>3, <3>4
  <2>3. QED BY <2>1, <2>2
<1>5. ASSUME Reject PROVE Goal
  <2>1. j \in DOMAIN phases BY <1>5 DEF Reject
  <2>2. [phases[j] EXCEPT !.status = "cancelled"].status = "cancelled"
    BY <1>0, <2>1 DEF PhaseRow
  <2>3. QED BY <1>5, <2>1, <2>2 DEF Reject
<1>6. ASSUME DeleteWorkflow PROVE Goal
  BY <1>6 DEF DeleteWorkflow
<1>7. ASSUME NEW t \in DOMAIN tasks,
             Progress(t) \/ SendBack(t) \/ Deploy(t) \/ \E a \in Agents : Claim(a, t)
      PROVE  Goal
  BY <1>1, <1>7 DEF Progress, SendBack, Deploy, Claim, Finish
<1>8. ASSUME Restart \/ UNCHANGED vars PROVE Goal
  BY <1>1, <1>8 DEF Restart, vars
<1>9. ASSUME NEW g \in Calls,
             \/ ActivateTask(g) \/ MapTask(g) \/ AdvanceRead(g) \/ ReadTotal(g)
             \/ ReadCompleted(g) \/ QueueRead(g) \/ QueueTask(g) \/ QueueMap(g) \/ Requeue(g)
             \/ DevTask(g) \/ DevDep(g) \/ DevMap(g) \/ ReviewPass(g)
             \/ TestTaskNew(g) \/ TestTaskMap(g) \/ ApproveRead(g) \/ ApproveResume(g)
             \/ \E t \in DOMAIN tasks :
                  \/ ReviewRead(g, t)
                  \/ \E a \in Agents, v \in {"done", "pass", "fail"} : CompleteRead(g, a, t, v)
      PROVE  Goal
  <2>1. phases' = phases
    BY <1>9
    DEF ActivateTask, MapTask, AdvanceRead, ReadTotal, ReadCompleted, QueueRead, QueueTask, QueueMap,
        DevTask, DevDep, DevMap, Requeue,
        ReviewPass, TestTaskNew, TestTaskMap, ApproveRead, ApproveResume, ReviewRead, CompleteRead
  <2>2. QED BY <1>1, <2>1
<1>10. ASSUME NEW g \in Calls,
              \/ ActivateDecision(g) \/ AdvanceLeave(g) \/ AdvanceNext(g) \/ CompleteUpdate(g)
              \/ Count(g) \/ ClosePhase(g) \/ QueueTotal(g) \/ GatePass(g) \/ TestTaskTotal(g)
       PROVE  Goal
  <2>1. CASE ActivateDecision(g) \/ AdvanceLeave(g) \/ AdvanceNext(g) \/ ClosePhase(g) \/ GatePass(g)
    BY <1>1, <1>2, <2>1 DEF ActivateDecision, AdvanceLeave, AdvanceNext, ClosePhase, GatePass
  <2>2. CASE CompleteUpdate(g) \/ Count(g)
    BY <1>1, <2>2 DEF CompleteUpdate, Count, Finish
  <2>3. CASE QueueTotal(g) \/ TestTaskTotal(g)
    <3>1. \E n : phases' = Plan(call[g].i, n)
      BY <2>3 DEF QueueTotal, TestTaskTotal
    <3>2. QED BY <1>1, <3>1
  <2>4. QED BY <1>10, <2>1, <2>2, <2>3
<1>11. \A g \in Calls : ~StartWorkflow(g)
  BY DEF StartWorkflow
<1>12. QED
  <2> SUFFICES Goal OBVIOUS
  <2> HIDE DEF Goal
  <2>1. ASSUME NEW g \in Calls,
               \/ StartWorkflow(g) \/ Activate(g) \/ MapTask(g) \/ RunPhase(g) \/ Advance(g)
               \/ CompleteUpdate(g) \/ Count(g) \/ ReadTotal(g) \/ ReadCompleted(g) \/ ClosePhase(g)
               \/ QueueRead(g) \/ QueueTask(g) \/ QueueMap(g) \/ QueueTotal(g)
               \/ GatePass(g) \/ GateFail(g) \/ Requeue(g)
               \/ ReviewPass(g) \/ TestTaskNew(g) \/ TestTaskMap(g) \/ TestTaskTotal(g)
               \/ ApproveRead(g) \/ ApproveGate(g) \/ ApproveResume(g)
        PROVE  Goal
    BY <2>1, <1>3, <1>4, <1>9, <1>10, <1>11 DEF Activate, Advance, Opens
  <2>2. ASSUME NEW g \in Calls, NEW t \in DOMAIN tasks,
               \/ ReviewRead(g, t)
               \/ \E a \in Agents, v \in {"done", "pass", "fail"} : CompleteRead(g, a, t, v)
        PROVE  Goal
    BY <2>2, <1>9
  <2>3. CASE \E t \in DOMAIN tasks : \/ Progress(t) \/ SendBack(t) \/ Deploy(t)
                                      \/ \E a \in Agents : Claim(a, t)
    <3>1. PICK t \in DOMAIN tasks : \/ Progress(t) \/ SendBack(t) \/ Deploy(t)
                                    \/ \E a \in Agents : Claim(a, t)
      BY <2>3
    <3>2. QED BY <3>1, <1>7
  <2>4. CASE Next
    BY <2>4, <1>5, <1>6, <1>8, <2>1, <2>2, <2>3 DEF Next
  <2>5. QED BY <1>8, <2>4

LEMMA CallAfter ==
  ASSUME FlowInv, NEW g \in Calls, NEW h \in Calls, NEW p, NEW i
  PROVE  /\ Return(h) => call'[g] = call[g] \/ call'[g] = Idle
         /\ Goto(h, p) => \/ call'[g] = call[g]
                          \/ g = h /\ call'[g].pc = p /\ call'[g].i = call[g].i
         /\ GotoPhase(h, p, i) => \/ call'[g] = call[g]
                                  \/ g = h /\ call'[g].pc = p /\ call'[g].i = i
<1>1. call \in [Calls -> Request] /\ call[g] \in Request
  BY DEF FlowInv, CallsOK
<1>2. [call[g] EXCEPT !.pc = p].pc = p /\ [call[g] EXCEPT !.pc = p].i = call[g].i
  BY <1>1 DEF Request
<1>3. [call[g] EXCEPT !.pc = p, !.i = i].pc = p /\ [call[g] EXCEPT !.pc = p, !.i = i].i = i
  BY <1>1 DEF Request
<1>4. Return(h) => call'[g] = call[g] \/ call'[g] = Idle
  BY <1>1 DEF Return
<1>5. Goto(h, p) => call'[g] = IF g = h THEN [call[g] EXCEPT !.pc = p] ELSE call[g]
  BY <1>1 DEF Goto
<1>6. GotoPhase(h, p, i) =>
        call'[g] = IF g = h THEN [call[g] EXCEPT !.pc = p, !.i = i] ELSE call[g]
  BY <1>1 DEF GotoPhase
<1>7. QED BY <1>2, <1>3, <1>4, <1>5, <1>6

(* How a handler comes to open a phase: it goes on with the phase it had, or  *)
(* takes the first pending phase, or a gate that waits.                       *)
LEMMA CallSteps ==
  ASSUME FlowInv, [Next]_vars, workflow # "none", NEW g \in Calls
  PROVE  \/ call'[g] = call[g]
         \/ call'[g].pc \notin Opening \cup {"enter"}
         \/ call[g].pc \in Opening /\ call'[g].pc \in Opening /\ call'[g].i = call[g].i
         \/ AdvanceEnter(g) /\ call'[g].pc = "activate" /\ call'[g].i = call[g].i
            /\ phases' = SetStatus(call[g].i, "active")
         \/ AdvanceNext(g) /\ call'[g].pc = "enter" /\ WithStatus("pending") # {}
            /\ call'[g].i = Least(WithStatus("pending"))
         \/ phases' = phases /\ call'[g].pc = "approve"
            /\ call'[g].i \in WithStatus("waiting_approval")
<1> DEFINE Goal ==
      \/ call'[g] = call[g]
      \/ call'[g].pc \notin Opening \cup {"enter"}
      \/ call[g].pc \in Opening /\ call'[g].pc \in Opening /\ call'[g].i = call[g].i
      \/ AdvanceEnter(g) /\ call'[g].pc = "activate" /\ call'[g].i = call[g].i
         /\ phases' = SetStatus(call[g].i, "active")
      \/ AdvanceNext(g) /\ call'[g].pc = "enter" /\ WithStatus("pending") # {}
         /\ call'[g].i = Least(WithStatus("pending"))
      \/ phases' = phases /\ call'[g].pc = "approve"
         /\ call'[g].i \in WithStatus("waiting_approval")
<1> SUFFICES Goal OBVIOUS
<1>0. call \in [Calls -> Request] /\ call[g] \in Request
  BY DEF FlowInv, CallsOK
<1>1. ASSUME NEW h \in Calls, Return(h) PROVE Goal
  <2>1. call'[g] = call[g] \/ call'[g] = Idle BY <1>1, CallAfter
  <2>2. QED BY <2>1, IdleOK DEF Opening
<1>2. ASSUME NEW h \in Calls, NEW p \in {"idle", "advance"} \cup OnTask \cup OnPhase, Goto(h, p),
             p \notin Opening \cup {"enter"}
      PROVE  Goal
  <2>1. call'[g] = call[g] \/ call'[g].pc = p BY <1>2, CallAfter
  <2>2. QED BY <1>2, <2>1
<1>3. ASSUME NEW h \in Calls, NEW p \in {"idle", "advance"} \cup OnTask \cup OnPhase, NEW i,
             GotoPhase(h, p, i), p \notin Opening \cup {"enter"}
      PROVE  Goal
  <2>1. call'[g] = call[g] \/ call'[g].pc = p BY <1>3, CallAfter
  <2>2. QED BY <1>3, <2>1
<1>4. ASSUME NEW h \in Calls, NEW r \in Request, call' = [call EXCEPT ![h] = r],
             \/ r.pc \notin Opening \cup {"enter"}
             \/ call[h].pc \in Opening /\ r.pc \in Opening /\ r.i = call[h].i
             \/ phases' = phases /\ r.pc = "approve" /\ r.i \in WithStatus("waiting_approval")
      PROVE  Goal
  <2>1. CASE g = h
    <3>1. call'[g] = r BY <1>0, <1>4, <2>1
    <3>2. QED BY <1>4, <2>1, <3>1
  <2>2. CASE g # h
    BY <1>0, <1>4, <2>2
  <2>3. QED BY <2>1, <2>2
<1>5. ASSUME NEW h \in Calls, AdvanceEnter(h) PROVE Goal
  <2>1. CASE Return(h) BY <1>1, <2>1
  <2>2. CASE Goto(h, "activate") /\ phases' = SetStatus(call[h].i, "active")
    <3>1. \/ call'[g] = call[g]
          \/ g = h /\ call'[g].pc = "activate" /\ call'[g].i = call[g].i
      BY <2>2, CallAfter
    <3>2. QED BY <1>5, <2>2, <3>1
  <2>3. QED BY <1>5, <2>1, <2>2 DEF AdvanceEnter
<1>6. ASSUME NEW h \in Calls, AdvanceNext(h) PROVE Goal
  <2>1. CASE Return(h) BY <1>1, <2>1
  <2>2. CASE GotoPhase(h, "enter", Least(WithStatus("pending"))) /\ WithStatus("pending") # {}
    <3>1. \/ call'[g] = call[g]
          \/ g = h /\ call'[g].pc = "enter" /\ call'[g].i = Least(WithStatus("pending"))
      BY <2>2, CallAfter
    <3>2. QED BY <1>6, <2>2, <3>1
  <2>3. QED BY <1>6, <2>1, <2>2 DEF AdvanceNext
<1>7. ASSUME NEW h \in Calls, ApproveRead(h) PROVE Goal
  <2>1. PICK i \in WithStatus("waiting_approval") :
          call' = [call EXCEPT ![h] = [Idle EXCEPT !.pc = "approve", !.i = i]]
    BY <1>7 DEF ApproveRead
  <2> DEFINE r == [Idle EXCEPT !.pc = "approve", !.i = i]
  <2>2. i \in 0..Len(Template)
    BY <2>1, Domains DEF WithStatus, FlowInv, PhasesOK
  <2>3. r \in Request /\ r.pc = "approve" /\ r.i = i
    BY <2>2 DEF Idle, Request, OnPhase
  <2> HIDE DEF r
  <2>4. call' = [call EXCEPT ![h] = r] BY <2>1 DEF r
  <2>5. phases' = phases BY <1>7 DEF ApproveRead
  <2>6. QED BY <1>4, <2>1, <2>3, <2>4, <2>5
<1>8. ASSUME NEW h \in Calls, ActivateTask(h) \/ MapTask(h) PROVE Goal
  <2>1. ASSUME NEW p \in {"map", "run"}, NEW t \in Nat, NEW n \in Nat,
               call' = [call EXCEPT ![h] = [call[h] EXCEPT !.pc = p, !.t = t, !.n = n]],
               call[h].pc \in Opening
        PROVE  Goal
    <3> DEFINE r == [call[h] EXCEPT !.pc = p, !.t = t, !.n = n]
    <3>1. r \in Request /\ r.pc = p /\ r.i = call[h].i
      BY <1>0 DEF Request, OnPhase
    <3> HIDE DEF r
    <3>2. call' = [call EXCEPT ![h] = r] BY <2>1 DEF r
    <3>3. r.pc \in Opening BY <3>1 DEF Opening
    <3>4. QED BY <1>4, <2>1, <3>1, <3>2, <3>3
  <2>2. call[h] \in Request BY <1>0
  <2>3. CASE ActivateTask(h)
    <3>1. call' = [call EXCEPT ![h] = [call[h] EXCEPT !.pc = "map", !.t = Len(tasks) + 1,
                                                     !.n = call[h].n]]
      BY <1>0, <2>2, <2>3 DEF ActivateTask, Request
    <3>2. Len(tasks) + 1 \in Nat BY Domains DEF FlowInv
    <3>3. call[h].pc \in Opening BY <2>3 DEF ActivateTask, At, Opening
    <3>4. QED BY <2>1, <2>2, <3>1, <3>2, <3>3 DEF Request
  <2>4. CASE MapTask(h)
    <3>1. CASE Return(h) BY <1>1, <3>1
    <3>2. CASE call' = [call EXCEPT ![h].pc = "run", ![h].n = 1]
      <4>1. call' = [call EXCEPT ![h] = [call[h] EXCEPT !.pc = "run", !.t = call[h].t, !.n = 1]]
        BY <1>0, <2>2, <3>2 DEF Request
      <4>2. call[h].pc \in Opening BY <2>4 DEF MapTask, At, Opening
      <4>3. QED BY <2>1, <2>2, <4>1, <4>2 DEF Request
    <3>3. QED BY <2>4, <3>1, <3>2 DEF MapTask
  <2>5. QED BY <1>8, <2>3, <2>4
<1>9. ASSUME NEW h \in Calls,
             RunPhase(h) \/ ActivatePlain(h) \/ ReadCompleted(h) \/ TestTaskTotal(h) \/ AdvanceRead(h)
             \/ Count(h) \/ GatePass(h) \/ GateFail(h) \/ TestTaskMap(h)
      PROVE  Goal
  <2> DEFINE P == {"close", "leave", "totals", "advance", "requeue", "test.total"}
  <2>1. ASSUME NEW p \in P
        PROVE  p \in OnPhase \cup {"advance"} /\ p \notin Opening \cup {"enter"}
    BY DEF OnPhase, Opening
  <2>2. \/ Return(h)
        \/ \E p \in P : Goto(h, p)
        \/ \E p \in P : \E i : GotoPhase(h, p, i)
    BY <1>9 DEF RunPhase, ActivatePlain, ReadCompleted, TestTaskTotal, AdvanceRead, Count, GatePass,
                GateFail, TestTaskMap
  <2> HIDE DEF P
  <2>3. QED BY <1>1, <1>2, <1>3, <2>1, <2>2
<1>10. ASSUME NEW h \in Calls,
              ActivateDecision(h) \/ AdvanceLeave(h) \/ ClosePhase(h) \/ QueueTotal(h)
              \/ CompleteUpdate(h) \/ Requeue(h) \/ ReviewPass(h) \/ ApproveGate(h) \/ ApproveResume(h)
       PROVE  Goal
  <2> DEFINE P == {"advance", "next", "queue", "count", "passed", "failed", "test.task", "resume"}
  <2>1. ASSUME NEW p \in P
        PROVE  p \in OnPhase \cup OnTask \cup {"advance"} /\ p \notin Opening \cup {"enter"}
    BY DEF OnPhase, OnTask, Opening
  <2>2. CASE CompleteUpdate(h)
    <3>1. PICK v \in DOMAIN Completing : Goto(h, Calling[v])
      BY <2>2 DEF CompleteUpdate
    <3>2. Calling[v] \in P
      BY DEF Completing, Calling
    <3>3. QED BY <1>2, <2>1, <3>1, <3>2
  <2>3. CASE ~CompleteUpdate(h)
    <3>1. \E p \in P : Goto(h, p)
      BY <1>10, <2>3 DEF ActivateDecision, AdvanceLeave, ClosePhase, QueueTotal, Requeue,
                         ReviewPass, ApproveGate, ApproveResume
    <3> HIDE DEF P
    <3>2. QED BY <1>2, <2>1, <3>1
  <2>4. QED BY <2>2, <2>3
<1>11. ASSUME NEW h \in Calls,
              \/ ReadTotal(h) \/ QueueRead(h) \/ QueueTask(h) \/ QueueMap(h) \/ TestTaskNew(h)
       PROVE  Goal
  <2>1. call'[g] = call[g] \/ call'[g] = Idle
        \/ call'[g].pc \in {"counted", "queue.task", "queue.map", "advance", "test.map"}
    <3>1. CASE ReadTotal(h) \/ QueueRead(h) \/ QueueMap(h) \/ TestTaskNew(h)
      BY <1>0, <3>1 DEF ReadTotal, QueueRead, QueueMap, TestTaskNew, Return, Goto, Request
    <3>2. CASE QueueTask(h)
      <4>1. call[h].pc = "queue.task" BY <3>2 DEF QueueTask, At
      <4>2. \E d : \/ call' = [call EXCEPT ![h].pc = "queue.map", ![h].t = Len(tasks) + 1,
                                          ![h].left = @ \ {d}]
                  \/ call' = [call EXCEPT ![h].left = @ \ {d}]
        BY <3>2 DEF QueueTask
      <4>3. QED BY <1>0, <4>1, <4>2 DEF Request
    <3>3. QED BY <1>11, <3>1, <3>2
  <2>2. QED BY <2>1, IdleOK DEF Opening
<1>12. ASSUME NEW h \in Calls, NEW t \in DOMAIN tasks,
              \/ ReviewRead(h, t)
              \/ \E a \in Agents, v \in {"done", "pass", "fail"} : CompleteRead(h, a, t, v)
       PROVE  Goal
  <2>1. CASE ReviewRead(h, t)
    <3>1. call'[g] = call[g] \/ call'[g].pc = "review"
      BY <1>0, <2>1 DEF ReviewRead, Idle
    <3>2. QED BY <3>1 DEF Opening
  <2>2. ASSUME NEW a \in Agents, NEW v \in {"done", "pass", "fail"}, CompleteRead(h, a, t, v)
        PROVE  Goal
    <3>1. call'[g] = call[g] \/ call'[g].pc = Completing[v]
      BY <1>0, <2>2 DEF CompleteRead, Idle
    <3>2. Completing[v] \notin Opening \cup {"enter"}
      BY DEF Completing, Opening
    <3>3. QED BY <3>1, <3>2
  <2>3. QED BY <1>12, <2>1, <2>2
<1>13. ASSUME NEW t \in DOMAIN tasks,
              Progress(t) \/ SendBack(t) \/ Deploy(t) \/ \E a \in Agents : Claim(a, t)
       PROVE  Goal
  BY <1>13 DEF Progress, SendBack, Deploy, Claim
<1>14. ASSUME Reject \/ DeleteWorkflow \/ UNCHANGED vars PROVE Goal
  BY <1>14 DEF Reject, DeleteWorkflow, vars
<1>15. ASSUME Restart PROVE Goal
  BY <1>15, IdleOK DEF Restart, Opening
<1>16. \A h \in Calls : ~StartWorkflow(h)
  BY DEF StartWorkflow
<1>17. ASSUME NEW h \in Calls, ActivatePerDev(h) \/ DevTask(h) \/ DevDep(h) \/ DevMap(h)
       PROVE  Goal
  <2>1. call[h].pc \in Opening
    BY <1>17 DEF ActivatePerDev, DevTask, DevDep, DevMap, At, Opening
  <2>2. CASE Return(h) BY <1>1, <2>2
  <2>3. CASE ~Return(h)
    <3>1. \/ call'[g] = call[g]
          \/ g = h /\ call'[g].pc \in {"dev.task", "dev.dep", "dev.map", "run"}
             /\ call'[g].i = call[g].i
      <4>1. CASE ActivatePerDev(h)
        <5>1. \E n, S : call' = [call EXCEPT ![h].pc = "dev.task", ![h].n = n, ![h].left = S]
          BY <2>3, <4>1 DEF ActivatePerDev
        <5>2. QED BY <1>0, <5>1 DEF Request
      <4>2. CASE DevTask(h)
        BY <1>0, <4>2 DEF DevTask, Request
      <4>3. CASE DevDep(h)
        <5>1. \E d : call' = [call EXCEPT ![h].pc = "dev.map", ![h].left = @ \ {d}]
          BY <4>3 DEF DevDep
        <5>2. QED BY <1>0, <5>1 DEF Request
      <4>4. CASE DevMap(h)
        <5>1. \E p \in {"dev.task", "run"} : Goto(h, p) BY <2>3, <4>4 DEF DevMap
        <5>2. QED BY <5>1, CallAfter
      <4>5. QED BY <1>17, <4>1, <4>2, <4>3, <4>4
    <3>2. {"dev.task", "dev.dep", "dev.map", "run"} \subseteq Opening BY DEF Opening
    <3>3. QED BY <2>1, <3>1, <3>2
  <2>4. QED BY <2>2, <2>3
<1>18. QED
  <2> HIDE DEF Goal
  <2>1. ASSUME NEW h \in Calls,
               \/ StartWorkflow(h) \/ Activate(h) \/ MapTask(h) \/ RunPhase(h) \/ Advance(h)
               \/ CompleteUpdate(h) \/ Count(h) \/ ReadTotal(h) \/ ReadCompleted(h) \/ ClosePhase(h)
               \/ QueueRead(h) \/ QueueTask(h) \/ QueueMap(h) \/ QueueTotal(h)
               \/ GatePass(h) \/ GateFail(h) \/ Requeue(h)
               \/ ReviewPass(h) \/ TestTaskNew(h) \/ TestTaskMap(h) \/ TestTaskTotal(h)
               \/ ApproveRead(h) \/ ApproveGate(h) \/ ApproveResume(h)
        PROVE  Goal
    BY <2>1, <1>5, <1>6, <1>7, <1>8, <1>9, <1>10, <1>11, <1>16, <1>17 DEF Activate, Advance
  <2>2. CASE \E t \in DOMAIN tasks : \/ Progress(t) \/ SendBack(t) \/ Deploy(t)
                                      \/ \E a \in Agents : Claim(a, t)
    BY <2>2, <1>13
  <2>3. CASE Next
    BY <2>1, <2>2, <2>3, <1>12, <1>14, <1>15 DEF Next
  <2>4. QED BY <1>14, <2>3

(* Before the workflow starts, nothing else can happen. *)
LEMMA FreshStep ==
  ASSUME FlowInv, workflow = "none", Next
  PROVE  \E g \in Calls : StartWorkflow(g)
<1>1. \A g \in Calls, p \in {"advance"} \cup OnTask \cup OnPhase : ~At(g, p)
  <2>1. \A g \in Calls : call[g].pc = "idle"
    BY Started
  <2>2. "idle" \notin {"advance"} \cup OnTask \cup OnPhase
    BY DEF OnTask, OnPhase
  <2>3. QED BY <2>1, <2>2 DEF At
<1>2. phases = <<>> /\ DOMAIN tasks = {} /\ \A g \in Calls : Free(g)
  BY EmptySeq DEF FlowInv, FreshOK
<1>3. ASSUME NEW g \in Calls
      PROVE  /\ ~ActivateTask(g) /\ ~ActivatePerDev(g) /\ ~ActivateDecision(g) /\ ~ActivatePlain(g)
             /\ ~DevTask(g) /\ ~DevDep(g) /\ ~DevMap(g)
             /\ ~MapTask(g) /\ ~RunPhase(g) /\ ~AdvanceRead(g) /\ ~AdvanceLeave(g)
             /\ ~AdvanceNext(g) /\ ~AdvanceEnter(g)
  BY <1>1 DEF ActivateTask, ActivatePerDev, ActivateDecision, ActivatePlain, DevTask, DevDep, DevMap,
              MapTask, RunPhase,
              AdvanceRead, AdvanceLeave, AdvanceNext, AdvanceEnter, OnPhase, OnTask
<1>4. ASSUME NEW g \in Calls
      PROVE  /\ ~Count(g) /\ ~ReadTotal(g) /\ ~ReadCompleted(g)
             /\ ~ClosePhase(g) /\ ~QueueRead(g) /\ ~QueueTask(g) /\ ~QueueMap(g) /\ ~QueueTotal(g)
             /\ ~GatePass(g) /\ ~GateFail(g) /\ ~Requeue(g)
  BY <1>1 DEF Count, ReadTotal, ReadCompleted, ClosePhase, QueueRead, QueueTask, QueueMap, QueueTotal,
              GatePass, Requeue, GateFail, OnPhase, OnTask
<1>5. ASSUME NEW g \in Calls
      PROVE  /\ ~ReviewPass(g) /\ ~TestTaskNew(g) /\ ~TestTaskMap(g) /\ ~TestTaskTotal(g)
             /\ ~ApproveRead(g) /\ ~ApproveGate(g) /\ ~ApproveResume(g)
  BY <1>1, <1>2, EmptySeq
  DEF ReviewPass, TestTaskNew, TestTaskMap, TestTaskTotal, ApproveRead, WithStatus,
      ApproveGate, ApproveResume, OnPhase, OnTask
<1>6. ASSUME NEW g \in Calls PROVE ~CompleteUpdate(g)
  <2>1. \A v \in DOMAIN Completing : Completing[v] \in OnTask
    BY DEF Completing, OnTask
  <2>2. QED BY <1>1, <2>1 DEF CompleteUpdate
<1>7. ~Reject /\ ~DeleteWorkflow /\ ~Restart
  BY <1>2 DEF Reject, DeleteWorkflow, Restart
<1>8. QED
  BY <1>2, <1>3, <1>4, <1>5, <1>6, <1>7 DEF Next, Activate, Advance

(* Once a phase is not pending it never is again: phases are only ever made   *)
(* pending when the workflow starts.                                          *)
LEMMA PendingShrinks ==
  ASSUME FlowInv, [Next]_vars, workflow # "none", NEW j \in DOMAIN phases',
         phases'[j].status = "pending"
  PROVE  j \in DOMAIN phases /\ phases[j].status = "pending"
BY StatusChanges DEF Opened

LEMMA StepOrder == FlowInv /\ OrderInv /\ [Next]_vars => OrderInv'
<1> SUFFICES ASSUME FlowInv, OrderInv, [Next]_vars, NEW g \in Calls,
                    call'[g].i \in DOMAIN phases'
             PROVE  /\ call'[g].pc \in Opening => phases'[call'[g].i].status # "pending"
                    /\ call'[g].pc = "enter" =>
                         \A j \in 1..call'[g].i - 1 : phases'[j].status # "pending"
  BY DEF OrderInv
<1> DEFINE i == call'[g].i
<1>0. call \in [Calls -> Request] /\ phases \in [DOMAIN phases -> PhaseRow]
  BY DEF FlowInv, CallsOK, PhasesOK
<1>1. CASE workflow = "none"
  <2>1. phases = <<>> /\ \A h \in Calls : Free(h)
    BY <1>1 DEF FlowInv, FreshOK
  <2>2. CASE UNCHANGED vars
    BY <2>1, <2>2, EmptySeq DEF vars
  <2>3. CASE Next
    <3>1. PICK h \in Calls : StartWorkflow(h)
      BY <1>1, <2>3, FreshStep
    <3>2. call'[g] = IF g = h THEN [Idle EXCEPT !.pc = "activate", !.i = 1] ELSE Idle
      BY <1>0, <2>1, <3>1 DEF StartWorkflow, Free
    <3>3. phases'[1].status = "active"
      BY <3>1, Domains DEF StartWorkflow
    <3>4. CASE g = h
      BY <3>2, <3>3, <3>4 DEF Idle
    <3>5. CASE g # h
      BY <3>2, <3>5, IdleOK DEF Opening
    <3>6. QED BY <3>4, <3>5
  <2>4. QED BY <2>2, <2>3
<1>2. CASE workflow # "none"
  <2>1. i \in DOMAIN phases
    BY <1>2, StatusChanges
  <2>2. DOMAIN phases = 1..Len(Template) /\ DOMAIN phases' = 1..Len(Template)
        /\ Len(Template) \in Nat
    <3>1. FlowInv' BY StepFlow
    <3>2. QED BY <2>1, <3>1, Domains DEF FlowInv, PhasesOK
  <2>3. \A j \in DOMAIN phases : phases[j].status # "pending" => phases'[j].status # "pending"
    BY <1>2, <2>2, PendingShrinks
  <2>4. \A j \in 1..i - 1 : j \in DOMAIN phases
    BY <2>1, <2>2
  <2>5. CASE call'[g] = call[g]
    BY <2>1, <2>3, <2>4, <2>5 DEF OrderInv
  <2>6. CASE call'[g].pc \notin Opening \cup {"enter"}
    BY <2>6
  <2>7. CASE call[g].pc \in Opening /\ call'[g].pc \in Opening /\ call'[g].i = call[g].i
    BY <2>1, <2>3, <2>7 DEF OrderInv, Opening
  <2>8. CASE call'[g].pc = "activate" /\ call'[g].i = call[g].i
             /\ phases' = SetStatus(call[g].i, "active")
    <3>1. SetStatus(call[g].i, "active")[i].status = "active"
      BY <2>1, <2>8, StatusSet DEF FlowInv
    <3>2. QED BY <2>8, <3>1
  <2>9. CASE call'[g].pc = "enter" /\ WithStatus("pending") # {}
             /\ call'[g].i = Least(WithStatus("pending"))
    <3>1. WithStatus("pending") \in SUBSET Nat
      BY <2>2 DEF WithStatus
    <3>2. \A j \in WithStatus("pending") : i <= j
      BY <2>9, <3>1, LeastIn
    <3>3. ASSUME NEW j \in 1..i - 1 PROVE phases'[j].status # "pending"
      <4>1. j \in DOMAIN phases /\ i \in Nat /\ j \in Nat /\ ~(i <= j)
        BY <2>1, <2>2, <2>4
      <4>2. phases[j].status # "pending" BY <3>2, <4>1 DEF WithStatus
      <4>3. QED BY <2>3, <4>1, <4>2
    <3>4. QED BY <2>9, <3>3 DEF Opening
  <2>10. CASE phases' = phases /\ call'[g].pc = "approve"
              /\ call'[g].i \in WithStatus("waiting_approval")
    BY <2>10 DEF WithStatus
  <2>11. QED BY <1>2, <2>5, <2>6, <2>7, <2>8, <2>9, <2>10, CallSteps
<1>3. QED BY <1>1, <1>2

LEMMA OrderInvariance == Spec => [](FlowInv /\ OrderInv)
BY InitFlow, StepFlow, StepOrder, PTL DEF Spec

(* Opened in order: whatever calls interleave, and whether the engine's reads *)
(* succeed or not, activatePhase, advanceWorkflow and ApproveGate open a      *)
(* pending phase only when no earlier one is pending; only CheckGateDecision  *)
(* of a failed gate reaches for another.                                      *)
THEOREM PhasesOpenInOrder == Spec => OpenedInOrder
<1> DEFINE InOrder ==
      \A i \in DOMAIN phases' \cap WithStatus("pending") :
        phases'[i].status \in Opened =>
          \/ \A j \in 1..i - 1 : j \notin WithStatus("pending")
          \/ \E g \in Calls : call'[g].pc = "requeue" /\ call'[g].i = i
<1>1. FlowInv /\ OrderInv /\ [Next]_vars => InOrder
  <2> SUFFICES ASSUME FlowInv, OrderInv, [Next]_vars,
                      NEW i \in DOMAIN phases' \cap WithStatus("pending"),
                      phases'[i].status \in Opened
               PROVE  \/ \A j \in 1..i - 1 : j \notin WithStatus("pending")
                      \/ \E g \in Calls : call'[g].pc = "requeue" /\ call'[g].i = i
    OBVIOUS
  <2>1. i \in DOMAIN phases /\ phases[i].status = "pending" /\ workflow # "none"
    BY Started DEF WithStatus
  <2>2. CASE \E g \in Calls : Opens(g) /\ call[g].i = i
    <3>1. PICK g \in Calls : Opens(g) /\ call[g].i = i BY <2>2
    <3>2. call[g].pc \in Opening \cup {"enter"}
      BY <3>1 DEF Opens, RunPhase, ActivatePerDev, ActivatePlain, AdvanceEnter, ApproveGate,
                  Opening, At
    <3>3. call[g].pc = "enter"
      BY <2>1, <3>1, <3>2 DEF OrderInv
    <3>4. QED BY <2>1, <3>1, <3>3 DEF OrderInv, WithStatus
  <2>3. CASE \E g \in Calls : call'[g].pc = "requeue" /\ call'[g].i = i
    BY <2>3
  <2>4. QED BY <2>1, <2>2, <2>3, StatusChanges DEF Opened
<1>2. FlowInv /\ OrderInv /\ [Next]_vars => [InOrder]_vars
  BY <1>1
<1>3. QED BY <1>2, OrderInvariance, PTL DEF Spec, OpenedInOrder
=============================================================================
