------------------------- MODULE WorkflowPlanProofs -------------------------
(***************************************************************************)
(* Proof that the phases of a workflow plan for the tasks that are mapped  *)
(* to them, for any number of handlers whose statements interleave, as     *)
(* long as no restart cuts a handler off between the row it has mapped and *)
(* the number it has not written yet.                                      *)
(*                                                                         *)
(* The argument: a phase lacks exactly the tasks of the handlers that have *)
(* mapped one and still have to plan for it.  That one of them writes the  *)
(* number (RunPhase) where the others add to it (TestTaskTotal) is safe    *)
(* only because the write is for the first phase and an addition never is. *)
(***************************************************************************)
EXTENDS WorkflowEngineProofs

-----------------------------------------------------------------------------
(* The invariant *)

Starting == {"activate", "map", "run"}
Mapping  == {"map", "test.map"}
Owing    == {"run", "test.total"}

\* Statements behind a read of phases, or behind an approval, which fails; and the
\* loop of a "per_dev" phase, as only the first phase is ever activated.
Unreached == {"leave", "next", "enter", "approve", "resume", "queue.task", "queue.map",
              "dev.task", "dev.dep", "dev.map"}

\* The handlers that have mapped a task to the phase and still have to plan for it.
Planning(i) == {g \in Calls : call[g].pc \in Owing /\ call[g].i = i}

\* One handler starts the workflow, and until it is done nobody else writes to the
\* plan of the first phase.
StartingOK ==
  \A g \in Calls : call[g].pc \in Starting =>
    /\ call[g].i = 1 /\ (1 \in DOMAIN phases => phases[1].total = 0)
    /\ call[g].pc = "run" => call[g].n = 1
    /\ \A h \in Calls : call[h].pc \in Starting => h = g

ReachedOK ==
  \A g \in Calls : /\ call[g].pc \notin Unreached
                   /\ call[g].pc \in {"test.map", "test.total"} => call[g].i > 1

\* A task that is about to be mapped is mapped nowhere, and by nobody else.
MappingOK ==
  \A g \in Calls : call[g].pc \in Mapping =>
    /\ tasks[call[g].t].phase = 0
    /\ \A h \in Calls : call[h].pc \in Mapping /\ call[h].t = call[g].t => h = g

\* A restart loses the handlers that owe a phase its number.
TotalsOK ==
  "restart" \notin Operations =>
    \A i \in DOMAIN phases :
      /\ IsFiniteSet(Planning(i))
      /\ phases[i].total + Cardinality(Planning(i)) = Cardinality(Mapped(i))

PlanInv == StartingOK /\ ReachedOK /\ MappingOK /\ TotalsOK

-----------------------------------------------------------------------------
(* Statements that leave the plan alone *)

\* No total changes, and no task that exists changes its phase.
SameRows ==
  /\ DOMAIN phases' = DOMAIN phases
  /\ \A i \in DOMAIN phases : phases'[i].total = phases[i].total
  /\ DOMAIN tasks \subseteq DOMAIN tasks'
  /\ \A t \in DOMAIN tasks' : tasks'[t].phase = IF t \in DOMAIN tasks THEN tasks[t].phase ELSE 0

LEMMA PhaseIndex == FlowInv => DOMAIN phases \subseteq 1..Len(Template) /\ Len(Template) \in Nat
BY Domains DEF FlowInv, PhasesOK

LEMMA SameMapped ==
  ASSUME FlowInv, SameRows, NEW i \in DOMAIN phases
  PROVE  Mapped(i)' = Mapped(i)
<1>1. i # 0 BY PhaseIndex
<1>2. QED BY <1>1 DEF SameRows, Mapped

LEMMA QuietStatement ==
  ASSUME FlowInv, PlanInv, SameRows, NEW h \in Calls, NEW r \in Request,
         call' = [call EXCEPT ![h] = r],
         call[h].pc \notin Owing, r.pc \notin Owing \cup Unreached,
         r.pc \in Starting => call[h].pc \in Starting /\ r.i = call[h].i,
         r.pc = "test.map" => r.i > 1,
         r.pc \in Mapping => r.t \in DOMAIN tasks' \ DOMAIN tasks
  PROVE  PlanInv'
<1>0. call \in [Calls -> Request] /\ \A g \in Calls : call[g].pc \in Mapping => call[g].t \in DOMAIN tasks
  BY DEF FlowInv, CallsOK, Mapping, OnTask
<1>1. \A g \in Calls : call'[g] = IF g = h THEN r ELSE call[g]
  BY <1>0
<1>2. StartingOK'
  <2>1. 1 \in DOMAIN phases' => 1 \in DOMAIN phases /\ phases'[1].total = phases[1].total
    BY DEF SameRows
  <2>2. r.pc # "run" BY DEF Owing
  <2>3. QED BY <1>1, <2>1, <2>2 DEF PlanInv, StartingOK
<1>3. ReachedOK'
  BY <1>1 DEF PlanInv, ReachedOK, Owing
<1>4. MappingOK'
  <2>1. ASSUME NEW g \in Calls, call'[g].pc \in Mapping PROVE tasks'[call'[g].t].phase = 0
    BY <1>0, <1>1, <2>1 DEF PlanInv, MappingOK, SameRows
  <2>2. ASSUME NEW g \in Calls, NEW k \in Calls, call'[g].pc \in Mapping, call'[k].pc \in Mapping,
               call'[k].t = call'[g].t
        PROVE  k = g
    BY <1>0, <1>1, <2>2 DEF PlanInv, MappingOK
  <2>3. QED BY <2>1, <2>2 DEF MappingOK
<1>5. TotalsOK'
  <2>1. ASSUME NEW i \in DOMAIN phases PROVE Planning(i)' = Planning(i)
    BY <1>1 DEF Planning
  <2>2. QED BY <2>1, SameMapped DEF PlanInv, TotalsOK, SameRows
<1>6. QED BY <1>2, <1>3, <1>4, <1>5 DEF PlanInv

(* The same when no handler takes a step, or they are all lost from view. *)
LEMMA NoCallMoves ==
  ASSUME FlowInv, PlanInv, SameRows, call' = call
  PROVE  PlanInv'
<1>1. \A g \in Calls : call[g].pc \in Mapping => call[g].t \in DOMAIN tasks
  BY DEF FlowInv, CallsOK, Mapping, OnTask
<1>2. StartingOK' /\ ReachedOK'
  BY DEF PlanInv, StartingOK, ReachedOK, SameRows
<1>3. MappingOK'
  BY <1>1 DEF PlanInv, MappingOK, SameRows
<1>4. TotalsOK'
  <2>1. ASSUME NEW i \in DOMAIN phases PROVE Planning(i)' = Planning(i)
    BY DEF Planning
  <2>2. QED BY <2>1, SameMapped DEF PlanInv, TotalsOK, SameRows
<1>5. QED BY <1>2, <1>3, <1>4 DEF PlanInv

-----------------------------------------------------------------------------
(* Statements that change it *)

\* A handler maps its task to a phase that exists, and owes it one.
LEMMA MappedNow ==
  ASSUME FlowInv, PlanInv, NEW h \in Calls, call[h].pc \in Mapping, NEW r \in Request,
         call' = [call EXCEPT ![h] = r], phases' = phases, call[h].i \in DOMAIN phases,
         tasks' = [tasks EXCEPT ![call[h].t].phase = call[h].i],
         r.i = call[h].i,
         \/ call[h].pc = "map" /\ r.pc = "run" /\ r.n = 1
         \/ call[h].pc = "test.map" /\ r.pc = "test.total"
  PROVE  PlanInv'
<1> DEFINE t == call[h].t
           j == call[h].i
<1>0. /\ call \in [Calls -> Request]
      /\ \A g \in Calls : call[g].pc \in Mapping => call[g].t \in DOMAIN tasks
  BY DEF FlowInv, CallsOK, Mapping, OnTask
<1>1. \A g \in Calls : call'[g] = IF g = h THEN r ELSE call[g]
  BY <1>0
<1>2. DOMAIN tasks' = DOMAIN tasks
      /\ \A u \in DOMAIN tasks : tasks'[u].phase = IF u = t THEN j ELSE tasks[u].phase
  <2>1. tasks[t] \in TaskRow
    BY <1>0, ElementOfSeq, Domains DEF FlowInv, TasksOK
  <2>2. [tasks[t] EXCEPT !.phase = j].phase = j
    BY <2>1 DEF TaskRow
  <2>3. QED BY <1>0, <2>2
<1>3. StartingOK'
  BY <1>1 DEF PlanInv, StartingOK, Starting
<1>4. ReachedOK'
  BY <1>1 DEF PlanInv, ReachedOK, Unreached
<1>5. MappingOK'
  BY <1>0, <1>1, <1>2 DEF PlanInv, MappingOK, Mapping
<1>6. ASSUME NEW i \in DOMAIN phases
      PROVE  /\ Planning(i)' = IF i = j THEN Planning(i) \cup {h} ELSE Planning(i)
             /\ Mapped(i)' = IF i = j THEN Mapped(i) \cup {t} ELSE Mapped(i)
             /\ h \notin Planning(i) /\ t \notin Mapped(i)
             /\ phases'[i].total = phases[i].total /\ phases[i].total \in Nat
  <2>1. i # 0 /\ tasks[t].phase = 0 /\ phases[i] \in PhaseRow
    BY PhaseIndex DEF PlanInv, MappingOK, FlowInv, PhasesOK
  <2>2. Planning(i)' = IF i = j THEN Planning(i) \cup {h} ELSE Planning(i)
    BY <1>1 DEF Planning, Owing
  <2>3. Mapped(i)' = IF i = j THEN Mapped(i) \cup {t} ELSE Mapped(i)
    BY <1>0, <1>2, <2>1 DEF Mapped
  <2>4. QED BY <2>1, <2>2, <2>3 DEF Planning, Owing, Mapped, PhaseRow
<1>7. TotalsOK'
  <2> SUFFICES ASSUME "restart" \notin Operations, NEW i \in DOMAIN phases
               PROVE  /\ IsFiniteSet(Planning(i)')
                      /\ phases'[i].total + Cardinality(Planning(i)') = Cardinality(Mapped(i)')
    BY DEF TotalsOK
  <2>1. IsFiniteSet(Planning(i)) /\ IsFiniteSet(Mapped(i))
        /\ phases[i].total + Cardinality(Planning(i)) = Cardinality(Mapped(i))
    BY FinitelyMany DEF PlanInv, TotalsOK, Mapped, FlowInv
  <2>2. /\ IsFiniteSet(Planning(i) \cup {h})
        /\ Cardinality(Planning(i) \cup {h}) = Cardinality(Planning(i)) + 1
        /\ Cardinality(Mapped(i) \cup {t}) = Cardinality(Mapped(i)) + 1
    BY <1>6, <2>1, FS_AddElement
  <2>3. Cardinality(Planning(i)) \in Nat /\ Cardinality(Mapped(i)) \in Nat
    BY <2>1, FS_CardinalityType
  <2>4. CASE i = j
    <3>1. Planning(i)' = Planning(i) \cup {h} /\ Mapped(i)' = Mapped(i) \cup {t}
      BY <1>6, <2>4
    <3>2. phases'[i].total = phases[i].total /\ phases[i].total \in Nat
      BY <1>6
    <3>3. QED BY <2>1, <2>2, <2>3, <3>1, <3>2
  <2>5. CASE i # j
    BY <1>6, <2>1, <2>5
  <2>6. QED BY <2>4, <2>5
<1>8. QED BY <1>3, <1>4, <1>5, <1>7 DEF PlanInv

\* It plans for the task, or the phase is gone.
LEMMA PlannedNow ==
  ASSUME FlowInv, PlanInv, NEW h \in Calls, call[h].pc \in Owing, Return(h), tasks' = tasks,
         DOMAIN phases' = DOMAIN phases,
         \A i \in DOMAIN phases :
           phases'[i].total = IF i = call[h].i THEN phases[i].total + 1 ELSE phases[i].total,
         call[h].pc = "test.total" => call[h].i > 1
  PROVE  PlanInv'
<1> DEFINE j == call[h].i
<1>0. call \in [Calls -> Request] /\ Idle.pc = "idle"
  BY IdleOK DEF FlowInv, CallsOK
<1>1. \A g \in Calls : call'[g] = IF g = h THEN Idle ELSE call[g]
  BY <1>0 DEF Return
<1>2. StartingOK'
  <2>1. CASE call[h].pc = "run"
    BY <1>0, <1>1, <2>1 DEF PlanInv, StartingOK, Starting
  <2>2. CASE call[h].pc = "test.total"
    <3>1. 1 \in DOMAIN phases => phases'[1].total = phases[1].total
      BY <2>2
    <3>2. QED BY <1>0, <1>1, <3>1 DEF PlanInv, StartingOK, Starting
  <2>3. QED BY <2>1, <2>2 DEF Owing
<1>3. ReachedOK'
  BY <1>0, <1>1 DEF PlanInv, ReachedOK, Unreached
<1>4. MappingOK'
  BY <1>0, <1>1 DEF PlanInv, MappingOK, Mapping
<1>5. TotalsOK'
  <2> SUFFICES ASSUME "restart" \notin Operations, NEW i \in DOMAIN phases
               PROVE  /\ IsFiniteSet(Planning(i)')
                      /\ phases'[i].total + Cardinality(Planning(i)') = Cardinality(Mapped(i)')
    BY DEF TotalsOK
  <2>1. IsFiniteSet(Planning(i)) /\ Mapped(i)' = Mapped(i)
        /\ phases[i].total + Cardinality(Planning(i)) = Cardinality(Mapped(i))
    BY DEF PlanInv, TotalsOK, Mapped
  <2>2. Planning(i)' = IF i = j THEN Planning(i) \ {h} ELSE Planning(i)
    BY <1>0, <1>1 DEF Planning, Owing
  <2>3. i = j => h \in Planning(i) BY DEF Planning
  <2>4. /\ IsFiniteSet(Planning(i) \ {h})
        /\ i = j => Cardinality(Planning(i) \ {h}) = Cardinality(Planning(i)) - 1
    BY <2>1, <2>3, FS_RemoveElement
  <2>5. Cardinality(Planning(i)) \in Nat /\ phases[i].total \in Nat
    BY <2>1, FS_CardinalityType DEF FlowInv, PhasesOK, PhaseRow
  <2>6. QED BY <2>1, <2>2, <2>4, <2>5
<1>6. QED BY <1>2, <1>3, <1>4, <1>5 DEF PlanInv

-----------------------------------------------------------------------------
(* The steps *)

LEMMA TotalsKept ==
  ASSUME PhasesOK, NEW i, NEW s, NEW j \in DOMAIN phases
  PROVE  SetStatus(i, s)[j].total = phases[j].total /\ CountUp(i)[j].total = phases[j].total
<1>1. phases[j] \in PhaseRow
  BY DEF PhasesOK
<1>2. /\ [phases[j] EXCEPT !.status = s].total = phases[j].total
      /\ [phases[j] EXCEPT !.completed = @ + 1].total = phases[j].total
  BY <1>1 DEF PhaseRow
<1>3. QED BY <1>2 DEF SetStatus, CountUp, Update

LEMMA TotalsRaised ==
  ASSUME PhasesOK, NEW i, NEW n \in Nat, NEW j \in DOMAIN phases
  PROVE  Plan(i, n)[j].total = IF j = i THEN phases[j].total + n ELSE phases[j].total
<1>1. phases[j] \in PhaseRow
  BY DEF PhasesOK
<1>2. [phases[j] EXCEPT !.total = @ + n].total = phases[j].total + n
  BY <1>1 DEF PhaseRow
<1>3. QED BY <1>2 DEF Plan, Update

LEMMA UpdateDomains ==
  ASSUME NEW i, NEW s, NEW n
  PROVE  /\ DOMAIN SetStatus(i, s) = DOMAIN phases /\ DOMAIN CountUp(i) = DOMAIN phases
         /\ DOMAIN Plan(i, n) = DOMAIN phases
BY DEF SetStatus, CountUp, Plan, Update

LEMMA RowsKept ==
  ASSUME FlowInv,
         phases' = phases \/ \E i, s : phases' = SetStatus(i, s) \/ phases' = CountUp(i),
         DOMAIN tasks' = DOMAIN tasks, \A t \in DOMAIN tasks : tasks'[t].phase = tasks[t].phase
  PROVE  SameRows
<1>1. ASSUME NEW i, NEW s, phases' = SetStatus(i, s) \/ phases' = CountUp(i)
      PROVE  /\ DOMAIN phases' = DOMAIN phases
             /\ \A j \in DOMAIN phases : phases'[j].total = phases[j].total
  <2>1. DOMAIN phases' = DOMAIN phases
    BY <1>1, UpdateDomains
  <2>2. ASSUME NEW j \in DOMAIN phases PROVE phases'[j].total = phases[j].total
    <3>1. SetStatus(i, s)[j].total = phases[j].total /\ CountUp(i)[j].total = phases[j].total
      BY TotalsKept DEF FlowInv
    <3>2. QED BY <1>1, <3>1
  <2>3. QED BY <2>1, <2>2
<1>2. QED BY <1>1 DEF SameRows

LEMMA RowInserted ==
  ASSUME FlowInv, phases' = phases, NEW row \in TaskRow, row.phase = 0,
         tasks' = Append(tasks, row)
  PROVE  SameRows /\ Len(tasks) + 1 \in DOMAIN tasks' \ DOMAIN tasks
<1>1. Len(tasks) \in Nat /\ DOMAIN tasks = 1..Len(tasks) /\ tasks \in Seq(TaskRow)
  BY Domains DEF FlowInv, TasksOK
<1>2. DOMAIN tasks' = 1..Len(tasks) + 1 /\ tasks'[Len(tasks) + 1] = row
      /\ \A t \in 1..Len(tasks) : tasks'[t] = tasks[t]
  BY <1>1, AppendProperties, LenProperties
<1>3. QED BY <1>1, <1>2 DEF SameRows

\* The statements every handler may reach, other than those that map or plan.
Elsewhere == ({"idle", "advance"} \cup OnTask \cup OnPhase)
               \ (Owing \cup Unreached \cup Starting \cup Mapping)

LEMMA QuietMoves ==
  ASSUME FlowInv, PlanInv, SameRows, NEW h \in Calls, call[h].pc \notin Owing
  PROVE  /\ Return(h) => PlanInv'
         /\ \A p \in Elsewhere : Goto(h, p) => PlanInv'
         /\ \A p \in Elsewhere, i \in DOMAIN Template : GotoPhase(h, p, i) => PlanInv'
<1>0. call[h] \in Request /\ DOMAIN Template \subseteq 0..Len(Template)
  BY Domains DEF FlowInv, CallsOK
<1>1. ASSUME Return(h) PROVE PlanInv'
  <2>1. Idle.pc \notin Owing \cup Unreached \cup Starting \cup Mapping /\ Idle.pc # "test.map"
    BY IdleOK DEF Owing, Unreached, Starting, Mapping
  <2>2. QED BY <1>1, <2>1, IdleOK, QuietStatement DEF Return
<1>2. ASSUME NEW p \in Elsewhere, NEW r \in {[call[h] EXCEPT !.pc = p]}
                                         \cup {[call[h] EXCEPT !.pc = p, !.i = i] : i \in DOMAIN Template},
             call' = [call EXCEPT ![h] = r]
      PROVE  PlanInv'
  <2>1. r \in Request /\ r.pc = p
    BY <1>0 DEF Request, Elsewhere
  <2>2. p \notin Owing \cup Unreached /\ p \notin Starting /\ p \notin Mapping /\ p # "test.map"
    BY DEF Elsewhere, Mapping
  <2>3. QED BY <1>2, <2>1, <2>2, QuietStatement
<1>3. call \in [Calls -> Request] BY DEF FlowInv, CallsOK
<1>4. ASSUME NEW p \in Elsewhere, Goto(h, p) PROVE PlanInv'
  <2>1. call' = [call EXCEPT ![h] = [call[h] EXCEPT !.pc = p]]
    BY <1>3, <1>4 DEF Goto
  <2>2. QED BY <1>2, <2>1
<1>5. ASSUME NEW p \in Elsewhere, NEW i \in DOMAIN Template, GotoPhase(h, p, i) PROVE PlanInv'
  <2>1. call' = [call EXCEPT ![h] = [call[h] EXCEPT !.pc = p, !.i = i]]
    BY <1>3, <1>5 DEF GotoPhase
  <2>2. QED BY <1>2, <2>1
<1>6. QED BY <1>1, <1>4, <1>5

(* Statements that read or change statuses and counters. *)
LEMMA CountersMove ==
  ASSUME FlowInv, PlanInv, ~PhaseScans, NEW h \in Calls,
         \/ ActivateDecision(h) \/ ActivatePlain(h) \/ AdvanceRead(h) \/ Count(h)
         \/ ReadCompleted(h) \/ ClosePhase(h) \/ GatePass(h) \/ QueueRead(h) \/ GateFail(h)
  PROVE  PlanInv'
<1>1. tasks' = tasks
      /\ (phases' = phases \/ \E i, s : phases' = SetStatus(i, s) \/ phases' = CountUp(i))
  <2>1. CASE ActivateDecision(h) \/ ActivatePlain(h) \/ AdvanceRead(h) \/ ReadCompleted(h) \/ ClosePhase(h)
    BY <2>1 DEF ActivateDecision, ActivatePlain, AdvanceRead, ReadCompleted, ClosePhase
  <2>2. CASE Count(h) \/ GatePass(h) \/ QueueRead(h) \/ GateFail(h)
    BY <2>2 DEF Count, GatePass, QueueRead, GateFail
  <2>3. QED BY <2>1, <2>2
<1>2. SameRows BY <1>1, RowsKept
<1>3. call[h].pc \notin Owing
  BY DEF ActivateDecision, ActivatePlain, AdvanceRead, Count, ReadCompleted, ClosePhase,
         GatePass, QueueRead, GateFail, At, Owing
<1>4. \/ Return(h) \/ \E p \in Elsewhere : Goto(h, p)
      \/ \E p \in Elsewhere, i \in DOMAIN Template : GotoPhase(h, p, i)
  <2>1. /\ "advance" \in Elsewhere /\ "close" \in Elsewhere /\ "queue" \in Elsewhere
        /\ "totals" \in Elsewhere /\ "requeue" \in Elsewhere
    BY DEF Elsewhere, Owing, Unreached, Starting, Mapping, OnPhase, OnTask
  <2>2. DOMAIN phases \subseteq DOMAIN Template BY DEF FlowInv, PhasesOK
  <2>3. CASE ActivateDecision(h) \/ ActivatePlain(h) \/ AdvanceRead(h) \/ ReadCompleted(h) \/ ClosePhase(h)
    BY <2>1, <2>3 DEF ActivateDecision, ActivatePlain, AdvanceRead, ReadCompleted, ClosePhase
  <2>4. CASE Count(h) \/ GatePass(h) \/ QueueRead(h) \/ GateFail(h)
    BY <2>1, <2>2, <2>4 DEF Count, GatePass, QueueRead, GateFail
  <2>5. QED BY <2>3, <2>4
<1>5. QED BY <1>2, <1>3, <1>4, QuietMoves

(* Statements that work on the task of the call, and those that begin one. *)
LEMMA TasksMove ==
  ASSUME FlowInv, PlanInv, NEW h \in Calls, CompleteUpdate(h) \/ Requeue(h) \/ ReviewPass(h)
  PROVE  PlanInv'
<1>0. /\ tasks \in Seq(TaskRow) /\ \A t \in DOMAIN tasks : tasks[t] \in TaskRow
      /\ call[h].pc \in OnTask => call[h].t \in DOMAIN tasks
  BY Domains, ElementOfSeq DEF FlowInv, TasksOK, CallsOK
<1>1. "advance" \in Elsewhere /\ "test.task" \in Elsewhere
      /\ \A v \in DOMAIN Completing : Calling[v] \in Elsewhere /\ Completing[v] \in OnTask \ Owing
  BY DEF Elsewhere, Owing, Unreached, Starting, Mapping, OnPhase, OnTask, Completing, Calling
<1>2. CASE CompleteUpdate(h)
  <2>1. PICK v \in DOMAIN Completing : At(h, Completing[v]) /\ Goto(h, Calling[v])
    BY <1>2 DEF CompleteUpdate
  <2>2. call[h].t \in DOMAIN tasks /\ call[h].pc \notin Owing
    BY <1>0, <1>1, <2>1 DEF At
  <2>3. SameRows
    <3>1. CASE UNCHANGED <<phases, tasks>>
      BY <3>1, RowsKept
    <3>2. CASE Finish(call[h].t, "done")
      <4>1. /\ tasks' = [u \in DOMAIN tasks |-> tasks'[u]]
            /\ \A u \in DOMAIN tasks : tasks'[u].phase = tasks[u].phase
        BY <2>2, <3>2, FinishRows DEF FlowInv
      <4>2. phases' = phases \/ \E i : phases' = CountUp(i)
        BY <3>2 DEF Finish
      <4>3. DOMAIN tasks' = DOMAIN tasks BY <4>1
      <4>4. QED BY <4>1, <4>2, <4>3, RowsKept
    <3>3. QED BY <1>2, <3>1, <3>2 DEF CompleteUpdate
  <2>4. QED BY <1>1, <2>1, <2>2, <2>3, QuietMoves
<1>3. CASE Requeue(h)
  <2>1. /\ DOMAIN tasks' = DOMAIN tasks
        /\ \A t \in DOMAIN tasks : tasks'[t].phase = tasks[t].phase
    BY <1>0, <1>3 DEF Requeue, TaskRow
  <2>2. SameRows BY <1>3, <2>1, RowsKept DEF Requeue
  <2>3. Goto(h, "advance") /\ call[h].pc \notin Owing BY <1>3 DEF Requeue, At, Owing
  <2>4. QED BY <1>1, <2>2, <2>3, QuietMoves
<1>4. CASE ReviewPass(h)
  <2>1. call[h].t \in DOMAIN tasks BY <1>0, <1>4 DEF ReviewPass, At, OnTask
  <2>2. /\ DOMAIN tasks' = DOMAIN tasks
        /\ \A t \in DOMAIN tasks : tasks'[t].phase = tasks[t].phase
    BY <1>0, <1>4, <2>1 DEF ReviewPass, TaskRow
  <2>3. SameRows BY <1>4, <2>2, RowsKept DEF ReviewPass
  <2>4. Goto(h, "test.task") /\ call[h].pc \notin Owing BY <1>4 DEF ReviewPass, At, Owing
  <2>5. QED BY <1>1, <2>3, <2>4, QuietMoves
<1>5. QED BY <1>2, <1>3, <1>4

LEMMA CallsBegin ==
  ASSUME FlowInv, PlanInv, NEW h \in Calls,
         \/ ReadTotal(h)
         \/ \E t \in DOMAIN tasks :
              \/ ReviewRead(h, t)
              \/ \E a \in Agents, v \in {"done", "pass", "fail"} : CompleteRead(h, a, t, v)
  PROVE  PlanInv'
<1>0. call[h] \in Request /\ Idle \in Request /\ \A t \in DOMAIN tasks : t \in Nat
  BY Domains, IdleOK DEF FlowInv, CallsOK
<1>1. SameRows /\ call[h].pc \notin Owing
  <2>1. SameRows BY RowsKept DEF ReadTotal, ReviewRead, CompleteRead
  <2>2. call[h].pc \notin Owing
    BY IdleOK DEF ReadTotal, ReviewRead, CompleteRead, At, Free, Owing
  <2>3. QED BY <2>1, <2>2
<1>2. ASSUME NEW r \in Request, call' = [call EXCEPT ![h] = r],
             r.pc \in {"review", "complete.done", "complete.pass", "complete.fail", "counted"}
      PROVE  PlanInv'
  <2>1. r.pc \notin Owing \cup Unreached /\ r.pc \notin Starting /\ r.pc \notin Mapping /\ r.pc # "test.map"
    BY <1>2 DEF Owing, Unreached, Starting, Mapping
  <2>2. QED BY <1>1, <1>2, <2>1, QuietStatement
<1>3. ASSUME NEW p \in {"review", "complete.done", "complete.pass", "complete.fail"},
             NEW a \in Agents \cup {None}, NEW t \in DOMAIN tasks,
             NEW r \in {[Idle EXCEPT !.pc = p, !.t = t], [Idle EXCEPT !.pc = p, !.a = a, !.t = t]},
             call' = [call EXCEPT ![h] = r]
      PROVE  PlanInv'
  <2>1. p \in OnTask /\ t \in Nat BY <1>0 DEF OnTask
  <2>2. r \in Request /\ r.pc = p
    BY <1>0, <1>3, <2>1 DEF Request
  <2>3. QED BY <1>2, <1>3, <2>2
<1>4. ASSUME NEW t \in DOMAIN tasks, ReviewRead(h, t) PROVE PlanInv'
  BY <1>3, <1>4 DEF ReviewRead
<1>5. ASSUME NEW t \in DOMAIN tasks, NEW a \in Agents, NEW v \in {"done", "pass", "fail"},
             CompleteRead(h, a, t, v)
      PROVE  PlanInv'
  <2>1. Completing[v] \in {"complete.done", "complete.pass", "complete.fail"} BY DEF Completing
  <2>2. call' = [call EXCEPT ![h] = [Idle EXCEPT !.pc = Completing[v], !.a = a, !.t = t]]
    BY <1>5 DEF CompleteRead
  <2>3. QED BY <1>3, <2>1, <2>2
<1>6. CASE ReadTotal(h)
  <2> DEFINE n == IF call[h].i \in DOMAIN phases THEN phases[call[h].i].total ELSE 0
             r == [call[h] EXCEPT !.pc = "counted", !.n = n]
  <2>1. n \in Nat BY DEF FlowInv, PhasesOK, PhaseRow
  <2>2. call \in [Calls -> Request] BY DEF FlowInv, CallsOK
  <2>3. call' = [call EXCEPT ![h] = r]
    BY <1>6, <2>2 DEF ReadTotal
  <2> HIDE DEF n
  <2>4. r \in Request /\ r.pc = "counted"
    BY <1>0, <2>1 DEF Request, OnPhase
  <2> HIDE DEF r
  <2>5. QED BY <1>2, <2>3, <2>4
<1>7. QED BY <1>4, <1>5, <1>6

(* createSinglePhaseTasks and CreateWorkflowTestTask insert a task that has   *)
(* no phase yet.                                                              *)
LEMMA TasksBegin ==
  ASSUME FlowInv, PlanInv, NEW h \in Calls, ActivateTask(h) \/ TestTaskNew(h)
  PROVE  PlanInv'
<1>0. /\ call \in [Calls -> Request] /\ call[h] \in Request /\ Len(tasks) \in Nat
      /\ Len(tasks) + 1 \in Nat /\ call[h].t \in Nat
  BY Domains DEF FlowInv, CallsOK, Request
<1>1. CASE ActivateTask(h)
  <2> DEFINE row == NewTask(IF Template[call[h].i] = "gate" THEN "gate" ELSE "work", "available", 0, 0)
             r == [call[h] EXCEPT !.pc = "map", !.t = Len(tasks) + 1]
  <2>1. row \in TaskRow /\ row.phase = 0
    BY Domains DEF NewTask, TaskRow
  <2>2. tasks' = Append(tasks, row) /\ phases' = phases /\ call[h].pc = "activate"
    BY <1>1 DEF ActivateTask, At
  <2>3. call' = [call EXCEPT ![h] = r]
    BY <1>0, <1>1 DEF ActivateTask
  <2> HIDE DEF row
  <2>4. SameRows /\ Len(tasks) + 1 \in DOMAIN tasks' \ DOMAIN tasks
    BY <2>1, <2>2, RowInserted
  <2>5. r \in Request /\ r.pc = "map" /\ r.t = Len(tasks) + 1 /\ r.i = call[h].i
    BY <1>0 DEF Request, OnPhase
  <2> HIDE DEF r
  <2>6. r.pc \notin Owing \cup Unreached /\ r.pc # "test.map" /\ call[h].pc \notin Owing
        /\ call[h].pc \in Starting
    BY <2>2, <2>5 DEF Owing, Unreached, Starting
  <2>7. QED BY <2>3, <2>4, <2>5, <2>6, QuietStatement
<1>2. CASE TestTaskNew(h)
  <2> DEFINE i == tasks[call[h].t].phase
  <2>1. call[h].pc \notin Owing BY <1>2 DEF TestTaskNew, At, Owing
  <2>2. CASE Return(h) /\ tasks' = tasks
    <3>1. SameRows BY <1>2, <2>2, RowsKept DEF TestTaskNew
    <3>2. QED BY <2>1, <2>2, <3>1, QuietMoves
  <2>3. CASE i \in DOMAIN phases /\ i + 1 \in DOMAIN phases
    <3> DEFINE row == NewTask("test", "available", 0, call[h].t)
               r == [call[h] EXCEPT !.pc = "test.map", !.i = i + 1, !.t = Len(tasks) + 1]
    <3>1. row \in TaskRow /\ row.phase = 0
      BY <1>0, Domains DEF NewTask, TaskRow
    <3>2. tasks' = Append(tasks, row) /\ phases' = phases
      BY <1>2, <2>3 DEF TestTaskNew
    <3>3. call' = [call EXCEPT ![h] = r]
      BY <1>0, <1>2, <2>3 DEF TestTaskNew
    <3> HIDE DEF row
    <3>4. SameRows /\ Len(tasks) + 1 \in DOMAIN tasks' \ DOMAIN tasks
      BY <3>1, <3>2, RowInserted
    <3>5. i + 1 \in 0..Len(Template) /\ i + 1 > 1
      BY <2>3, PhaseIndex
    <3> HIDE DEF i
    <3>6. r \in Request /\ r.pc = "test.map" /\ r.t = Len(tasks) + 1 /\ r.i = i + 1
      BY <1>0, <3>5 DEF Request, OnPhase
    <3> HIDE DEF r
    <3>7. r.pc \notin Owing \cup Unreached /\ r.pc \notin Starting
      BY <3>6 DEF Owing, Unreached, Starting
    <3>8. QED BY <2>1, <3>3, <3>4, <3>5, <3>6, <3>7, QuietStatement
  <2>4. QED BY <1>2, <2>2, <2>3 DEF TestTaskNew
<1>3. QED BY <1>1, <1>2

(* activatePhase of the first phase, which is all this code activates: a      *)
(* "per_dev" phase there has nothing before it.                               *)
LEMMA PerDevFirst ==
  ASSUME FlowInv, PlanInv, NEW h \in Calls, ActivatePerDev(h)
  PROVE  PlanInv'
<1>1. /\ call[h].i = 1 /\ call[h].pc \notin Owing
      /\ 1 \in DOMAIN phases => phases[1].total = 0
  BY DEF ActivatePerDev, At, Owing, PlanInv, StartingOK, Starting
<1>2. Return(h) /\ tasks' = tasks
  BY <1>1 DEF ActivatePerDev
<1>3. CASE phases' = phases \/ phases' = SetStatus(call[h].i, "running")
  <2>1. SameRows BY <1>2, <1>3, RowsKept
  <2>2. QED BY <1>1, <1>2, <2>1, QuietMoves
<1>4. CASE /\ 1 \in DOMAIN phases
           /\ phases' = Update(1, [phases[1] EXCEPT !.status = "completed", !.total = 0])
  <2> DEFINE row == [phases[1] EXCEPT !.status = "completed", !.total = 0]
  <2>1. row.total = 0 BY <1>4 DEF FlowInv, PhasesOK, PhaseRow
  <2>2. phases' = Update(1, row) BY <1>4
  <2> HIDE DEF row
  <2>3. SameRows BY <1>1, <1>2, <1>4, <2>1, <2>2 DEF SameRows, Update
  <2>4. QED BY <1>1, <1>2, <2>3, QuietMoves
<1>5. QED BY <1>1, <1>3, <1>4 DEF ActivatePerDev

LEMMA MapAndPlan ==
  ASSUME FlowInv, PlanInv, NEW h \in Calls,
         MapTask(h) \/ TestTaskMap(h) \/ RunPhase(h) \/ TestTaskTotal(h)
  PROVE  PlanInv'
<1>0. call \in [Calls -> Request] /\ call[h] \in Request
  BY DEF FlowInv, CallsOK
<1>1. CASE MapTask(h)
  <2>1. call[h].pc = "map" /\ call[h].pc \in Mapping /\ call[h].pc \notin Owing
    BY <1>1 DEF MapTask, At, Mapping, Owing
  <2>2. CASE call[h].i \in DOMAIN phases
    <3> DEFINE r == [call[h] EXCEPT !.pc = "run", !.n = 1]
    <3>1. r \in Request /\ r.pc = "run" /\ r.n = 1 /\ r.i = call[h].i
      BY <1>0 DEF Request, OnPhase
    <3>2. call' = [call EXCEPT ![h] = r]
      BY <1>0, <1>1, <2>2 DEF MapTask
    <3> HIDE DEF r
    <3>3. QED BY <1>1, <2>1, <2>2, <3>1, <3>2, MappedNow DEF MapTask
  <2>3. CASE call[h].i \notin DOMAIN phases
    <3>1. SameRows BY <1>1, <2>3, RowsKept DEF MapTask
    <3>2. QED BY <1>1, <2>1, <2>3, <3>1, QuietMoves DEF MapTask
  <2>4. QED BY <2>2, <2>3
<1>2. CASE TestTaskMap(h)
  <2>1. call[h].pc = "test.map" /\ call[h].pc \in Mapping /\ call[h].pc \notin Owing
    BY <1>2 DEF TestTaskMap, At, Mapping, Owing
  <2>2. CASE call[h].i \in DOMAIN phases
    <3> DEFINE r == [call[h] EXCEPT !.pc = "test.total"]
    <3>1. r \in Request /\ r.pc = "test.total" /\ r.i = call[h].i
      BY <1>0 DEF Request, OnPhase
    <3>2. call' = [call EXCEPT ![h] = r]
      BY <1>0, <1>2, <2>2 DEF TestTaskMap, Goto
    <3> HIDE DEF r
    <3>3. QED BY <1>2, <2>1, <2>2, <3>1, <3>2, MappedNow DEF TestTaskMap
  <2>3. CASE call[h].i \notin DOMAIN phases
    <3>1. SameRows BY <1>2, <2>3, RowsKept DEF TestTaskMap
    <3>2. QED BY <1>2, <2>1, <2>3, <3>1, QuietMoves DEF TestTaskMap
  <2>4. QED BY <2>2, <2>3
<1>3. CASE RunPhase(h)
  <2>1. /\ call[h].pc = "run" /\ call[h].pc \in Owing /\ Return(h) /\ tasks' = tasks
        /\ call[h].i = 1 /\ call[h].n = 1
        /\ 1 \in DOMAIN phases => phases[1].total = 0
    BY <1>3 DEF RunPhase, At, Owing, PlanInv, StartingOK, Starting
  <2>2. CASE 1 \in DOMAIN phases
    <3> DEFINE row == [phases[1] EXCEPT !.status = "running", !.total = 1]
    <3>1. row.total = 1 BY <2>2 DEF FlowInv, PhasesOK, PhaseRow
    <3>2. phases' = Update(1, row) BY <1>3, <2>1, <2>2 DEF RunPhase
    <3> HIDE DEF row
    <3>3. DOMAIN phases' = DOMAIN phases
      BY <3>2 DEF Update
    <3>4. \A i \in DOMAIN phases :
            phases'[i].total = IF i = call[h].i THEN phases[i].total + 1 ELSE phases[i].total
      BY <2>1, <2>2, <3>1, <3>2 DEF Update
    <3>5. QED BY <2>1, <3>3, <3>4, PlannedNow
  <2>3. CASE 1 \notin DOMAIN phases
    <3>1. phases' = phases BY <1>3, <2>1, <2>3 DEF RunPhase
    <3>2. \A i \in DOMAIN phases :
            phases'[i].total = IF i = call[h].i THEN phases[i].total + 1 ELSE phases[i].total
      BY <2>1, <2>3, <3>1
    <3>3. QED BY <2>1, <3>1, <3>2, PlannedNow
  <2>4. QED BY <2>2, <2>3
<1>4. CASE TestTaskTotal(h)
  <2>1. /\ call[h].pc = "test.total" /\ call[h].pc \in Owing /\ Return(h) /\ tasks' = tasks
        /\ call[h].i > 1 /\ phases' = Plan(call[h].i, 1)
    BY <1>4 DEF TestTaskTotal, At, Owing, PlanInv, ReachedOK
  <2>2. DOMAIN phases' = DOMAIN phases
    BY <2>1, UpdateDomains
  <2>3. ASSUME NEW i \in DOMAIN phases
        PROVE  phases'[i].total = IF i = call[h].i THEN phases[i].total + 1 ELSE phases[i].total
    <3>1. Plan(call[h].i, 1)[i].total = IF i = call[h].i THEN phases[i].total + 1 ELSE phases[i].total
      BY TotalsRaised DEF FlowInv
    <3>2. QED BY <2>1, <3>1
  <2>4. QED BY <2>1, <2>2, <2>3, PlannedNow
<1>5. QED BY <1>1, <1>2, <1>3, <1>4

(* The statements of the handlers that are one transaction. *)
LEMMA WholeCalls ==
  ASSUME FlowInv, PlanInv,
         \/ Reject \/ DeleteWorkflow
         \/ \E t \in DOMAIN tasks :
              \/ Progress(t) \/ SendBack(t) \/ Deploy(t)
              \/ \E a \in Agents : Claim(a, t)
  PROVE  PlanInv'
<1>0. tasks \in Seq(TaskRow) /\ \A t \in DOMAIN tasks : tasks[t] \in TaskRow
  BY Domains, ElementOfSeq DEF FlowInv, TasksOK
<1>1. CASE Reject
  <2>1. \A i \in DOMAIN phases : [phases[i] EXCEPT !.status = "cancelled"].total = phases[i].total
    BY DEF FlowInv, PhasesOK, PhaseRow
  <2>2. SameRows BY <1>1, <2>1 DEF Reject, SameRows
  <2>3. QED BY <1>1, <2>2, NoCallMoves DEF Reject
<1>2. CASE DeleteWorkflow
  <2>1. DOMAIN phases' = {} /\ call' = call
    BY <1>2, EmptySeq DEF DeleteWorkflow
  <2>2. \A t \in DOMAIN tasks : tasks'[t].phase = 0
    BY <1>0, <1>2 DEF DeleteWorkflow, TaskRow
  <2>3. \A g \in Calls : call[g].pc \in Mapping => call[g].t \in DOMAIN tasks
    BY DEF FlowInv, CallsOK, Mapping, OnTask
  <2>4. QED
    BY <2>1, <2>2, <2>3 DEF PlanInv, StartingOK, ReachedOK, MappingOK, TotalsOK
<1>3. ASSUME NEW t \in DOMAIN tasks, Progress(t) \/ SendBack(t) \/ \E a \in Agents : Claim(a, t)
      PROVE  PlanInv'
  <2>0. ASSUME NEW s PROVE [tasks[t] EXCEPT !.status = s].phase = tasks[t].phase
    BY <1>0 DEF TaskRow
  <2>1. /\ DOMAIN tasks' = DOMAIN tasks
        /\ \A u \in DOMAIN tasks : tasks'[u].phase = tasks[u].phase
    <3>1. CASE Progress(t) \/ SendBack(t)
      BY <2>0, <3>1 DEF Progress, SendBack
    <3>2. ASSUME NEW a \in Agents, Claim(a, t)
          PROVE  /\ DOMAIN tasks' = DOMAIN tasks
                 /\ \A u \in DOMAIN tasks : tasks'[u].phase = tasks[u].phase
      BY <1>0, <3>2 DEF Claim, TaskRow
    <3>3. QED BY <1>3, <3>1, <3>2
  <2>2. phases' = phases /\ call' = call
    BY <1>3 DEF Progress, SendBack, Claim
  <2>3. QED BY <2>1, <2>2, RowsKept, NoCallMoves
<1>4. ASSUME NEW t \in DOMAIN tasks, Deploy(t) PROVE PlanInv'
  <2>1. /\ tasks' = [u \in DOMAIN tasks |-> tasks'[u]]
        /\ \A u \in DOMAIN tasks : tasks'[u].phase = tasks[u].phase
    BY <1>4, FinishRows DEF Deploy, FlowInv
  <2>2. phases' = phases \/ \E i : phases' = CountUp(i)
    BY <1>4 DEF Deploy, Finish
  <2>3. DOMAIN tasks' = DOMAIN tasks BY <2>1
  <2>4. SameRows BY <2>1, <2>2, <2>3, RowsKept
  <2>5. QED BY <1>4, <2>4, NoCallMoves DEF Deploy
<1>5. QED BY <1>1, <1>2, <1>3, <1>4

(* StartWorkflow. *)
LEMMA PlanBegins ==
  ASSUME FlowInv, workflow = "none", NEW h \in Calls, StartWorkflow(h)
  PROVE  PlanInv'
<1>1. /\ \A g \in Calls : call'[g] = IF g = h THEN [Idle EXCEPT !.pc = "activate", !.i = 1] ELSE Idle
      /\ tasks' = <<>> /\ \A i \in DOMAIN phases' : phases'[i].total = 0
  BY DEF StartWorkflow, FlowInv, FreshOK, CallsOK, Free
<1>2. ASSUME NEW g \in Calls
      PROVE  /\ call'[g].pc \in {"idle", "activate"}
             /\ call'[g].pc = "activate" => g = h /\ call'[g].i = 1
  <2>1. CASE g = h BY <1>1, <2>1 DEF Idle
  <2>2. CASE g # h BY <1>1, <2>2, IdleOK
  <2>3. QED BY <2>1, <2>2
<1>3. StartingOK' /\ ReachedOK' /\ MappingOK'
  BY <1>1, <1>2 DEF StartingOK, ReachedOK, MappingOK, Starting, Unreached, Mapping
<1>4. TotalsOK'
  <2>1. ASSUME NEW i \in DOMAIN phases' PROVE Planning(i)' = {} /\ Mapped(i)' = {}
    BY <1>1, <1>2, EmptySeq DEF Planning, Mapped, Owing
  <2>2. ASSUME NEW i \in DOMAIN phases'
        PROVE  /\ IsFiniteSet(Planning(i)')
               /\ phases'[i].total + Cardinality(Planning(i)') = Cardinality(Mapped(i)')
    <3>1. IsFiniteSet({}) /\ Cardinality({}) = 0 BY FS_EmptySet
    <3>2. Planning(i)' = {} /\ Mapped(i)' = {} BY <2>1
    <3>3. phases'[i].total = 0 BY <1>1
    <3>4. QED BY <3>1, <3>2, <3>3
  <2>3. QED BY <2>2 DEF TotalsOK
<1>5. QED BY <1>3, <1>4 DEF PlanInv

LEMMA InitPlan == Init => PlanInv
<1> SUFFICES ASSUME Init PROVE PlanInv
  OBVIOUS
<1>1. /\ DOMAIN phases = {} /\ \A g \in Calls : call[g].pc = "idle"
  BY IdleOK, EmptySeq DEF Init
<1>2. QED
  BY <1>1 DEF PlanInv, StartingOK, ReachedOK, MappingOK, TotalsOK, Starting, Unreached, Mapping

LEMMA StepPlan == ~PhaseScans /\ FlowInv /\ PlanInv /\ [Next]_vars => PlanInv'
<1> SUFFICES ASSUME ~PhaseScans, FlowInv, PlanInv, [Next]_vars
             PROVE  PlanInv'
  OBVIOUS
<1>1. CASE UNCHANGED vars
  BY <1>1, RowsKept, NoCallMoves DEF vars
<1>2. CASE workflow = "none" /\ Next
  BY <1>2, FreshStep, PlanBegins
<1>3. ASSUME NEW g \in Calls,
             \/ AdvanceLeave(g) \/ AdvanceNext(g) \/ AdvanceEnter(g)
             \/ QueueTask(g) \/ QueueMap(g) \/ QueueTotal(g) \/ DevTask(g) \/ DevDep(g) \/ DevMap(g)
             \/ ApproveRead(g) \/ ApproveGate(g) \/ ApproveResume(g)
      PROVE  FALSE
  BY <1>3 DEF AdvanceLeave, AdvanceNext, AdvanceEnter, QueueTask, QueueMap, QueueTotal, DevTask,
              DevDep, DevMap, ApproveRead, ApproveGate, ApproveResume, At, PlanInv, ReachedOK, Unreached
<1>4. ASSUME NEW g \in Calls, workflow # "none",
             \/ StartWorkflow(g) \/ Activate(g) \/ MapTask(g) \/ RunPhase(g) \/ Advance(g)
             \/ CompleteUpdate(g) \/ Count(g) \/ ReadTotal(g) \/ ReadCompleted(g) \/ ClosePhase(g)
             \/ QueueRead(g) \/ QueueTask(g) \/ QueueMap(g) \/ QueueTotal(g)
             \/ GatePass(g) \/ GateFail(g) \/ Requeue(g)
             \/ ReviewPass(g) \/ TestTaskNew(g) \/ TestTaskMap(g) \/ TestTaskTotal(g)
             \/ ApproveRead(g) \/ ApproveGate(g) \/ ApproveResume(g)
      PROVE  PlanInv'
  <2>1. ~StartWorkflow(g) BY <1>4 DEF StartWorkflow
  <2>2. CASE ReadTotal(g)
    BY <2>2, CallsBegin
  <2>3. QED
    BY <1>3, <1>4, <2>1, <2>2, CountersMove, TasksMove, TasksBegin, PerDevFirst, MapAndPlan
    DEF Activate, Advance
<1>5. ASSUME NEW g \in Calls, NEW t \in DOMAIN tasks,
             \/ ReviewRead(g, t)
             \/ \E a \in Agents, v \in {"done", "pass", "fail"} : CompleteRead(g, a, t, v)
      PROVE  PlanInv'
  BY <1>5, CallsBegin
<1>6. CASE \/ Reject \/ DeleteWorkflow
           \/ \E t \in DOMAIN tasks : \/ Progress(t) \/ SendBack(t) \/ Deploy(t)
                                      \/ \E a \in Agents : Claim(a, t)
  BY <1>6, WholeCalls
<1>7. CASE Restart
  <2>1. \A g \in Calls : call'[g].pc = "idle"
    BY <1>7, IdleOK DEF Restart
  <2>2. StartingOK' /\ ReachedOK' /\ MappingOK'
    BY <2>1 DEF StartingOK, ReachedOK, MappingOK, Starting, Unreached, Mapping
  <2>3. TotalsOK' BY <1>7 DEF Restart, TotalsOK
  <2>4. QED BY <2>2, <2>3 DEF PlanInv
<1>8. CASE workflow # "none" /\ Next
  BY <1>4, <1>5, <1>6, <1>7, <1>8 DEF Next
<1>9. QED BY <1>1, <1>2, <1>8

-----------------------------------------------------------------------------
(* The theorem *)

(* Totals match, for this code (its reads of phases fail, see PhaseScans) and *)
(* for any number of handlers: however the statements of StartWorkflow, of    *)
(* activatePhase and of CreateWorkflowTestTask interleave with each other and *)
(* with deletions, when none is in flight each phase plans for exactly the    *)
(* tasks mapped to it.  Without restarts: one between the INSERT of a mapping *)
(* and the UPDATE of total_tasks loses the number for good.                   *)
THEOREM PlanMatches ==
  ASSUME ~PhaseScans, "restart" \notin Operations
  PROVE  Spec => []TotalsMatch
<1>1. Init => FlowInv /\ PlanInv
  BY InitFlow, InitPlan
<1>2. (FlowInv /\ PlanInv) /\ [Next]_vars => (FlowInv /\ PlanInv)'
  BY StepFlow, StepPlan
<1>3. FlowInv /\ PlanInv => TotalsMatch
  <2> SUFFICES ASSUME FlowInv, PlanInv, Quiet, NEW i \in DOMAIN phases
               PROVE  phases[i].total = Cardinality(Mapped(i))
    BY DEF TotalsMatch
  <2>1. Planning(i) = {} BY IdleOK DEF Quiet, Free, Planning, Owing
  <2>2. phases[i].total \in Nat BY DEF FlowInv, PhasesOK, PhaseRow
  <2>3. QED BY <2>1, <2>2, FS_EmptySet DEF PlanInv, TotalsOK
<1>4. QED BY <1>1, <1>2, <1>3, PTL DEF Spec

-----------------------------------------------------------------------------
(* Completed phases stay completed *)

Judging == {"complete.pass", "complete.fail", "passed", "failed", "requeue"}

\* While the workflow starts, its first phase plans for nothing, so no other
\* handler finds it complete.
BuiltOK ==
  \A g, h \in Calls : call[g].pc \in Starting /\ 1 \in DOMAIN phases =>
    /\ phases[1].status # "completed"
    /\ call[h].i = 1 => call[h].pc # "close" /\ (call[h].pc = "counted" => call[h].n = 0)

UnjudgedOK == \A g \in Calls : call[g].pc \notin Judging

\* advanceWorkflow never leaves a phase.
NoneLeft == WithStatus("complete") = {}

BuiltInv == BuiltOK /\ UnjudgedOK /\ NoneLeft

\* The statements that make phase j completed.
Completes(h, j) ==
  \/ /\ ActivatePerDev(h) \/ ActivateDecision(h) \/ AdvanceLeave(h) \/ ClosePhase(h)
     /\ call[h].i = j
  \/ GatePass(h)

LEMMA CompletedBy ==
  ASSUME FlowInv, [Next]_vars, workflow # "none", NEW j \in DOMAIN phases, j \in DOMAIN phases',
         NEW done \in {"completed", "complete"},
         phases'[j].status = done, phases[j].status # done
  PROVE  \E h \in Calls : IF done = "completed" THEN Completes(h, j) ELSE AdvanceNext(h)
<1> DEFINE Goal == \E h \in Calls : IF done = "completed" THEN Completes(h, j) ELSE AdvanceNext(h)
<1> SUFFICES Goal OBVIOUS
<1>0. PhasesOK BY DEF FlowInv
<1>1. ASSUME phases' = phases \/ \E i, n : phases' = CountUp(i) \/ phases' = Plan(i, n) PROVE FALSE
  <2>1. ASSUME NEW i, NEW n, phases' = CountUp(i) \/ phases' = Plan(i, n) PROVE FALSE
    <3>1. CountUp(i)[j].status = phases[j].status /\ Plan(i, n)[j].status = phases[j].status
      BY <1>0, StatusKept
    <3>2. QED BY <2>1, <3>1
  <2>2. QED BY <1>1, <2>1
<1>2. ASSUME NEW i, NEW s, phases' = SetStatus(i, s) PROVE i = j /\ s = done
  <2>1. SetStatus(i, s)[j].status = IF j = i THEN s ELSE phases[j].status
    BY <1>0, StatusSet
  <2>2. QED BY <1>2, <2>1
<1>3. ASSUME NEW h \in Calls,
             ActivatePerDev(h) \/ ActivateDecision(h) \/ AdvanceLeave(h) \/ ClosePhase(h)
      PROVE  Goal
  <2>1. CASE \E s \in {"running", "completed"} : phases' = SetStatus(call[h].i, s)
    BY <1>2, <1>3, <2>1 DEF Completes
  <2>2. CASE ActivatePerDev(h)
    <3>1. CASE phases' = phases BY <1>1, <3>1
    <3>2. CASE call[h].i \in DOMAIN phases
               /\ phases' = Update(call[h].i, [phases[call[h].i] EXCEPT !.status = "completed", !.total = 0])
      <4> DEFINE row == [phases[call[h].i] EXCEPT !.status = "completed", !.total = 0]
      <4>1. row.status = "completed" BY <3>2 DEF FlowInv, PhasesOK, PhaseRow
      <4>2. phases' = Update(call[h].i, row) BY <3>2
      <4> HIDE DEF row
      <4>3. call[h].i = j /\ done = "completed" BY <4>1, <4>2, UpdateAt
      <4>4. QED BY <1>3, <4>3 DEF Completes
    <3>3. QED BY <2>1, <2>2, <3>1, <3>2 DEF ActivatePerDev
  <2>3. QED BY <1>3, <2>1, <2>2 DEF ActivateDecision, AdvanceLeave, ClosePhase
<1>4. ASSUME NEW h \in Calls, GatePass(h) \/ AdvanceNext(h) PROVE Goal
  <2>1. CASE phases' = phases BY <1>1, <2>1
  <2>2. CASE phases' # phases
    <3>1. \E i : phases' = SetStatus(i, IF GatePass(h) THEN "completed" ELSE "complete")
      BY <1>4, <2>2 DEF GatePass, AdvanceNext
    <3>2. done = IF GatePass(h) THEN "completed" ELSE "complete" BY <1>2, <3>1
    <3>3. QED BY <1>4, <3>2 DEF Completes
  <2>3. QED BY <2>1, <2>2
<1>5. ASSUME NEW h \in Calls,
             ActivatePlain(h) \/ AdvanceEnter(h) \/ ApproveGate(h) \/ GateFail(h)
      PROVE  FALSE
  <2>1. phases' = phases
        \/ \E i : \E s \in {"running", "waiting_approval", "active"} : phases' = SetStatus(i, s)
    BY <1>5 DEF ActivatePlain, AdvanceEnter, ApproveGate, GateFail
  <2>2. QED BY <1>1, <1>2, <2>1
<1>6. ASSUME NEW h \in Calls, RunPhase(h) PROVE FALSE
  <2> DEFINE row == [phases[call[h].i] EXCEPT !.status = "running", !.total = call[h].n]
  <2>1. CASE call[h].i \in DOMAIN phases
    <3>1. row.status = "running" BY <2>1 DEF FlowInv, PhasesOK, PhaseRow
    <3>2. phases' = Update(call[h].i, row) BY <1>6, <2>1 DEF RunPhase
    <3> HIDE DEF row
    <3>3. QED BY <3>1, <3>2, UpdateAt
  <2>2. CASE call[h].i \notin DOMAIN phases BY <1>1, <1>6, <2>2 DEF RunPhase
  <2>3. QED BY <2>1, <2>2
<1>7. ASSUME NEW h \in Calls,
             \/ ActivateTask(h) \/ MapTask(h) \/ AdvanceRead(h) \/ ReadTotal(h) \/ ReadCompleted(h)
             \/ QueueRead(h) \/ QueueTask(h) \/ QueueMap(h) \/ DevTask(h) \/ DevDep(h) \/ DevMap(h)
             \/ Requeue(h) \/ ReviewPass(h) \/ TestTaskNew(h) \/ TestTaskMap(h)
             \/ ApproveRead(h) \/ ApproveResume(h)
             \/ \E t \in DOMAIN tasks :
                  \/ ReviewRead(h, t)
                  \/ \E a \in Agents, v \in {"done", "pass", "fail"} : CompleteRead(h, a, t, v)
      PROVE  FALSE
  <2>1. phases' = phases
    BY <1>7
    DEF ActivateTask, MapTask, AdvanceRead, ReadTotal, ReadCompleted, QueueRead, QueueTask, QueueMap,
        DevTask, DevDep, DevMap, Requeue,
        ReviewPass, TestTaskNew, TestTaskMap, ApproveRead, ApproveResume, ReviewRead, CompleteRead
  <2>2. QED BY <1>1, <2>1
<1>8. ASSUME NEW h \in Calls, CompleteUpdate(h) \/ Count(h) \/ QueueTotal(h) \/ TestTaskTotal(h)
      PROVE  FALSE
  <2>1. phases' = phases \/ \E i, n : phases' = CountUp(i) \/ phases' = Plan(i, n)
    <3>1. CASE CompleteUpdate(h) \/ Count(h) BY <3>1 DEF CompleteUpdate, Count, Finish
    <3>2. CASE QueueTotal(h) \/ TestTaskTotal(h)
      <4>1. \E n : phases' = Plan(call[h].i, n) BY <3>2 DEF QueueTotal, TestTaskTotal
      <4>2. QED BY <4>1
    <3>3. QED BY <1>8, <3>1, <3>2
  <2>2. QED BY <1>1, <2>1
<1>9. ASSUME Reject PROVE FALSE
  <2>1. [phases[j] EXCEPT !.status = "cancelled"].status = "cancelled"
    BY DEF FlowInv, PhasesOK, PhaseRow
  <2>2. QED BY <1>9, <2>1 DEF Reject
<1>10. ~DeleteWorkflow BY EmptySeq DEF DeleteWorkflow
<1>11. ASSUME NEW t \in DOMAIN tasks,
              Progress(t) \/ SendBack(t) \/ Deploy(t) \/ \E a \in Agents : Claim(a, t)
       PROVE  FALSE
  BY <1>1, <1>11 DEF Progress, SendBack, Deploy, Claim, Finish
<1>12. ~Restart /\ ~UNCHANGED vars
  BY <1>1 DEF Restart, vars
<1>13. \A h \in Calls : ~StartWorkflow(h) BY DEF StartWorkflow
<1>14. QED
  <2> HIDE DEF Goal
  <2>1. ASSUME NEW h \in Calls,
               \/ StartWorkflow(h) \/ Activate(h) \/ MapTask(h) \/ RunPhase(h) \/ Advance(h)
               \/ CompleteUpdate(h) \/ Count(h) \/ ReadTotal(h) \/ ReadCompleted(h) \/ ClosePhase(h)
               \/ QueueRead(h) \/ QueueTask(h) \/ QueueMap(h) \/ QueueTotal(h)
               \/ GatePass(h) \/ GateFail(h) \/ Requeue(h)
               \/ ReviewPass(h) \/ TestTaskNew(h) \/ TestTaskMap(h) \/ TestTaskTotal(h)
               \/ ApproveRead(h) \/ ApproveGate(h) \/ ApproveResume(h)
        PROVE  Goal
    BY <2>1, <1>3, <1>4, <1>5, <1>6, <1>7, <1>8, <1>13 DEF Activate, Advance
  <2>2. ASSUME NEW h \in Calls, NEW t \in DOMAIN tasks,
               \/ ReviewRead(h, t)
               \/ \E a \in Agents, v \in {"done", "pass", "fail"} : CompleteRead(h, a, t, v)
        PROVE  FALSE
    BY <1>7, <2>2
  <2>3. QED BY <1>9, <1>10, <1>11, <1>12, <2>1, <2>2 DEF Next

\* The statements that count towards a phase, and those of a gate's verdict.
Counting == {"counted", "close"}

LEMMA CountSteps ==
  ASSUME FlowInv, [Next]_vars, workflow # "none", "decide" \notin Operations, NEW g \in Calls
  PROVE  \/ call'[g] = call[g]
         \/ call'[g].pc \notin Counting \cup Judging
         \/ /\ call'[g].pc = "counted" /\ call'[g].i = call[g].i
            /\ call'[g].n = IF call[g].i \in DOMAIN phases THEN phases[call[g].i].total ELSE 0
         \/ /\ call[g].pc = "counted" /\ call[g].n > 0
            /\ call'[g].pc = "close" /\ call'[g].i = call[g].i
         \/ call[g].pc \in Judging
<1> DEFINE Goal ==
      \/ call'[g] = call[g]
      \/ call'[g].pc \notin Counting \cup Judging
      \/ /\ call'[g].pc = "counted" /\ call'[g].i = call[g].i
         /\ call'[g].n = IF call[g].i \in DOMAIN phases THEN phases[call[g].i].total ELSE 0
      \/ /\ call[g].pc = "counted" /\ call[g].n > 0
         /\ call'[g].pc = "close" /\ call'[g].i = call[g].i
      \/ call[g].pc \in Judging
<1> SUFFICES Goal OBVIOUS
<1>0. call \in [Calls -> Request] /\ call[g] \in Request
  BY DEF FlowInv, CallsOK
<1>1. ASSUME NEW h \in Calls, Return(h) PROVE Goal
  <2>1. call'[g] = call[g] \/ call'[g] = Idle BY <1>1, CallAfter
  <2>2. QED BY <2>1, IdleOK DEF Counting, Judging
<1>2. ASSUME NEW h \in Calls, NEW p, NEW i, p \notin Counting \cup Judging,
             Goto(h, p) \/ GotoPhase(h, p, i)
      PROVE  Goal
  <2>1. call'[g] = call[g] \/ call'[g].pc = p BY <1>2, CallAfter
  <2>2. QED BY <1>2, <2>1
<1>3. ASSUME NEW h \in Calls, ReadTotal(h) PROVE Goal
  <2> DEFINE n == IF call[h].i \in DOMAIN phases THEN phases[call[h].i].total ELSE 0
             r == [call[h] EXCEPT !.pc = "counted", !.n = n]
  <2>1. call' = [call EXCEPT ![h] = r] BY <1>0, <1>3 DEF ReadTotal
  <2>2. call[h] \in Request BY <1>0
  <2>3. r.pc = "counted" /\ r.i = call[h].i /\ r.n = n BY <2>2 DEF Request
  <2> HIDE DEF r
  <2>4. call'[g] = IF g = h THEN r ELSE call[g] BY <1>0, <2>1
  <2>5. QED BY <2>3, <2>4
<1>4. ASSUME NEW h \in Calls, ReadCompleted(h) PROVE Goal
  <2>1. CASE Return(h) BY <1>1, <2>1
  <2>2. CASE Goto(h, "close") /\ call[h].n > 0 /\ call[h].pc = "counted"
    <3>1. \/ call'[g] = call[g]
          \/ g = h /\ call'[g].pc = "close" /\ call'[g].i = call[g].i
      BY <2>2, CallAfter
    <3>2. QED BY <2>2, <3>1
  <2>3. QED BY <1>4, <2>1, <2>2 DEF ReadCompleted, At
<1>5. ASSUME NEW h \in Calls, call[h].pc \in Judging,
             \/ GatePass(h) \/ Requeue(h) \/ GateFail(h)
      PROVE  Goal
  <2>1. CASE g = h BY <1>5, <2>1
  <2>2. CASE g # h
    <3>1. call'[g] = call[g]
      BY <1>0, <1>5, <2>2 DEF GatePass, Requeue, GateFail, Return, Goto, GotoPhase
    <3>2. QED BY <3>1
  <2>3. QED BY <2>1, <2>2
<1>6. ASSUME NEW h \in Calls,
             RunPhase(h) \/ ActivatePlain(h) \/ ActivateDecision(h) \/ AdvanceRead(h) \/ AdvanceLeave(h)
             \/ AdvanceNext(h) \/ AdvanceEnter(h) \/ Count(h) \/ ClosePhase(h) \/ QueueTotal(h)
      PROVE  Goal
  <2> DEFINE P == {"advance", "leave", "next", "enter", "activate", "totals", "queue"}
  <2>1. \A p \in P : p \notin Counting \cup Judging BY DEF Counting, Judging
  <2>2. Return(h) \/ \E p \in P : Goto(h, p) \/ \E i : GotoPhase(h, p, i)
    <3>1. CASE RunPhase(h) \/ ActivatePlain(h) \/ ActivateDecision(h) \/ AdvanceRead(h) \/ AdvanceLeave(h)
      BY <3>1 DEF RunPhase, ActivatePlain, ActivateDecision, AdvanceRead, AdvanceLeave
    <3>2. CASE AdvanceNext(h) \/ AdvanceEnter(h) \/ Count(h) \/ ClosePhase(h) \/ QueueTotal(h)
      BY <3>2 DEF AdvanceNext, AdvanceEnter, Count, ClosePhase, QueueTotal
    <3>3. QED BY <1>6, <3>1, <3>2
  <2> HIDE DEF P
  <2>3. QED BY <1>1, <1>2, <2>1, <2>2
<1>7. ASSUME NEW h \in Calls,
             ReviewPass(h) \/ TestTaskMap(h) \/ TestTaskTotal(h) \/ ApproveGate(h) \/ ApproveResume(h)
      PROVE  Goal
  <2> DEFINE P == {"advance", "test.task", "test.total", "resume"}
  <2>1. \A p \in P : p \notin Counting \cup Judging BY DEF Counting, Judging
  <2>2. Return(h) \/ \E p \in P : Goto(h, p)
    BY <1>7 DEF ReviewPass, TestTaskMap, TestTaskTotal, ApproveGate, ApproveResume
  <2> HIDE DEF P
  <2>3. QED BY <1>1, <1>2, <2>1, <2>2
<1>8. ASSUME NEW h \in Calls, CompleteUpdate(h) PROVE Goal
  <2>1. PICK v \in DOMAIN Completing : At(h, Completing[v]) /\ Goto(h, Calling[v])
    BY <1>8 DEF CompleteUpdate
  <2>2. CASE v = "done"
    <3>1. Goto(h, "count") BY <2>1, <2>2 DEF Calling
    <3>2. "count" \notin Counting \cup Judging BY DEF Counting, Judging
    <3>3. QED BY <1>2, <3>1, <3>2
  <2>3. CASE v # "done"
    <3>1. call[h].pc \in Judging BY <2>1, <2>3 DEF Completing, Judging, At
    <3>2. g # h => call'[g] = call[g] BY <1>0, <2>1 DEF Goto
    <3>3. QED BY <3>1, <3>2
  <2>4. QED BY <2>2, <2>3
<1>9. ASSUME NEW h \in Calls,
             \/ ActivateTask(h) \/ MapTask(h) \/ ActivatePerDev(h) \/ DevTask(h) \/ DevDep(h) \/ DevMap(h)
             \/ QueueRead(h) \/ QueueTask(h) \/ QueueMap(h) \/ TestTaskNew(h)
      PROVE  Goal
  <2>1. call'[g] = call[g] \/ call'[g] = Idle
        \/ call'[g].pc \in {"map", "run", "dev.task", "dev.dep", "dev.map", "queue.task", "queue.map",
                            "advance", "test.map"}
    <3>1. CASE ActivateTask(h) \/ MapTask(h) \/ ActivatePerDev(h) \/ DevTask(h)
      BY <1>0, <3>1 DEF ActivateTask, MapTask, ActivatePerDev, DevTask, Return, Request
    <3>2. CASE QueueRead(h) \/ TestTaskNew(h) \/ QueueMap(h) \/ DevMap(h)
      BY <1>0, <3>2 DEF QueueRead, TestTaskNew, QueueMap, DevMap, Return, Goto, Request
    <3>3. CASE DevDep(h) \/ QueueTask(h)
      <4>1. ASSUME DevDep(h) PROVE call'[h].pc = "dev.map" /\ (g # h => call'[g] = call[g])
        BY <1>0, <4>1 DEF DevDep, Request
      <4>2. ASSUME QueueTask(h)
            PROVE  /\ call'[h].pc \in {"queue.map", "queue.task"}
                   /\ g # h => call'[g] = call[g]
        <5>1. call[h].pc = "queue.task" BY <4>2 DEF QueueTask, At
        <5>2. QED BY <1>0, <4>2, <5>1 DEF QueueTask, Request
      <4>3. QED BY <3>3, <4>1, <4>2
    <3>4. QED BY <1>9, <3>1, <3>2, <3>3
  <2>2. QED BY <2>1, IdleOK DEF Counting, Judging
<1>10. ASSUME NEW h \in Calls, NEW t \in DOMAIN tasks,
              \/ ReviewRead(h, t)
              \/ \E a \in Agents, v \in {"done", "pass", "fail"} : CompleteRead(h, a, t, v)
       PROVE  Goal
  <2>1. CASE ReviewRead(h, t)
    <3>1. call'[g] = call[g] \/ call'[g].pc = "review"
      BY <1>0, <2>1 DEF ReviewRead, Idle
    <3>2. QED BY <3>1 DEF Counting, Judging
  <2>2. ASSUME NEW a \in Agents, NEW v \in {"done", "pass", "fail"}, CompleteRead(h, a, t, v)
        PROVE  Goal
    <3>1. v = "done" BY <2>2 DEF CompleteRead
    <3>2. call'[g] = call[g] \/ call'[g].pc = "complete.done"
      BY <1>0, <2>2, <3>1 DEF CompleteRead, Idle, Completing
    <3>3. QED BY <3>2 DEF Counting, Judging
  <2>3. QED BY <1>10, <2>1, <2>2
<1>11. ASSUME NEW h \in Calls, ApproveRead(h) PROVE Goal
  <2>1. call'[g] = call[g] \/ call'[g].pc = "approve"
    BY <1>0, <1>11 DEF ApproveRead, Idle
  <2>2. QED BY <2>1 DEF Counting, Judging
<1>12. ASSUME NEW t \in DOMAIN tasks,
              Progress(t) \/ SendBack(t) \/ Deploy(t) \/ \E a \in Agents : Claim(a, t)
       PROVE  Goal
  BY <1>12 DEF Progress, SendBack, Deploy, Claim
<1>13. ASSUME Reject \/ DeleteWorkflow \/ UNCHANGED vars PROVE Goal
  BY <1>13 DEF Reject, DeleteWorkflow, vars
<1>14. ASSUME Restart PROVE Goal
  BY <1>14, IdleOK DEF Restart, Counting, Judging
<1>15. \A h \in Calls : ~StartWorkflow(h)
  BY DEF StartWorkflow
<1>16. QED
  <2> HIDE DEF Goal
  <2>1. ASSUME NEW h \in Calls, GatePass(h) \/ Requeue(h) \/ GateFail(h)
        PROVE  Goal
    <3>1. call[h].pc \in Judging BY <2>1 DEF GatePass, Requeue, GateFail, At, Judging
    <3>2. QED BY <1>5, <2>1, <3>1
  <2>2. ASSUME NEW h \in Calls,
               \/ StartWorkflow(h) \/ Activate(h) \/ MapTask(h) \/ RunPhase(h) \/ Advance(h)
               \/ CompleteUpdate(h) \/ Count(h) \/ ReadTotal(h) \/ ReadCompleted(h) \/ ClosePhase(h)
               \/ QueueRead(h) \/ QueueTask(h) \/ QueueMap(h) \/ QueueTotal(h)
               \/ GatePass(h) \/ GateFail(h) \/ Requeue(h)
               \/ ReviewPass(h) \/ TestTaskNew(h) \/ TestTaskMap(h) \/ TestTaskTotal(h)
               \/ ApproveRead(h) \/ ApproveGate(h) \/ ApproveResume(h)
        PROVE  Goal
    BY <2>1, <2>2, <1>3, <1>4, <1>6, <1>7, <1>8, <1>9, <1>11, <1>15 DEF Activate, Advance
  <2>3. CASE \E t \in DOMAIN tasks : \/ Progress(t) \/ SendBack(t) \/ Deploy(t)
                                      \/ \E a \in Agents : Claim(a, t)
    BY <2>3, <1>12
  <2>4. CASE Next
    BY <2>2, <2>3, <2>4, <1>10, <1>13, <1>14 DEF Next
  <2>5. QED BY <1>13, <2>4

LEMMA StepNoneLeft ==
  ASSUME ~PhaseScans, FlowInv, PlanInv, NoneLeft, Next
  PROVE  NoneLeft'
<1> SUFFICES ASSUME NEW j \in DOMAIN phases', phases'[j].status = "complete" PROVE FALSE
  BY DEF NoneLeft, WithStatus
<1>1. workflow # "none"
  <2>1. ASSUME NEW h \in Calls, StartWorkflow(h) PROVE FALSE
    BY <2>1 DEF StartWorkflow
  <2>2. QED BY <2>1, FreshStep
<1>2. j \in DOMAIN phases /\ phases[j].status # "complete"
  BY <1>1, StatusChanges DEF NoneLeft, WithStatus
<1>3. PICK h \in Calls : AdvanceNext(h) BY <1>1, <1>2, CompletedBy
<1>4. QED BY <1>3 DEF AdvanceNext, At, PlanInv, ReachedOK, Unreached

LEMMA StepBuilt ==
  ASSUME ~PhaseScans, "decide" \notin Operations, FlowInv, PlanInv, BuiltInv, [Next]_vars
  PROVE  BuiltInv'
<1>1. CASE UNCHANGED vars
  BY <1>1 DEF vars, BuiltInv, BuiltOK, UnjudgedOK, NoneLeft, WithStatus
<1>2. CASE workflow = "none" /\ Next
  <2>1. PICK h \in Calls : StartWorkflow(h) BY <1>2, FreshStep
  <2>2. ASSUME NEW g \in Calls PROVE call'[g].pc \in {"idle", "activate"}
    <3>1. call'[g] = IF g = h THEN [Idle EXCEPT !.pc = "activate", !.i = 1] ELSE Idle
      BY <1>2, <2>1 DEF StartWorkflow, FlowInv, FreshOK, CallsOK, Free
    <3>2. QED BY <3>1 DEF Idle
  <2>3. /\ 1 \in DOMAIN phases' => phases'[1].status = "active"
        /\ \A j \in DOMAIN phases' : phases'[j].status # "complete"
    BY <2>1 DEF StartWorkflow
  <2>4. QED BY <2>2, <2>3 DEF BuiltInv, BuiltOK, UnjudgedOK, NoneLeft, WithStatus, Judging
<1>3. CASE workflow # "none" /\ Next
  <2>0. call \in [Calls -> Request] BY DEF FlowInv, CallsOK
  <2>1. UnjudgedOK'
    BY <1>3, CountSteps DEF BuiltInv, UnjudgedOK, Counting, Judging
  <2>2. ASSUME NEW g \in Calls, call'[g].pc \in Starting
        PROVE  call[g].pc \in Starting /\ call[g].i = 1
    <3>1. ~AdvanceEnter(g) /\ ~AdvanceNext(g) /\ call[g].pc # "approve"
         /\ call[g].pc \notin {"dev.task", "dev.dep", "dev.map"}
      BY DEF AdvanceEnter, AdvanceNext, At, PlanInv, ReachedOK, Unreached
    <3>2. call[g].pc \in Starting
      BY <1>3, <2>2, <3>1, CallSteps DEF Starting, Opening
    <3>3. QED BY <3>2 DEF PlanInv, StartingOK
  <2>3. ASSUME NEW g \in Calls, NEW h \in Calls, call'[g].pc \in Starting, 1 \in DOMAIN phases'
        PROVE  /\ phases'[1].status # "completed"
               /\ call'[h].i = 1 => /\ call'[h].pc # "close"
                                    /\ call'[h].pc = "counted" => call'[h].n = 0
    <3>1. 1 \in DOMAIN phases BY <1>3, <2>3, StatusChanges
    <3>2. /\ phases[1].status # "completed" /\ phases[1].total = 0
          /\ \A k \in Calls : call[k].i = 1 => /\ call[k].pc # "close"
                                               /\ call[k].pc = "counted" => call[k].n = 0
      BY <2>2, <2>3, <3>1 DEF BuiltInv, BuiltOK, PlanInv, StartingOK
    <3>3. phases'[1].status # "completed"
      <4>1. SUFFICES ASSUME phases'[1].status = "completed" PROVE FALSE
        OBVIOUS
      <4>2. PICK k \in Calls : Completes(k, 1)
        BY <1>3, <2>3, <3>1, <3>2, <4>1, CompletedBy
      <4>3. CASE ActivatePerDev(k) \/ ActivateDecision(k)
        <5>1. call[k].pc \in Starting BY <4>3 DEF ActivatePerDev, ActivateDecision, At, Starting
        <5>2. k = g BY <2>2, <2>3, <5>1 DEF PlanInv, StartingOK
        <5>3. call[k].i = 1 BY <5>1 DEF PlanInv, StartingOK
        <5>4. Return(k) \/ Goto(k, "advance")
          BY <4>3, <5>3 DEF ActivatePerDev, ActivateDecision
        <5>5. call'[k].pc \in {"idle", "advance"}
          BY <2>0, <5>4, IdleOK DEF Return, Goto, Request
        <5>6. QED BY <2>3, <5>2, <5>5 DEF Starting
      <4>4. CASE AdvanceLeave(k)
        BY <4>4 DEF AdvanceLeave, At, PlanInv, ReachedOK, Unreached
      <4>5. CASE ClosePhase(k) /\ call[k].i = 1
        BY <3>2, <4>5 DEF ClosePhase, At
      <4>6. CASE GatePass(k)
        BY <4>6 DEF GatePass, At, BuiltInv, UnjudgedOK, Judging
      <4>7. QED BY <4>2, <4>3, <4>4, <4>5, <4>6 DEF Completes
    <3>4. ASSUME call'[h].i = 1
          PROVE  /\ call'[h].pc # "close"
                 /\ call'[h].pc = "counted" => call'[h].n = 0
      <4>1. CASE call'[h] = call[h] BY <3>2, <3>4, <4>1
      <4>2. CASE call'[h].pc \notin Counting \cup Judging
        BY <4>2 DEF Counting
      <4>3. CASE /\ call'[h].pc = "counted" /\ call'[h].i = call[h].i
                 /\ call'[h].n = IF call[h].i \in DOMAIN phases THEN phases[call[h].i].total ELSE 0
        BY <3>1, <3>2, <3>4, <4>3
      <4>4. CASE /\ call[h].pc = "counted" /\ call[h].n > 0
                 /\ call'[h].pc = "close" /\ call'[h].i = call[h].i
        BY <3>2, <3>4, <4>4
      <4>5. CASE call[h].pc \in Judging
        BY <4>5 DEF BuiltInv, UnjudgedOK
      <4>6. QED BY <1>3, <4>1, <4>2, <4>3, <4>4, <4>5, CountSteps
    <3>5. QED BY <3>3, <3>4
  <2>4. BuiltOK' BY <2>3 DEF BuiltOK
  <2>5. NoneLeft' BY <1>3, StepNoneLeft DEF BuiltInv
  <2>6. QED BY <2>1, <2>4, <2>5 DEF BuiltInv
<1>4. QED BY <1>1, <1>2, <1>3

(* Completed phases stay, for this code (its reads of phases fail), any       *)
(* number of handlers, and deletions, rejections and restarts among their     *)
(* statements: no late statement of StartWorkflow or of another completion    *)
(* makes a completed phase active or running again.  Without gate decisions:  *)
(* one passed for a task of the first phase, before StartWorkflow has written *)
(* the phase as running, completes it too early.                              *)
THEOREM CompletedPhasesStay ==
  ASSUME ~PhaseScans, "decide" \notin Operations
  PROVE  Spec => CompletedStays
<1> DEFINE Inv   == FlowInv /\ PlanInv /\ BuiltInv
           Stays == \A i \in DOMAIN phases' \cap Completed :
                      \/ phases'[i].status \in {"completed", "complete"}
                      \/ \E g \in Calls : call'[g].pc = "requeue" /\ call'[g].i = i
<1>1. Init => Inv
  <2> SUFFICES ASSUME Init PROVE BuiltInv
    BY InitFlow, InitPlan
  <2>1. DOMAIN phases = {} /\ \A g \in Calls : call[g].pc = "idle" BY IdleOK, EmptySeq DEF Init
  <2>2. QED BY <2>1 DEF BuiltInv, BuiltOK, UnjudgedOK, NoneLeft, WithStatus, Starting, Judging
<1>2. Inv /\ [Next]_vars => Inv'
  BY StepFlow, StepPlan, StepBuilt
<1>3. Inv /\ [Next]_vars => [Stays]_vars
  <2> SUFFICES ASSUME Inv, [Next]_vars, NEW i \in DOMAIN phases' \cap Completed
               PROVE  \/ phases'[i].status \in {"completed", "complete"}
                      \/ \E g \in Calls : call'[g].pc = "requeue" /\ call'[g].i = i
    OBVIOUS
  <2>1. i \in DOMAIN phases /\ phases[i].status = "completed" /\ workflow # "none"
    BY Started DEF Completed, WithStatus, BuiltInv, NoneLeft
  <2>2. ASSUME NEW g \in Calls, Opens(g), call[g].i = i PROVE FALSE
    <3>1. call[g].pc \in Starting
      BY <2>2 DEF Opens, RunPhase, ActivatePerDev, ActivatePlain, AdvanceEnter, ApproveGate, At,
                  Starting, PlanInv, ReachedOK, Unreached
    <3>2. QED BY <2>1, <2>2, <3>1 DEF PlanInv, StartingOK, BuiltInv, BuiltOK
  <2>3. QED BY <2>1, <2>2, StatusChanges
<1>4. QED BY <1>1, <1>2, <1>3, PTL DEF Spec, CompletedStays
=============================================================================
