------------------------- MODULE PollingWorkerProofs -------------------------
(***************************************************************************)
(* Proofs about PollingWorker, for every fleet of worker bridges and       *)
(* polling workers, every choice of what may be killed, signalled or lost, *)
(* and all bounds and timeouts.                                            *)
(*                                                                         *)
(* Many calls share few effects on the rows of tasks, so RowSteps sorts    *)
(* the steps by that effect first; what is proved about the rows then      *)
(* goes over the effects.                                                  *)
(***************************************************************************)
EXTENDS PollingWorker, TLAPS

-----------------------------------------------------------------------------
(* The invariant *)

RowType == [status: {"available", "claimed", "in_progress", "done", "failed",
                     "escalated", "orphaned"},
            assignee: Bridges \cup {None}, retry: 0..MaxRetries,
            claimed: 0..ClaimTimeout, updated: 0..ProgressTimeout]

\* From its poll to its report, a bridge or worker has a task at hand.
JobOK == \A b \in Bridges : AtWork(b) \/ pc[b] = "claim" => job[b] \in Tasks

\* A task that is worked on is somebody's.
HolderOK == \A t \in Tasks : row[t].status \in Active => row[t].assignee \in Bridges

FleetInv == TypeOK /\ JobOK /\ HolderOK

LEMMA ZeroTicks == 0 \in 0..ClaimTimeout /\ 0 \in 0..ProgressTimeout
BY WorkerBridgeAssumption

LEMMA OneMoreWithin ==
  ASSUME NEW bound \in Nat, NEW n \in 0..bound
  PROVE  AtMost(n + 1, bound) \in 0..bound
BY DEF AtMost

-----------------------------------------------------------------------------
(* The steps, by what they do to the tasks *)

LEMMA RowSteps ==
  ASSUME FleetInv, [FleetNext]_vars
  PROVE  \/ row' = row
         \/ \E b \in Bridges : Progress(b) /\ job[b] \in Tasks
         \/ \E b \in Bridges : pc[b] = "claim" /\ Claimable(job[b]) /\ Claim(b, job[b])
         \/ \E b \in Bridges : /\ pc[b] = "report" /\ Complete(b, job[b], Outcome(b))
                              /\ pc'[b] = "idle"
         \/ \E t \in Tasks : StaleSweep(t)
         \/ \E b \in Bridges : HealthDead(b)
         \/ FleetTick
<1> DEFINE Effect ==
      \/ row' = row
      \/ \E b \in Bridges : Progress(b) /\ job[b] \in Tasks
      \/ \E b \in Bridges : pc[b] = "claim" /\ Claimable(job[b]) /\ Claim(b, job[b])
      \/ \E b \in Bridges : /\ pc[b] = "report" /\ Complete(b, job[b], Outcome(b))
                           /\ pc'[b] = "idle"
      \/ \E t \in Tasks : StaleSweep(t)
      \/ \E b \in Bridges : HealthDead(b)
      \/ FleetTick
<1> SUFFICES Effect OBVIOUS
<1>1. ASSUME NEW b \in Bridges,
             SendHeartbeat(b) \/ PollQueue(b) \/ Start(b) \/ Die(b) \/ HealthWarn(b) \/ WorkerBeats(b)
             \/ WorkerReturns(b) \/ WorkerStops(b) \/ WorkerStarts(b)
      PROVE  Effect
  <2>1. row' = row
    BY <1>1 DEF SendHeartbeat, PollQueue, Start, Die, HealthWarn, WorkerBeats, WorkerReturns,
                WorkerStops, WorkerStarts, Beat, server
  <2>2. QED BY <2>1
<1>2. ASSUME NEW b \in Bridges, ClaimTask(b) \/ WorkerClaims(b) PROVE Effect
  <2>1. row' = row \/ (pc[b] = "claim" /\ Claimable(job[b]) /\ Claim(b, job[b]))
    BY <1>2 DEF ClaimTask, WorkerClaims, server
  <2>2. QED BY <2>1
<1>3. ASSUME NEW b \in Bridges, StartAgent(b) \/ AgentReturns(b) \/ VerifyBuild(b) PROVE Effect
  <2>1. job[b] \in Tasks
    BY <1>3 DEF StartAgent, AgentReturns, VerifyBuild, FleetInv, JobOK, AtWork
  <2>2. row' = row \/ Progress(b)
    BY <1>3 DEF StartAgent, AgentReturns, VerifyBuild, TryProgress, server
  <2>3. QED BY <2>1, <2>2
<1>4. ASSUME NEW b \in Bridges, ReportResult(b) PROVE Effect
  <2>1. row' = row \/ (pc[b] = "report" /\ Complete(b, job[b], Outcome(b)))
    BY <1>4 DEF ReportResult, server
  <2>2. pc'[b] = "idle"
    BY <1>4 DEF ReportResult, Drop, Goto, FleetInv, TypeOK
  <2>3. QED BY <2>1, <2>2
<1>5. CASE FleetTick
  BY <1>5
<1>6. CASE UNCHANGED vars
  BY <1>6 DEF vars, server
<1>7. Workers \subseteq Bridges BY PollingWorkerAssumption
<1>8. QED
  <2> HIDE DEF Effect
  <2>1. ASSUME NEW b \in Bridges, BridgeStep(b) PROVE Effect
    BY <1>1, <1>2, <1>3, <1>4, <2>1 DEF BridgeStep
  <2>2. ASSUME NEW w \in Workers, WorkerStep(w) \/ WorkerStops(w) \/ WorkerStarts(w) PROVE Effect
    BY <1>1, <1>2, <1>3, <1>4, <1>7, <2>2 DEF WorkerStep, WorkerPolls, WorkerBegins, WorkerReports
  <2>3. ASSUME (\E b \in Bridges : HealthDead(b)) \/ \E t \in Tasks : StaleSweep(t) PROVE Effect
    BY <2>3 DEF Effect
  <2>4. ASSUME FleetTick \/ UNCHANGED vars PROVE Effect
    BY <2>4, <1>5, <1>6 DEF Effect
  <2>5. QED BY <1>1, <2>1, <2>2, <2>3, <2>4 DEF FleetNext


\* Every effect leaves one row for each task.
LEMMA RowDomain ==
  ASSUME FleetInv, [FleetNext]_vars
  PROVE  row' = [u \in Tasks |-> row'[u]]
<1>0. row = [u \in Tasks |-> row[u]]
  BY DEF FleetInv, TypeOK
<1>1. ASSUME NEW b \in Bridges, Progress(b) PROVE row' = [u \in Tasks |-> row'[u]]
  BY <1>0, <1>1 DEF Progress
<1>2. ASSUME NEW b \in Bridges, Claim(b, job[b]) PROVE row' = [u \in Tasks |-> row'[u]]
  BY <1>0, <1>2 DEF Claim
<1>3. ASSUME NEW b \in Bridges, Complete(b, job[b], Outcome(b)) PROVE row' = [u \in Tasks |-> row'[u]]
  BY <1>0, <1>3 DEF Complete, server
<1>4. ASSUME NEW t \in Tasks, StaleSweep(t) PROVE row' = [u \in Tasks |-> row'[u]]
  BY <1>0, <1>4 DEF StaleSweep
<1>5. ASSUME NEW b \in Bridges, HealthDead(b) PROVE row' = [u \in Tasks |-> row'[u]]
  BY <1>5 DEF HealthDead
<1>6. ASSUME FleetTick PROVE row' = [u \in Tasks |-> row'[u]]
  BY <1>6 DEF FleetTick, Elapse
<1>7. QED BY <1>0, <1>1, <1>2, <1>3, <1>4, <1>5, <1>6, RowSteps

\* The health monitor takes the tasks of the dead agent and no others.
LEMMA RowsOfDead ==
  ASSUME FleetInv, NEW b \in Bridges, HealthDead(b), NEW t \in Tasks
  PROVE  \/ row'[t] = row[t]
         \/ /\ row[t].assignee = b /\ row'[t] \in RowType
            /\ row'[t].status \in {"available", "orphaned"}
<1>0. row \in [Tasks -> RowType] /\ row[t] \in RowType
  BY DEF FleetInv, TypeOK, RowType
<1> DEFINE lost == row[t].assignee = b /\ row[t].status \notin {"done", "available"}
           r(c) == [row[t] EXCEPT !.status = "available", !.assignee = c,
                                  !.retry = AtMost(@ + 1, MaxRetries)]
           o == [row[t] EXCEPT !.status = "orphaned"]
<1>1. \E c \in Bridges \cup {None} :
        row'[t] = IF ~lost THEN row[t] ELSE IF c = None THEN o ELSE r(c)
  <2>1. (IF Backups(b) = {} THEN {None} ELSE Backups(b)) \subseteq Bridges \cup {None}
    BY DEF Backups
  <2>2. QED BY <2>1 DEF HealthDead
<1>2. ASSUME NEW c \in Bridges \cup {None} PROVE r(c) \in RowType /\ r(c).status = "available"
  <2>1. AtMost(row[t].retry + 1, MaxRetries) \in 0..MaxRetries
    BY <1>0, OneMoreWithin, WorkerBridgeAssumption DEF RowType
  <2>2. QED BY <1>0, <2>1 DEF RowType
<1>3. o \in RowType /\ o.status = "orphaned" BY <1>0 DEF RowType
<1> HIDE DEF r, o
<1>4. QED BY <1>1, <1>2, <1>3

\* What each effect does to one task.
LEMMA RowChanges ==
  ASSUME FleetInv, [FleetNext]_vars, NEW t \in Tasks
  PROVE  /\ row'[t] \in RowType
         /\ \/ row'[t].status = row[t].status /\ row'[t].assignee = row[t].assignee
            \/ /\ row[t].status \in Active /\ row'[t].status = "in_progress"
               /\ row'[t].assignee = row[t].assignee
            \/ /\ row'[t].status = "claimed"
               /\ \E b \in Bridges : /\ row'[t].assignee = b /\ pc[b] = "claim" /\ job[b] = t
                                     /\ Claimable(t) /\ Claim(b, t)
            \/ /\ row[t].status \in Active /\ row'[t].status \in {"done", "failed", "escalated"}
               /\ \E b \in Bridges :
                    /\ pc[b] = "report" /\ job[b] = t
                    /\ row'[t].status = "done" => row[t].assignee = b /\ success[b]
            \/ row[t].status \in Active /\ row'[t].status \in {"available", "escalated"}
            \/ row'[t].status \in {"available", "orphaned"}
<1> DEFINE Change ==
      /\ row'[t] \in RowType
      /\ \/ row'[t].status = row[t].status /\ row'[t].assignee = row[t].assignee
         \/ /\ row[t].status \in Active /\ row'[t].status = "in_progress"
            /\ row'[t].assignee = row[t].assignee
         \/ /\ row'[t].status = "claimed"
            /\ \E b \in Bridges : /\ row'[t].assignee = b /\ pc[b] = "claim" /\ job[b] = t
                                  /\ Claimable(t) /\ Claim(b, t)
         \/ /\ row[t].status \in Active /\ row'[t].status \in {"done", "failed", "escalated"}
            /\ \E b \in Bridges :
                 /\ pc[b] = "report" /\ job[b] = t
                 /\ row'[t].status = "done" => row[t].assignee = b /\ success[b]
         \/ row[t].status \in Active /\ row'[t].status \in {"available", "escalated"}
         \/ row'[t].status \in {"available", "orphaned"}
<1> SUFFICES Change OBVIOUS
<1>0. row \in [Tasks -> RowType] /\ row[t] \in RowType
  BY DEF FleetInv, TypeOK, RowType
<1>1. CASE row' = row
  BY <1>0, <1>1
<1>2. ASSUME NEW b \in Bridges, Progress(b), job[b] \in Tasks PROVE Change
  <2> DEFINE r == [row[t] EXCEPT !.status = "in_progress", !.updated = 0]
  <2>1. r \in RowType BY <1>0, ZeroTicks DEF RowType
  <2>2. r.status = "in_progress" /\ r.assignee = row[t].assignee BY <1>0 DEF RowType
  <2>3. row'[t] = row[t] \/ (row'[t] = r /\ row[t].status \in Active)
    BY <1>0, <1>2 DEF Progress
  <2> HIDE DEF r
  <2>4. QED BY <1>0, <2>1, <2>2, <2>3
<1>3. ASSUME NEW b \in Bridges, pc[b] = "claim", Claimable(job[b]), Claim(b, job[b]) PROVE Change
  <2> DEFINE r == [row[t] EXCEPT !.status = "claimed", !.assignee = b, !.claimed = 0, !.updated = 0]
  <2>1. r \in RowType BY <1>0, ZeroTicks DEF RowType
  <2>2. r.status = "claimed" /\ r.assignee = b BY <1>0 DEF RowType
  <2>3. row'[t] = IF t = job[b] THEN r ELSE row[t]
    BY <1>0, <1>3 DEF Claim
  <2> HIDE DEF r
  <2>4. CASE t = job[b]
    <3>1. row'[t].status = "claimed" /\ row'[t].assignee = b /\ Claimable(t) /\ Claim(b, t)
      BY <1>3, <2>2, <2>3, <2>4
    <3>2. QED BY <1>3, <2>1, <2>3, <2>4, <3>1
  <2>5. QED BY <1>0, <2>3, <2>4
<1>4. ASSUME NEW b \in Bridges, pc[b] = "report", Complete(b, job[b], Outcome(b)) PROVE Change
  <2> DEFINE r == IF row[t].assignee = b
                  THEN [row[t] EXCEPT !.status = Outcome(b), !.assignee = None, !.updated = 0]
                  ELSE row[t]
             e == [r EXCEPT !.status = "escalated"]
  <2>1. Outcome(b) \in {"done", "failed"} /\ (Outcome(b) = "done" => success[b])
    BY DEF Outcome
  <2>2. r \in RowType
    BY <1>0, <2>1, ZeroTicks DEF RowType
  <2>3. \/ r = row[t]
        \/ r.status = Outcome(b) /\ row[t].assignee = b
    BY <1>0, <2>1 DEF RowType
  <2>4. \/ row'[t] = row[t]
        \/ t = job[b] /\ row[t].status \in Active /\ row'[t] \in {r, e}
    BY <1>0, <1>4 DEF Complete, server
  <2> HIDE DEF r
  <2>5. e \in RowType BY <2>2 DEF RowType
  <2>6. e.status = "escalated" BY <2>2 DEF RowType
  <2> HIDE DEF e
  <2>7. CASE row'[t] = row[t]
    BY <1>0, <2>4, <2>7
  <2>8. CASE t = job[b] /\ row[t].status \in Active /\ row'[t] = r /\ r # row[t]
    <3>1. row'[t].status = Outcome(b) /\ row[t].assignee = b
      BY <2>3, <2>8
    <3>2. QED BY <1>4, <2>1, <2>2, <2>4, <2>8, <3>1
  <2>9. CASE t = job[b] /\ row[t].status \in Active /\ row'[t] = e
    BY <1>4, <2>4, <2>5, <2>6, <2>9
  <2>10. QED BY <2>4, <2>7, <2>8, <2>9
<1>5. ASSUME NEW u \in Tasks, StaleSweep(u) PROVE Change
  <2> DEFINE r == [row[t] EXCEPT !.status = "available", !.assignee = None, !.retry = @ + 1, !.updated = 0]
             e == [row[t] EXCEPT !.status = "escalated", !.updated = 0]
  <2>1. ASSUME row[t].retry < MaxRetries PROVE r \in RowType
    <3>1. row[t].retry + 1 \in 0..MaxRetries BY <1>0, <2>1, WorkerBridgeAssumption DEF RowType
    <3>2. QED BY <1>0, <3>1, ZeroTicks DEF RowType
  <2>2. e \in RowType BY <1>0, ZeroTicks DEF RowType
  <2>3. r.status = "available" /\ e.status = "escalated" BY <1>0 DEF RowType
  <2>4. CASE t # u
    <3>1. row'[t] = row[t] BY <1>0, <1>5, <2>4 DEF StaleSweep
    <3>2. QED BY <1>0, <3>1
  <2>5. CASE t = u
    <3>1. row[t].status \in Active BY <1>5, <2>5 DEF StaleSweep
    <3>2. (row[t].retry < MaxRetries /\ row'[t] = r) \/ row'[t] = e
      BY <1>0, <1>5, <2>5 DEF StaleSweep
    <3> HIDE DEF r, e
    <3>3. QED BY <2>1, <2>2, <2>3, <3>1, <3>2
  <2>6. QED BY <2>4, <2>5
<1>6. ASSUME NEW b \in Bridges, HealthDead(b) PROVE Change
  BY <1>0, <1>6, RowsOfDead
<1>7. ASSUME FleetTick PROVE Change
  <2> DEFINE r == [row[t] EXCEPT !.claimed = AtMost(@ + 1, ClaimTimeout),
                                 !.updated = AtMost(@ + 1, ProgressTimeout)]
  <2>1. r \in RowType
    <3>1. /\ AtMost(row[t].claimed + 1, ClaimTimeout) \in 0..ClaimTimeout
          /\ AtMost(row[t].updated + 1, ProgressTimeout) \in 0..ProgressTimeout
      BY <1>0, OneMoreWithin, WorkerBridgeAssumption DEF RowType
    <3>2. QED BY <1>0, <3>1 DEF RowType
  <2>2. r.status = row[t].status /\ r.assignee = row[t].assignee BY <1>0 DEF RowType
  <2>3. row'[t] = r
    BY <1>7 DEF FleetTick, Elapse
  <2> HIDE DEF r
  <2>4. QED BY <2>1, <2>2, <2>3
<1>8. QED
  <2> HIDE DEF Change
  <2>1. ASSUME row' = row PROVE Change
    <3>1. Change BY <1>0, <2>1 DEF Change
    <3>2. QED BY <3>1
  <2>2. QED BY <1>2, <1>3, <1>4, <1>5, <1>6, <1>7, <2>1, RowSteps

-----------------------------------------------------------------------------
(* The invariant, step by step *)

LEMMA FleetInitial == Init => FleetInv
<1> SUFFICES ASSUME Init PROVE FleetInv OBVIOUS
<1>1. /\ MaxRetries \in Nat /\ AgentTimeout + BuildTime \in Nat /\ DeadAfter \in Nat
      /\ 0 \in 0..MaxRetries /\ 0 \in 0..(AgentTimeout + BuildTime) /\ 0 \in 0..DeadAfter
  BY WorkerBridgeAssumption
<1>2. TypeOK BY <1>1, ZeroTicks DEF Init, TypeOK
<1>3. JobOK BY DEF Init, JobOK, AtWork
<1>4. HolderOK BY DEF Init, HolderOK, Active
<1>5. QED BY <1>2, <1>3, <1>4 DEF FleetInv

\* Who works has a job: it took the job with its poll and drops it with its report.
LEMMA JobStep ==
  ASSUME FleetInv, [FleetNext]_vars
  PROVE  /\ pc' \in [Bridges -> {"idle", "poll", "claim", "start", "agent", "build", "report", "down"}]
         /\ job' \in [Bridges -> Tasks \cup {None}]
         /\ JobOK'
<1> DEFINE Typed == /\ pc' \in [Bridges -> {"idle", "poll", "claim", "start", "agent", "build",
                                            "report", "down"}]
                    /\ job' \in [Bridges -> Tasks \cup {None}]
                    /\ JobOK'
<1> SUFFICES Typed OBVIOUS
<1>0. /\ pc \in [Bridges -> {"idle", "poll", "claim", "start", "agent", "build", "report", "down"}]
      /\ job \in [Bridges -> Tasks \cup {None}]
      /\ \A b \in Bridges : AtWork(b) \/ pc[b] = "claim" => job[b] \in Tasks
  BY DEF FleetInv, TypeOK, JobOK
<1>1. ASSUME NEW b \in Bridges, PollQueue(b) PROVE Typed
  <2>1. CASE Goto(b, "idle") /\ UNCHANGED job
    BY <1>0, <2>1 DEF Goto, JobOK, AtWork
  <2>2. CASE \E t \in Queue(b) : Goto(b, "claim") /\ job' = [job EXCEPT ![b] = t]
    BY <1>0, <2>2 DEF Goto, JobOK, AtWork, Queue
  <2>3. QED BY <1>1, <2>1, <2>2 DEF PollQueue
<1>2. ASSUME NEW b \in Bridges, ClaimTask(b) \/ WorkerClaims(b) PROVE Typed
  <2>1. CASE pc[b] = "claim" /\ Goto(b, "start") /\ UNCHANGED job
    BY <1>0, <2>1 DEF Goto, JobOK, AtWork
  <2>2. CASE Drop(b)
    BY <1>0, <2>2 DEF Drop, Goto, JobOK, AtWork
  <2>3. QED BY <1>2, <2>1, <2>2 DEF ClaimTask, WorkerClaims
<1>3. ASSUME NEW b \in Bridges, StartAgent(b) \/ AgentReturns(b) \/ VerifyBuild(b) \/ WorkerReturns(b)
      PROVE  Typed
  <2>1. /\ AtWork(b)
        /\ job' = job /\ \E at \in {"agent", "build", "report"} : Goto(b, at)
    BY <1>3 DEF StartAgent, AgentReturns, VerifyBuild, WorkerReturns, AtWork
  <2>2. QED BY <1>0, <2>1 DEF Goto, JobOK, AtWork
<1>4. ASSUME NEW b \in Bridges, ReportResult(b) \/ Die(b) PROVE Typed
  <2>1. /\ job' = [job EXCEPT ![b] = None]
        /\ \E at \in {"idle", "down"} : Goto(b, at)
    BY <1>4 DEF ReportResult, Drop, Die, Goto
  <2>2. QED BY <1>0, <2>1 DEF Goto, JobOK, AtWork
<1>5. ASSUME NEW b \in Bridges,
             SendHeartbeat(b) \/ Start(b) \/ WorkerBeats(b) \/ WorkerStops(b) \/ WorkerStarts(b)
      PROVE  Typed
  <2>1. job' = job /\ \E at \in {"poll", "idle", "down"} : Goto(b, at)
    BY <1>5 DEF SendHeartbeat, Start, WorkerBeats, WorkerStops, WorkerStarts
  <2>2. QED BY <1>0, <2>1 DEF Goto, JobOK, AtWork
<1>6. ASSUME pc' = pc /\ job' = job PROVE Typed
  BY <1>0, <1>6 DEF JobOK, AtWork
<1>7. Workers \subseteq Bridges BY PollingWorkerAssumption
<1>8. QED
  <2> HIDE DEF Typed
  <2>1. ASSUME NEW b \in Bridges, BridgeStep(b) PROVE Typed
    BY <1>1, <1>2, <1>3, <1>4, <1>5, <2>1 DEF BridgeStep
  <2>2. ASSUME NEW w \in Workers, WorkerStep(w) \/ WorkerStops(w) \/ WorkerStarts(w) PROVE Typed
    BY <1>1, <1>2, <1>3, <1>4, <1>5, <1>7, <2>2
    DEF WorkerStep, WorkerPolls, WorkerBegins, WorkerReports
  <2>3. ASSUME NEW b \in Bridges, HealthWarn(b) \/ HealthDead(b) PROVE Typed
    BY <1>6, <2>3 DEF HealthWarn, HealthDead, bridges
  <2>4. ASSUME NEW t \in Tasks, StaleSweep(t) PROVE Typed
    BY <1>6, <2>4 DEF StaleSweep, bridges
  <2>5. ASSUME FleetTick \/ UNCHANGED vars PROVE Typed
    BY <1>6, <2>5 DEF FleetTick, Elapse, vars, bridges
  <2>6. QED BY <1>4, <1>5, <2>1, <2>2, <2>3, <2>4, <2>5 DEF FleetNext

\* What the server counts and remembers of the agents.
LEMMA AgentsStep ==
  ASSUME FleetInv, [FleetNext]_vars
  PROVE  /\ load' \in [Bridges -> Nat]
         /\ presence' \in [Bridges -> {"idle", "working", "stopping", "warning", "dead"}]
         /\ silence' \in [Bridges -> 0..DeadAfter]
<1> DEFINE Typed == /\ load' \in [Bridges -> Nat]
                    /\ presence' \in [Bridges -> {"idle", "working", "stopping", "warning", "dead"}]
                    /\ silence' \in [Bridges -> 0..DeadAfter]
<1> SUFFICES Typed OBVIOUS
<1>0. /\ load \in [Bridges -> Nat]
      /\ presence \in [Bridges -> {"idle", "working", "stopping", "warning", "dead"}]
      /\ silence \in [Bridges -> 0..DeadAfter]
      /\ DeadAfter \in Nat /\ 0 \in 0..DeadAfter
  BY WorkerBridgeAssumption DEF FleetInv, TypeOK
<1>1. ASSUME UNCHANGED agents PROVE Typed
  BY <1>0, <1>1 DEF agents
<1>2. ASSUME UNCHANGED server PROVE Typed
  BY <1>0, <1>2 DEF server
<1>3. ASSUME NEW b \in Bridges, NEW s \in {"idle", "working", "stopping"},
             load' = [load EXCEPT ![b] = 0], presence' = [presence EXCEPT ![b] = s],
             silence' = [silence EXCEPT ![b] = 0]
      PROVE  Typed
  BY <1>0, <1>3
<1>4. ASSUME NEW b \in Bridges, NEW t, Claim(b, t) PROVE Typed
  <2>1. load[b] + 1 \in Nat BY <1>0
  <2>2. QED BY <1>0, <1>4, <2>1 DEF Claim
<1>5. ASSUME NEW b, load' = [load EXCEPT ![b] = Decrement(@)], UNCHANGED <<presence, silence>>
      PROVE  Typed
  <2>1. CASE b \in Bridges
    <3>1. Decrement(load[b]) \in Nat BY <1>0, <2>1 DEF Decrement
    <3>2. QED BY <1>0, <1>5, <3>1
  <2>2. CASE b \notin Bridges
    <3>1. load' = load BY <1>0, <1>5, <2>2
    <3>2. QED BY <1>0, <1>5, <3>1
  <2>3. QED BY <2>1, <2>2
<1>6. ASSUME NEW S \in SUBSET Bridges, Elapse(S) PROVE Typed
  <2>1. \A b \in Bridges : AtMost(silence[b] + 1, DeadAfter) \in 0..DeadAfter
    BY <1>0, OneMoreWithin
  <2>2. silence' \in [Bridges -> 0..DeadAfter]
    BY <1>0, <1>6, <2>1 DEF Elapse
  <2>3. QED BY <1>0, <1>6, <2>2 DEF Elapse
<1> HIDE DEF Typed
<1>7. ASSUME NEW b \in Bridges, NEW s \in {"working", "stopping"}, Beat(b, s) PROVE Typed
  BY <1>2, <1>3, <1>7 DEF Beat
<1>8. ASSUME NEW b \in Bridges, BridgeStep(b) \/ WorkerStep(b) \/ WorkerStops(b) \/ WorkerStarts(b)
      PROVE  Typed
  <2>1. ASSUME SendHeartbeat(b) PROVE Typed
    BY <1>2, <1>3, <2>1 DEF SendHeartbeat
  <2>2. ASSUME PollQueue(b) \/ WorkerReturns(b) PROVE Typed
    BY <1>2, <2>2 DEF PollQueue, WorkerReturns, server
  <2>3. ASSUME ClaimTask(b) \/ WorkerClaims(b) PROVE Typed
    BY <1>2, <1>4, <2>3 DEF ClaimTask, WorkerClaims
  <2>4. ASSUME StartAgent(b) \/ AgentReturns(b) \/ VerifyBuild(b) PROVE Typed
    BY <1>1, <1>2, <2>4 DEF StartAgent, AgentReturns, VerifyBuild, TryProgress, Progress
  <2>5. ASSUME ReportResult(b) PROVE Typed
    <3>1. ASSUME Complete(b, job[b], Outcome(b)) PROVE Typed
      BY <1>2, <1>5, <3>1 DEF Complete
    <3>2. QED BY <1>2, <2>5, <3>1 DEF ReportResult
  <2>6. ASSUME WorkerBeats(b) \/ WorkerStops(b) \/ WorkerStarts(b) PROVE Typed
    BY <1>2, <1>7, <2>6 DEF WorkerBeats, WorkerStops, WorkerStarts
  <2>7. QED BY <1>8, <2>1, <2>2, <2>3, <2>4, <2>5, <2>6
            DEF BridgeStep, WorkerStep, WorkerPolls, WorkerBegins, WorkerReports
<1>9. ASSUME NEW b \in Bridges, Start(b) \/ Die(b) PROVE Typed
  BY <1>2, <1>9 DEF Start, Die, server
<1>10. ASSUME NEW b \in Bridges, HealthWarn(b) \/ HealthDead(b) PROVE Typed
  BY <1>0, <1>10 DEF HealthWarn, HealthDead, Typed
<1>11. ASSUME NEW t \in Tasks, StaleSweep(t) PROVE Typed
  <2>1. load' = load \/ load' = [load EXCEPT ![row[t].assignee] = Decrement(@)]
    BY <1>11 DEF StaleSweep
  <2>2. UNCHANGED <<presence, silence>>
    BY <1>11 DEF StaleSweep
  <2>3. QED BY <1>1, <1>5, <2>1, <2>2 DEF agents
<1>12. ASSUME FleetTick PROVE Typed
  BY <1>6, <1>12 DEF FleetTick
<1>13. ASSUME UNCHANGED vars PROVE Typed
  BY <1>2, <1>13 DEF vars
<1>14. Workers \subseteq Bridges BY PollingWorkerAssumption
<1>15. QED BY <1>8, <1>9, <1>10, <1>11, <1>12, <1>13, <1>14 DEF FleetNext

\* What the bridges and workers remember of their agent runs: a tick passes only
\* while every run is within its limit.
LEMMA RunsStep ==
  ASSUME FleetInv, [FleetNext]_vars
  PROVE  /\ success' \in [Bridges -> BOOLEAN]
         /\ elapsed' \in [Bridges -> 0..(AgentTimeout + BuildTime)]
<1> DEFINE Limit == AgentTimeout + BuildTime
<1>0. /\ success \in [Bridges -> BOOLEAN]
      /\ elapsed \in [Bridges -> 0..Limit]
      /\ Limit \in Nat /\ 0 \in 0..Limit
      /\ Workers \subseteq Bridges
  BY WorkerBridgeAssumption, PollingWorkerAssumption DEF FleetInv, TypeOK
<1>1. success' \in [Bridges -> BOOLEAN]
  <2>1. \/ success' = success
        \/ \E b \in Bridges, ok \in BOOLEAN : success' = [success EXCEPT ![b] = ok]
    <3>1. ASSUME NEW b \in Bridges, BridgeStep(b)
          PROVE  success' = success \/ \E ok \in BOOLEAN : success' = [success EXCEPT ![b] = ok]
      BY <3>1 DEF BridgeStep, SendHeartbeat, PollQueue, ClaimTask, StartAgent, AgentReturns,
                  VerifyBuild, ReportResult
    <3>2. ASSUME NEW w \in Workers, WorkerStep(w) \/ WorkerStops(w) \/ WorkerStarts(w)
          PROVE  success' = success \/ \E ok \in BOOLEAN : success' = [success EXCEPT ![w] = ok]
      BY <3>2 DEF WorkerStep, WorkerBeats, WorkerPolls, PollQueue, WorkerClaims, WorkerBegins,
                  StartAgent, WorkerReturns, WorkerReports, ReportResult, WorkerStops, WorkerStarts
    <3>3. ASSUME NEW b \in Bridges, Start(b) \/ Die(b) \/ HealthWarn(b) \/ HealthDead(b)
          PROVE  success' = success \/ \E ok \in BOOLEAN : success' = [success EXCEPT ![b] = ok]
      BY <3>3 DEF Start, Die, HealthWarn, HealthDead, bridges
    <3>4. ASSUME (\E t \in Tasks : StaleSweep(t)) \/ FleetTick \/ UNCHANGED vars
          PROVE  success' = success
      BY <3>4 DEF StaleSweep, FleetTick, Elapse, vars, bridges
    <3>5. QED BY <1>0, <3>1, <3>2, <3>3, <3>4 DEF FleetNext
  <2>2. QED BY <1>0, <2>1
<1>2. elapsed' \in [Bridges -> 0..Limit]
  <2>1. ASSUME FleetTick PROVE elapsed' \in [Bridges -> 0..Limit]
    <3>1. ASSUME NEW b \in Bridges, pc[b] \in {"agent", "build"} PROVE elapsed[b] + 1 \in 0..Limit
      <4>1. elapsed[b] < AgentTimeout \/ elapsed[b] < BuildTime
        BY <2>1, <3>1 DEF FleetTick, Waiting
      <4>2. QED BY <1>0, <4>1, WorkerBridgeAssumption
    <3> HIDE DEF Limit
    <3>2. QED BY <1>0, <2>1, <3>1 DEF FleetTick, Elapse
  <2>2. ASSUME ~FleetTick
        PROVE  elapsed' = elapsed \/ \E b \in Bridges : elapsed' = [elapsed EXCEPT ![b] = 0]
    <3>1. ASSUME NEW b \in Bridges, BridgeStep(b)
          PROVE  elapsed' = elapsed \/ elapsed' = [elapsed EXCEPT ![b] = 0]
      BY <3>1 DEF BridgeStep, SendHeartbeat, PollQueue, ClaimTask, StartAgent, AgentReturns,
                  VerifyBuild, ReportResult
    <3>2. ASSUME NEW w \in Workers, WorkerStep(w) \/ WorkerStops(w) \/ WorkerStarts(w)
          PROVE  elapsed' = elapsed \/ elapsed' = [elapsed EXCEPT ![w] = 0]
      BY <3>2 DEF WorkerStep, WorkerBeats, WorkerPolls, PollQueue, WorkerClaims, WorkerBegins,
                  StartAgent, WorkerReturns, WorkerReports, ReportResult, WorkerStops, WorkerStarts
    <3>3. ASSUME NEW b \in Bridges, Start(b) \/ Die(b) \/ HealthWarn(b) \/ HealthDead(b)
          PROVE  elapsed' = elapsed \/ elapsed' = [elapsed EXCEPT ![b] = 0]
      BY <3>3 DEF Start, Die, HealthWarn, HealthDead, bridges
    <3>4. ASSUME (\E t \in Tasks : StaleSweep(t)) \/ UNCHANGED vars
          PROVE  elapsed' = elapsed
      BY <3>4 DEF StaleSweep, vars, bridges
    <3>5. QED BY <1>0, <2>2, <3>1, <3>2, <3>3, <3>4 DEF FleetNext
  <2> HIDE DEF Limit
  <2>3. QED BY <1>0, <2>1, <2>2
<1>3. QED BY <1>1, <1>2

LEMMA FleetStep == FleetInv /\ [FleetNext]_vars => FleetInv'
<1> SUFFICES ASSUME FleetInv, [FleetNext]_vars PROVE FleetInv' OBVIOUS
<1>1. row' \in [Tasks -> RowType]
  BY RowDomain, RowChanges
<1>2. HolderOK'
  <2>1. ASSUME NEW t \in Tasks, row'[t].status \in Active PROVE row'[t].assignee \in Bridges
    <3>1. row[t].status \in Active => row[t].assignee \in Bridges
      BY DEF FleetInv, HolderOK
    <3>2. QED BY <2>1, <3>1, RowChanges DEF Active
  <2>2. QED BY <2>1 DEF HolderOK
<1>3. TypeOK'
  BY <1>1, JobStep, AgentsStep, RunsStep DEF TypeOK, RowType
<1>4. QED BY <1>2, <1>3, JobStep DEF FleetInv

LEMMA FleetInvariance == FleetSpec => []FleetInv
BY FleetInitial, FleetStep, PTL DEF FleetSpec

(* Every task that is claimed or in progress names a process of the fleet,    *)
(* whatever monitors, refused claims and lost calls do to it, and a process   *)
(* past its poll has a task at hand until it reports or drops it.  The ranges *)
(* in TypeOK are the model's and say nothing of the code's counters.          *)
THEOREM FleetHeld == FleetSpec => [](TypeOK /\ JobOK /\ HolderOK)
<1>1. FleetInv => TypeOK /\ JobOK /\ HolderOK BY DEF FleetInv
<1>2. QED BY <1>1, FleetInvariance, PTL

-----------------------------------------------------------------------------
(* What follows for the tasks *)

(* A task becomes done only through the bridge or worker that the server      *)
(* holds responsible for it, after a successful run: refused claims, late     *)
(* reports, monitors and kills in any order deliver nothing                   *)
(* (WorkerBridge!DoneByHolder).                                               *)
THEOREM HoldersDeliver == FleetSpec => DoneByHolder
<1> DEFINE Delivery ==
      \A t \in Tasks :
        row[t].status # "done" /\ row'[t].status = "done" =>
          \E b \in Bridges : /\ pc[b] = "report" /\ job[b] = t /\ success[b]
                             /\ row[t].assignee = b
<1>1. FleetInv /\ [FleetNext]_vars => Delivery
  BY RowChanges DEF Active
<1>2. QED BY <1>1, FleetInvariance, PTL DEF FleetSpec, DoneByHolder

(* A task has one holder at a time: a claim is the only way to get a task and *)
(* nobody gets one that another holds, however many bridges work on a task    *)
(* they do not hold (WorkerBridge!OwnershipSpec).                             *)
THEOREM FleetImplementsOwnership == FleetSpec => OwnershipSpec
<1> DEFINE held == [t \in Tasks |-> IF row[t].status \in Active THEN row[t].assignee ELSE None]
<1>1. Init => Ownership!Init
  BY DEF Init, Ownership!Init, Active
<1>2. ASSUME FleetInv, [FleetNext]_vars PROVE [Ownership!Next]_held
  <2>1. ASSUME NEW b \in Bridges, NEW t \in Tasks, Claimable(t), Claim(b, t) PROVE Ownership!Acquire(t, b)
    <3>0. row \in [Tasks -> RowType] BY <1>2 DEF FleetInv, TypeOK, RowType
    <3>1. held[t] = None BY <2>1 DEF Claimable, Queued, Active
    <3>2. row'[t].status = "claimed" /\ row'[t].assignee = b
      BY <2>1, <3>0 DEF Claim, RowType
    <3>3. ASSUME NEW u \in Tasks, u # t PROVE row'[u] = row[u]
      BY <2>1, <3>0, <3>3 DEF Claim
    <3>4. ASSUME NEW u \in Tasks PROVE held'[u] = IF u = t THEN b ELSE held[u]
      BY <3>2, <3>3 DEF Active
    <3>5. held' = [held EXCEPT ![t] = b]
      BY <3>4
    <3>6. QED BY <3>1, <3>5 DEF Ownership!Acquire
  <2>2. ASSUME \A b \in Bridges, t \in Tasks : ~(Claimable(t) /\ Claim(b, t))
        PROVE  \E S \in SUBSET Tasks : Ownership!GiveBack(S)
    <3> DEFINE S == {t \in Tasks : held[t] # None /\ held'[t] = None}
    <3>1. ASSUME NEW t \in Tasks PROVE held'[t] \in {held[t], None}
      BY <1>2, <2>2, RowChanges DEF Active
    <3>2. ASSUME NEW t \in Tasks PROVE held'[t] = IF t \in S THEN None ELSE held[t]
      BY <3>1
    <3>3. held' = [t \in Tasks |-> held'[t]] OBVIOUS
    <3> HIDE DEF held
    <3>4. held' = [t \in Tasks |-> IF t \in S THEN None ELSE held[t]]
      BY <3>2, <3>3
    <3>5. S \in SUBSET Tasks /\ \A t \in S : held[t] # None OBVIOUS
    <3> HIDE DEF S
    <3>6. QED BY <3>4, <3>5 DEF Ownership!GiveBack, held
  <2>3. QED BY <2>1, <2>2 DEF Ownership!Next
<1>3. QED BY <1>1, <1>2, FleetInvariance, PTL DEF FleetSpec, OwnershipSpec, Ownership!Spec

-----------------------------------------------------------------------------
(* What workers can rely on *)

\* The ticks a worker's run has lasted at least since its claim.
Ran(w) == IF pc[w] = "agent" THEN elapsed[w]
          ELSE IF pc[w] = "report" THEN AgentTimeout ELSE 0

(* A worker at work holds its task, and the claim is not older than the run;  *)
(* so the stale monitor, which waits for more than a run, cannot release it.  *)
(* An escalated task keeps its assignee, so only the worker's own death takes *)
(* it away.                                                                   *)
KeptOK(w) ==
  \/ presence[w] = "dead"
  \/ row[job[w]].status = "escalated" /\ row[job[w]].assignee = w
  \/ /\ row[job[w]].status \in Active /\ row[job[w]].assignee = w
     /\ row[job[w]].claimed <= Ran(w)

WorkersInv ==
  \A w \in Workers : AtWork(w) =>
    /\ pc[w] # "build"
    /\ pc[w] = "agent" => elapsed[w] <= AgentTimeout
    /\ KeptOK(w)

\* How a worker gets from its claim to its report.
LEMMA WorkerMoves ==
  ASSUME FleetInv, [FleetNext]_vars, NEW w \in Workers, AtWork(w)'
  PROVE  /\ AtWork(w) => job'[w] = job[w] /\ (presence[w] = "dead" => presence'[w] = "dead")
         /\ \/ /\ pc[w] = "claim" /\ pc'[w] = "start" /\ job'[w] = job[w]
               /\ Claimable(job[w]) /\ Claim(w, job[w])
            \/ pc[w] = "start" /\ pc'[w] = "agent" /\ elapsed'[w] = 0
            \/ pc[w] = "agent" /\ pc'[w] = "report"
            \/ AtWork(w) /\ pc'[w] = pc[w] /\ elapsed'[w] = elapsed[w]
            \/ /\ FleetTick /\ pc[w] \in {"agent", "build"} /\ pc'[w] = pc[w]
               /\ pc[w] = "agent" => elapsed[w] < AgentTimeout /\ elapsed'[w] = elapsed[w] + 1
<1> DEFINE Moves ==
      /\ AtWork(w) => job'[w] = job[w] /\ (presence[w] = "dead" => presence'[w] = "dead")
      /\ \/ /\ pc[w] = "claim" /\ pc'[w] = "start" /\ job'[w] = job[w]
            /\ Claimable(job[w]) /\ Claim(w, job[w])
         \/ pc[w] = "start" /\ pc'[w] = "agent" /\ elapsed'[w] = 0
         \/ pc[w] = "agent" /\ pc'[w] = "report"
         \/ AtWork(w) /\ pc'[w] = pc[w] /\ elapsed'[w] = elapsed[w]
         \/ /\ FleetTick /\ pc[w] \in {"agent", "build"} /\ pc'[w] = pc[w]
            /\ pc[w] = "agent" => elapsed[w] < AgentTimeout /\ elapsed'[w] = elapsed[w] + 1
<1> SUFFICES Moves OBVIOUS
<1>0. /\ w \in Bridges
      /\ pc \in [Bridges -> {"idle", "poll", "claim", "start", "agent", "build", "report", "down"}]
      /\ job \in [Bridges -> Tasks \cup {None}]
      /\ elapsed \in [Bridges -> 0..(AgentTimeout + BuildTime)]
      /\ presence \in [Bridges -> {"idle", "working", "stopping", "warning", "dead"}]
      /\ pc'[w] \in {"start", "agent", "build", "report"}
  BY PollingWorkerAssumption DEF FleetInv, TypeOK, AtWork
<1>1. CASE WorkerClaims(w)
  <2>1. CASE Claimable(job[w]) /\ Claim(w, job[w]) /\ Goto(w, "start") /\ UNCHANGED job
    BY <1>0, <1>1, <2>1 DEF WorkerClaims, Goto, AtWork
  <2>2. CASE Drop(w)
    BY <1>0, <2>2 DEF Drop, Goto
  <2>3. QED BY <1>1, <2>1, <2>2 DEF WorkerClaims
<1>2. CASE StartAgent(w)
  <2>1. presence' = presence
    BY <1>2 DEF StartAgent, TryProgress, Progress, agents, server
  <2>2. QED BY <1>0, <1>2, <2>1 DEF StartAgent, Goto
<1>3. CASE WorkerReturns(w)
  BY <1>0, <1>3 DEF WorkerReturns, Goto, server
<1>4. CASE WorkerBeats(w) \/ PollQueue(w) \/ ReportResult(w) \/ WorkerStops(w) \/ WorkerStarts(w) \/ Die(w)
  <2>1. pc'[w] \in {"idle", "poll", "claim", "down"}
    BY <1>0, <1>4 DEF WorkerBeats, PollQueue, ReportResult, Drop, WorkerStops, WorkerStarts, Die, Goto
  <2>2. QED BY <1>0, <2>1
<1>5. ASSUME pc'[w] = pc[w], job'[w] = job[w], elapsed'[w] = elapsed[w],
             presence[w] = "dead" => presence'[w] = "dead"
      PROVE  Moves
  BY <1>0, <1>5 DEF AtWork
<1>6. ASSUME NEW b \in Bridges, b # w,
             BridgeStep(b) \/ WorkerStep(b) \/ WorkerStops(b) \/ WorkerStarts(b) \/ Start(b) \/ Die(b)
      PROVE  Moves
  <2>1. pc'[w] = pc[w] /\ job'[w] = job[w] /\ elapsed'[w] = elapsed[w]
    BY <1>0, <1>6
    DEF BridgeStep, WorkerStep, SendHeartbeat, PollQueue, ClaimTask, StartAgent, AgentReturns,
        VerifyBuild, ReportResult, WorkerBeats, WorkerPolls, WorkerClaims, WorkerBegins,
        WorkerReturns, WorkerReports, WorkerStops, WorkerStarts, Start, Die, Drop, Goto
  <2>2. presence'[w] = presence[w]
    BY <1>0, <1>6
    DEF BridgeStep, WorkerStep, SendHeartbeat, PollQueue, ClaimTask, StartAgent, AgentReturns,
        VerifyBuild, ReportResult, WorkerBeats, WorkerPolls, WorkerClaims, WorkerBegins,
        WorkerReturns, WorkerReports, WorkerStops, WorkerStarts, Start, Die, Beat, TryProgress,
        Progress, Claim, Complete, agents, server
  <2>3. QED BY <1>5, <2>1, <2>2
<1>7. ASSUME NEW b \in Bridges, HealthWarn(b) \/ HealthDead(b) PROVE Moves
  <2>1. presence[w] = "dead" => presence'[w] = "dead"
    BY <1>0, <1>7 DEF HealthWarn, HealthDead
  <2>2. UNCHANGED bridges BY <1>7 DEF HealthWarn, HealthDead
  <2>3. QED BY <1>5, <2>1, <2>2 DEF bridges
<1>8. ASSUME NEW t \in Tasks, StaleSweep(t) PROVE Moves
  BY <1>5, <1>8 DEF StaleSweep, bridges
<1>9. CASE FleetTick
  <2>1. /\ pc' = pc /\ job' = job /\ presence' = presence
        /\ elapsed'[w] = IF pc[w] \in {"agent", "build"} THEN elapsed[w] + 1 ELSE 0
    BY <1>0, <1>9 DEF FleetTick, Elapse
  <2>2. pc[w] \in {"agent", "build"} /\ (pc[w] = "agent" => elapsed[w] < AgentTimeout)
    BY <1>0, <1>9, <2>1 DEF FleetTick, Waiting
  <2>3. QED BY <1>9, <2>1, <2>2
<1>10. CASE UNCHANGED vars
  BY <1>5, <1>10 DEF vars, server, bridges
<1>11. QED
  <2> HIDE DEF Moves
  <2>1. ASSUME NEW b \in Bridges \ Workers, BridgeStep(b) \/ Start(b) PROVE Moves
    BY <1>6, <2>1
  <2>2. ASSUME NEW b \in Workers, WorkerStep(b) \/ WorkerStops(b) \/ WorkerStarts(b) PROVE Moves
    <3>1. CASE b # w
      BY <1>6, <2>2, <3>1, PollingWorkerAssumption
    <3>2. CASE b = w
      BY <1>1, <1>2, <1>3, <1>4, <2>2, <3>2 DEF WorkerStep, WorkerPolls, WorkerBegins, WorkerReports
    <3>3. QED BY <3>1, <3>2
  <2>3. ASSUME NEW b \in Bridges, Die(b) PROVE Moves
    BY <1>4, <1>6, <2>3
  <2>4. QED BY <1>7, <1>8, <1>9, <1>10, <2>1, <2>2, <2>3 DEF FleetNext

\* What the others, the monitors and time can do to the row of a task that w works on.
LEMMA RowKept ==
  ASSUME FleetInv, [FleetNext]_vars, NEW w \in Workers, NEW t \in Tasks, AtWork(w)',
         row[t].assignee = w,
         \/ row[t].status = "escalated"
         \/ row[t].status \in Active /\ row[t].claimed < ClaimTimeout
  PROVE  \/ presence'[w] = "dead"
         \/ row'[t].status = "escalated" /\ row'[t].assignee = w
         \/ /\ row[t].status \in Active /\ row'[t].status \in Active /\ row'[t].assignee = w
            /\ \/ row'[t].claimed = row[t].claimed
               \/ FleetTick /\ row'[t].claimed = row[t].claimed + 1
<1> DEFINE Kept ==
      \/ presence'[w] = "dead"
      \/ row'[t].status = "escalated" /\ row'[t].assignee = w
      \/ /\ row[t].status \in Active /\ row'[t].status \in Active /\ row'[t].assignee = w
         /\ \/ row'[t].claimed = row[t].claimed
            \/ FleetTick /\ row'[t].claimed = row[t].claimed + 1
<1> SUFFICES Kept OBVIOUS
<1>0. row \in [Tasks -> RowType] /\ row[t] \in RowType /\ w \in Bridges
  BY PollingWorkerAssumption DEF FleetInv, TypeOK, RowType
<1>1. ASSUME row'[t] = row[t] PROVE Kept
  BY <1>1
<1>2. ASSUME NEW b \in Bridges, Progress(b) PROVE Kept
  <2> DEFINE r == [row[t] EXCEPT !.status = "in_progress", !.updated = 0]
  <2>1. r.status = "in_progress" /\ r.assignee = row[t].assignee /\ r.claimed = row[t].claimed
    BY <1>0 DEF RowType
  <2>2. row'[t] = row[t] \/ (row'[t] = r /\ row[t].status \in Active)
    BY <1>0, <1>2 DEF Progress
  <2> HIDE DEF r
  <2>3. QED BY <1>1, <2>1, <2>2 DEF Active
<1>3. ASSUME NEW b \in Bridges, Claimable(job[b]), Claim(b, job[b]) PROVE Kept
  <2>1. job[b] # t BY <1>3 DEF Claimable, Queued, Active
  <2>2. row'[t] = row[t] BY <1>0, <1>3, <2>1 DEF Claim
  <2>3. QED BY <1>1, <2>2
<1>4. ASSUME NEW b \in Bridges, pc[b] = "report", Complete(b, job[b], Outcome(b)), pc'[b] = "idle"
      PROVE  Kept
  <2> DEFINE e == [row[t] EXCEPT !.status = "escalated"]
  <2>1. b # w BY <1>4 DEF AtWork
  <2>2. row'[t] \in {row[t], e}
    BY <1>0, <1>4, <2>1 DEF Complete, server
  <2>3. e.status = "escalated" /\ e.assignee = w
    BY <1>0 DEF RowType
  <2> HIDE DEF e
  <2>4. QED BY <1>1, <2>2, <2>3
<1>5. ASSUME NEW u \in Tasks, StaleSweep(u) PROVE Kept
  <2>1. u # t
    BY <1>0, <1>5, WorkerBridgeAssumption DEF StaleSweep, Active, RowType
  <2>2. row'[t] = row[t] BY <1>0, <1>5, <2>1 DEF StaleSweep
  <2>3. QED BY <1>1, <2>2
<1>6. ASSUME NEW b \in Bridges, HealthDead(b) PROVE Kept
  <2>1. CASE b = w
    <3>1. presence'[w] = "dead" BY <1>0, <1>6, <2>1 DEF HealthDead, FleetInv, TypeOK
    <3>2. QED BY <3>1
  <2>2. CASE b # w
    <3>1. row'[t] = row[t] BY <1>6, <2>2, RowsOfDead
    <3>2. QED BY <1>1, <3>1
  <2>3. QED BY <2>1, <2>2
<1>7. ASSUME FleetTick PROVE Kept
  <2> DEFINE r == [row[t] EXCEPT !.claimed = AtMost(@ + 1, ClaimTimeout),
                                 !.updated = AtMost(@ + 1, ProgressTimeout)]
  <2>1. /\ r.status = row[t].status /\ r.assignee = row[t].assignee
        /\ r.claimed = AtMost(row[t].claimed + 1, ClaimTimeout)
    BY <1>0 DEF RowType
  <2>2. row[t].status \in Active => AtMost(row[t].claimed + 1, ClaimTimeout) = row[t].claimed + 1
    BY <1>0, WorkerBridgeAssumption DEF AtMost, RowType, Active
  <2>3. row'[t] = r BY <1>7 DEF FleetTick, Elapse
  <2> HIDE DEF r
  <2>4. QED BY <1>7, <2>1, <2>2, <2>3
<1>8. QED
  <2> HIDE DEF Kept
  <2>1. QED BY <1>1, <1>2, <1>3, <1>4, <1>5, <1>6, <1>7, RowSteps

LEMMA WorkersStep ==
  ASSUME AgentTimeout < ClaimTimeout
  PROVE  FleetInv /\ WorkersInv /\ [FleetNext]_vars => WorkersInv'
<1> SUFFICES ASSUME FleetInv, WorkersInv, [FleetNext]_vars, NEW w \in Workers, AtWork(w)'
             PROVE  /\ pc'[w] # "build"
                    /\ pc'[w] = "agent" => elapsed'[w] <= AgentTimeout
                    /\ KeptOK(w)'
  BY DEF WorkersInv
<1>0. /\ w \in Bridges /\ AgentTimeout \in Nat /\ ClaimTimeout \in Nat
      /\ elapsed[w] \in Nat /\ Ran(w) \in Nat
      /\ row \in [Tasks -> RowType] /\ \A t \in Tasks : row[t].claimed \in Nat
  BY PollingWorkerAssumption, WorkerBridgeAssumption DEF FleetInv, TypeOK, RowType, Ran
<1>1. CASE /\ pc[w] = "claim" /\ pc'[w] = "start" /\ job'[w] = job[w]
           /\ Claimable(job[w]) /\ Claim(w, job[w])
  <2>1. job[w] \in Tasks BY <1>0, <1>1 DEF FleetInv, JobOK
  <2> DEFINE r == [row[job[w]] EXCEPT !.status = "claimed", !.assignee = w, !.claimed = 0, !.updated = 0]
  <2>2. r.status = "claimed" /\ r.assignee = w /\ r.claimed = 0
    BY <1>0, <2>1 DEF RowType
  <2>3. row'[job[w]] = r BY <1>0, <1>1, <2>1 DEF Claim
  <2> HIDE DEF r
  <2>4. Ran(w)' = 0 BY <1>1 DEF Ran
  <2>5. QED BY <1>1, <2>2, <2>3, <2>4 DEF KeptOK, Active
<1>2. CASE ~(pc[w] = "claim" /\ pc'[w] = "start")
  <2>1. /\ AtWork(w) /\ job'[w] = job[w] /\ job[w] \in Tasks
        /\ presence[w] = "dead" => presence'[w] = "dead"
    BY <1>0, <1>2, WorkerMoves DEF AtWork, FleetInv, JobOK
  <2>2. /\ pc[w] # "build" /\ (pc[w] = "agent" => elapsed[w] <= AgentTimeout) /\ KeptOK(w)
    BY <2>1 DEF WorkersInv
  <2>3. Ran(w) <= AgentTimeout
    BY <1>0, <2>2 DEF Ran
  <2>4. /\ pc'[w] # "build"
        /\ pc'[w] = "agent" => elapsed'[w] <= AgentTimeout
    BY <1>0, <1>2, <2>2, WorkerMoves DEF AtWork
  <2>5. /\ Ran(w) <= Ran(w)'
        /\ FleetTick => Ran(w)' = Ran(w) + 1
    <3>1. ASSUME FleetTick PROVE pc'[w] = "agent" /\ elapsed'[w] = elapsed[w] + 1 /\ pc[w] = "agent"
      BY <1>0, <2>1, <2>2, <3>1 DEF FleetTick, Waiting, Elapse, AtWork
    <3>2. ASSUME ~FleetTick PROVE Ran(w) <= Ran(w)'
      BY <1>0, <1>2, <2>2, <3>2, WorkerMoves DEF Ran
    <3>3. QED BY <1>0, <3>1, <3>2 DEF Ran
  <2>6. CASE presence[w] = "dead"
    BY <2>1, <2>4, <2>6 DEF KeptOK
  <2>7. CASE presence[w] # "dead"
    <3>1. /\ row[job[w]].assignee = w
          /\ \/ row[job[w]].status = "escalated"
             \/ /\ row[job[w]].status \in Active /\ row[job[w]].claimed < ClaimTimeout
                /\ row[job[w]].claimed <= Ran(w)
      BY <1>0, <2>1, <2>2, <2>3, <2>7 DEF KeptOK
    <3>2. \/ presence'[w] = "dead"
          \/ row'[job[w]].status = "escalated" /\ row'[job[w]].assignee = w
          \/ /\ row[job[w]].status \in Active /\ row'[job[w]].status \in Active
             /\ row'[job[w]].assignee = w
             /\ \/ row'[job[w]].claimed = row[job[w]].claimed
                \/ FleetTick /\ row'[job[w]].claimed = row[job[w]].claimed + 1
      BY <2>1, <3>1, RowKept
    <3>3. CASE row[job[w]].status = "escalated"
      BY <2>1, <2>4, <3>2, <3>3 DEF KeptOK, Active
    <3>4. CASE row[job[w]].status # "escalated"
      <4>1. row[job[w]].claimed <= Ran(w) /\ row[job[w]].claimed \in Nat
        BY <1>0, <2>1, <3>1, <3>4
      <4>2. Ran(w)' \in Int
        BY <1>0, <2>1, <2>4, WorkerMoves DEF Ran
      <4>3. QED BY <1>0, <2>1, <2>4, <2>5, <3>2, <4>1, <4>2 DEF KeptOK
    <3>5. QED BY <3>3, <3>4
  <2>8. QED BY <2>6, <2>7
<1>3. QED BY <1>1, <1>2, WorkerMoves DEF AtWork

(* A polling worker whose runs are shorter than the claim timeout works on    *)
(* what it holds, whatever bridges that ignore refusals do, until the task is *)
(* escalated or the worker itself is declared dead                            *)
(* (PollingWorker!WorkersKeepTheirTask).  The hypothesis is needed: nothing   *)
(* is sent during a run, so the stale monitor takes a longer one's task away. *)
THEOREM WorkersKeepWork ==
  ASSUME AgentTimeout < ClaimTimeout
  PROVE  FleetSpec => []WorkersKeepTheirTask
<1>1. Init => WorkersInv
  BY PollingWorkerAssumption DEF Init, WorkersInv, AtWork
<1>2. FleetInv /\ WorkersInv => WorkersKeepTheirTask
  BY PollingWorkerAssumption DEF FleetInv, JobOK, WorkersInv, KeptOK, WorkersKeepTheirTask, HeldBy
<1>3. QED BY <1>1, <1>2, FleetInitial, FleetStep, WorkersStep, PTL DEF FleetSpec

=============================================================================
