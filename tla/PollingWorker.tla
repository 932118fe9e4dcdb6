--------------------------- MODULE PollingWorker ---------------------------
(***************************************************************************)
(* The polling workers (package workers) beside worker bridges: they use   *)
(* the same calls and drop a task whose claim is refused.  They look for a *)
(* signal and send heartbeats between two tasks only, and nothing limits   *)
(* their agent runs; AgentTimeout is a bound of the model for them.        *)
(***************************************************************************)
EXTENDS WorkerBridge

CONSTANTS
  Workers,    \* members of Bridges that are polling workers
  Signalled   \* workers that may get a SIGTERM

ASSUME PollingWorkerAssumption == Signalled \subseteq Workers /\ Workers \subseteq Bridges

-----------------------------------------------------------------------------
(* The worker's loop *)

Beat(w, status) ==
  \/ /\ load'     = [load EXCEPT ![w] = 0]
     /\ presence' = [presence EXCEPT ![w] = status]
     /\ silence'  = [silence EXCEPT ![w] = 0]
     /\ UNCHANGED row
  \/ "heartbeat" \in Lossy /\ UNCHANGED server

\* The top of the loop.  The ticker is always due when a tick has passed.
WorkerBeats(w) ==
  /\ pc[w] = "idle"
  /\ Beat(w, "working") \/ (silence[w] = 0 /\ UNCHANGED server)
  /\ Goto(w, "poll")
  /\ UNCHANGED <<job, success, elapsed>>

\* The first task of the queue; errors back off and try again, within a tick.
WorkerPolls(w) == PollQueue(w)

\* Mutant: a refused claim counts as a granted one.
WorkerClaimsAnyway(w) == ClaimTask(w)

\* A refused or failed claim drops the task.
WorkerClaims(w) ==
  /\ pc[w] = "claim"
  /\ \/ Claimable(job[w])  /\ Claim(w, job[w])  /\ Goto(w, "start") /\ UNCHANGED job
     \/ ~Claimable(job[w]) /\ UNCHANGED server /\ Drop(w)
     \/ /\ "claim" \in Lossy
        /\ (Claimable(job[w]) /\ Claim(w, job[w])) \/ UNCHANGED server
        /\ Drop(w)
  /\ UNCHANGED <<success, elapsed>>

\* Progress 10, then Process.
WorkerBegins(w) == StartAgent(w)

\* Process returns; there is no build and no progress to send.
WorkerReturns(w) ==
  /\ pc[w] = "agent"
  /\ \E ok \in BOOLEAN : success' = [success EXCEPT ![w] = ok]
  /\ Goto(w, "report")
  /\ elapsed' = [elapsed EXCEPT ![w] = 0]
  /\ UNCHANGED <<server, job>>

\* reportComplete or reportFail, whose errors are logged and forgotten.
WorkerReports(w) == ReportResult(w)

\* SIGTERM or SIGINT, seen at the top of the loop.
WorkerStops(w) ==
  /\ w \in Signalled
  /\ pc[w] = "idle"
  /\ Beat(w, "stopping")
  /\ Goto(w, "down")
  /\ UNCHANGED <<job, success, elapsed>>

\* systemd starts the process, which sends a heartbeat before its loop.
WorkerStarts(w) ==
  /\ Restarts
  /\ pc[w] = "down"
  /\ Beat(w, "working")
  /\ Goto(w, "idle")
  /\ UNCHANGED <<job, success, elapsed>>

WorkerStep(w) ==
  \/ WorkerBeats(w) \/ WorkerPolls(w) \/ WorkerClaims(w) \/ WorkerBegins(w)
  \/ WorkerReturns(w) \/ WorkerReports(w)

\* An idle worker sends its heartbeats as steps of their own.
FleetTick ==
  /\ \A b \in Bridges : Waiting(b)
  /\ Elapse({b \in Bridges \ Workers : pc[b] = "idle"})

-----------------------------------------------------------------------------
(* Bridges and workers together *)

FleetNext ==
  \/ \E b \in Bridges \ Workers : BridgeStep(b) \/ Start(b)
  \/ \E w \in Workers : WorkerStep(w) \/ WorkerStops(w) \/ WorkerStarts(w)
  \/ \E b \in Bridges : Die(b) \/ HealthWarn(b) \/ HealthDead(b)
  \/ \E t \in Tasks : StaleSweep(t)
  \/ FleetTick

FleetSpec == Init /\ [][FleetNext]_vars

(* As WorkerBridge!FairSpec: processes run, the stale monitor sweeps, time    *)
(* passes, and calls do not fill the time between them.                       *)
FairFleetSpec ==
  /\ FleetSpec
  /\ \A b \in Bridges \ Workers : WF_vars(BridgeStep(b))
  /\ \A w \in Workers : WF_vars(WorkerStep(w))
  /\ \A t \in Tasks : WF_vars(StaleSweep(t))
  /\ SF_vars(FleetTick)
  /\ []<>(\A b \in Bridges : Waiting(b))

-----------------------------------------------------------------------------
(* A worker whose runs are shorter than the monitors' timeouts works on what  *)
(* it holds, although a bridge that ignores refusals works on the same task:  *)
(* it loses it only to the escalation, which selects by id, or when so many   *)
(* heartbeats were lost that it counts as dead.                               *)
WorkersKeepTheirTask ==
  \A w \in Workers : AtWork(w) =>
    \/ job[w] \in HeldBy(w)
    \/ row[job[w]].status = "escalated"
    \/ presence[w] = "dead"

-----------------------------------------------------------------------------
(* Promise of a comment that the code does not keep; the README says how.     *)

(* "Sends heartbeat every 5 minutes while running": a worker that runs is not *)
(* declared dead.                                                             *)
RunningIsNotDead == \A w \in Workers : presence[w] = "dead" => pc[w] = "down"
=============================================================================
