-------------------------- MODULE MCPollingWorker --------------------------
(* PollingWorker and WorkerBridge for TLC: the calls a run may lose. *)
EXTENDS PollingWorker

AllCalls == {"heartbeat", "poll", "claim", "progress", "complete"}
Reports  == {"progress", "complete"}
NoCall   == {}
=============================================================================
