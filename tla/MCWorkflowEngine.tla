-------------------------- MODULE MCWorkflowEngine --------------------------
(* Templates for TLC: the phase a workflow begins with and one that needs no  *)
(* task, and one with a phase of each kind that branches; agents and handlers *)
(* are interchangeable.                                                       *)
EXTENDS WorkflowEngine

DevThenTest   == <<"single", "normal">>
DevGateReview == <<"single", "per_dev", "gate", "review", "decision">>

Symmetry == Permutations(Agents) \cup Permutations(Calls)
=============================================================================
