-------------------------- MODULE MCTaskLifecycle --------------------------
(* Small instances of TaskLifecycle: the constants TLC cannot take from a cfg. *)
EXTENDS TaskLifecycle, TLC

OneRole == [a \in Agents |-> "developer"]
Symmetry == Permutations(Tasks) \cup Permutations(Agents) \cup Permutations(Handlers)
=============================================================================
