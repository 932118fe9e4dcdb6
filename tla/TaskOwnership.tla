--------------------------- MODULE TaskOwnership ---------------------------
(***************************************************************************)
(* What the task board promises its workers: a task has at most one holder *)
(* at any time, a free task may be acquired, a held one may be given back  *)
(* or taken away, several at once when a monitor sweeps or an agent is     *)
(* deleted.  Nobody takes over a held task directly, except that the PM    *)
(* may hand it to an agent of Handovers.                                   *)
(***************************************************************************)
CONSTANTS Tasks, Agents, None, Handovers

VARIABLE holder

Init == holder = [t \in Tasks |-> None]

Acquire(t, a) ==
  /\ holder[t] = None
  /\ holder' = [holder EXCEPT ![t] = a]

GiveBack(S) ==
  /\ \A t \in S : holder[t] # None
  /\ holder' = [t \in Tasks |-> IF t \in S THEN None ELSE holder[t]]

HandOver(t, a) ==
  /\ a \in Handovers
  /\ holder' = [holder EXCEPT ![t] = a]

Next ==
  \/ \E t \in Tasks, a \in Agents : Acquire(t, a) \/ HandOver(t, a)
  \/ \E S \in SUBSET Tasks : GiveBack(S)

Spec == Init /\ [][Next]_holder
=============================================================================
