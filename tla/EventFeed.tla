----------------------------- MODULE EventFeed -----------------------------
(***************************************************************************)
(* What the hub promises the clients of its WebSocket feed: there is one   *)
(* log of events, numbered in the order they are published; a client that  *)
(* joins receives every event from then on, or it is cut off; whatever it  *)
(* was sent before is still its to read.                                   *)
(***************************************************************************)
EXTENDS Naturals, Sequences

CONSTANT Clients

VARIABLES
  published,  \* number of events published so far
  members,    \* clients that receive what is published
  feed,       \* the events each client was sent
  read        \* how many of them it has read

vars == <<published, members, feed, read>>

Init ==
  /\ published = 0
  /\ members = {}
  /\ feed = [c \in Clients |-> <<>>]
  /\ read = [c \in Clients |-> 0]

\* A client joins once.
Join(c) ==
  /\ c \notin members /\ feed[c] = <<>>
  /\ members' = members \cup {c}
  /\ UNCHANGED <<published, feed, read>>

Leave(S) ==
  /\ S \subseteq members
  /\ members' = members \ S
  /\ UNCHANGED <<published, feed, read>>

\* Every member is sent the event, except those that are cut off by it.
Publish(slow) ==
  /\ slow \subseteq members
  /\ members'   = members \ slow
  /\ published' = published + 1
  /\ feed' = [c \in Clients |-> IF c \in members \ slow THEN Append(feed[c], published + 1)
                                ELSE feed[c]]
  /\ UNCHANGED read

Read(c) ==
  /\ read[c] < Len(feed[c])
  /\ read' = [read EXCEPT ![c] = @ + 1]
  /\ UNCHANGED <<published, members, feed>>

Next ==
  \/ \E c \in Clients : Join(c) \/ Read(c)
  \/ \E S \in SUBSET Clients : Leave(S) \/ Publish(S)

Spec == Init /\ [][Next]_vars
=============================================================================
