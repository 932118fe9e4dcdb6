------------------------------- MODULE WsHub -------------------------------
(***************************************************************************)
(* The WebSocket hub (internal/websocket): one Run goroutine owns the map  *)
(* of clients, handler goroutines push events into it through a buffered   *)
(* channel, and every client has a read pump and a write pump.             *)
(*                                                                         *)
(* Sending on a closed channel and closing one twice panic in Go and take  *)
(* the server down, so panicked records them.  Run receives in one step    *)
(* (hand) and works under the lock in the next: Stop comes in between.     *)
(* Messages are numbered in the order Broadcast's channel accepts them.    *)
(***************************************************************************)
EXTENDS Integers, Sequences, FiniteSets

CONSTANTS
  Clients,      \* WebSocket connections, each used once
  Callers,      \* handler goroutines that broadcast
  None,         \* no client
  BroadcastCap, \* capacity of Hub.broadcast (256)
  SendCap,      \* capacity of Client.send (256)
  MaxMessages,  \* bound: messages and connections of a behaviour, see Room
  Stopping      \* whether Stop is called (by tests; main.go never does)

ASSUME HubAssumption ==
  /\ BroadcastCap \in Nat \ {0} /\ SendCap \in Nat \ {0}
  /\ MaxMessages \in Nat /\ Stopping \in BOOLEAN
  /\ None \notin Clients

VARIABLES
  broadcast, \* Hub.broadcast
  clients,   \* Hub.clients
  run,       \* Hub.Run: "loop", or "returned" after quit
  hand,      \* what Run has received and not processed: op, a client or a message
  quit,      \* whether Hub.quit is closed
  stop,      \* Stop: "uncalled", "quit", "done"
  send,      \* Client.send: its messages
  closed,    \* whether Client.send is closed
  conn,      \* the connection: "none", "open", "broken" (peer gone), "closed"
  reader,    \* HandleWS, then ReadPump
  writer,    \* WritePump
  caller,    \* a goroutine in Broadcast: "idle" or "sending"
  last,      \* number of messages accepted so far
  got,       \* messages written to the connection
  panicked   \* whether some goroutine panicked

hubVars    == <<broadcast, clients, run, hand, quit, stop>>
clientVars == <<send, closed, conn, reader, writer, got>>
vars       == <<hubVars, clientVars, caller, last, panicked>>

-----------------------------------------------------------------------------
(* Callers *)

\* Bound: what is left of MaxMessages, a connection counting for two of them; so
\* broadcasters queue behind one slow client, or two clients come and go.
Room == MaxMessages - last - Cardinality({p \in Callers : caller[p] = "sending"})
                    - 2 * Cardinality({c \in Clients : conn[c] # "none"})

\* A handler calls Broadcast, which blocks while the channel is full.
Broadcast(p) ==
  /\ caller[p] = "idle" /\ Room > 0
  /\ caller' = [caller EXCEPT ![p] = "sending"]
  /\ UNCHANGED <<hubVars, clientVars, last, panicked>>

Accept(p) ==
  /\ caller[p] = "sending" /\ Len(broadcast) < BroadcastCap
  /\ caller' = [caller EXCEPT ![p] = "idle"]
  /\ last' = last + 1
  /\ broadcast' = Append(broadcast, last + 1)
  /\ UNCHANGED <<clients, run, hand, quit, stop, clientVars, panicked>>

-----------------------------------------------------------------------------
(* Run: the select, then the case it chose *)

Empty == [op |-> "none", c |-> None, m |-> 0]

Receive(op, c, m) ==
  /\ run = "loop" /\ hand = Empty
  /\ hand' = [op |-> op, c |-> c, m |-> m]

RunQuit ==
  /\ run = "loop" /\ hand = Empty /\ quit
  /\ run' = "returned"
  /\ UNCHANGED <<broadcast, clients, hand, quit, stop, clientVars, caller, last, panicked>>

\* The rendezvous on register lets HandleWS start the two pumps.
RunRegister(c) ==
  /\ reader[c] = "registering"
  /\ Receive("register", c, 0)
  /\ reader' = [reader EXCEPT ![c] = "reading"]
  /\ writer' = [writer EXCEPT ![c] = "pumping"]
  /\ UNCHANGED <<broadcast, clients, run, quit, stop, send, closed, conn, got,
                 caller, last, panicked>>

RunUnregister(c) ==
  /\ reader[c] = "unregistering"
  /\ Receive("unregister", c, 0)
  /\ reader' = [reader EXCEPT ![c] = "closing"]
  /\ UNCHANGED <<broadcast, clients, run, quit, stop, send, closed, conn, writer, got,
                 caller, last, panicked>>

RunTake ==
  /\ broadcast # <<>>
  /\ Receive("broadcast", None, Head(broadcast))
  /\ broadcast' = Tail(broadcast)
  /\ UNCHANGED <<clients, run, quit, stop, clientVars, caller, last, panicked>>

\* close(client.send) for every client of C.
Close(C) ==
  /\ closed' = [c \in Clients |-> closed[c] \/ c \in C]
  /\ panicked' = (panicked \/ \E c \in C : closed[c])

Register ==
  /\ hand.op = "register"
  /\ clients' = clients \cup {hand.c}
  /\ hand' = Empty
  /\ UNCHANGED <<broadcast, run, quit, stop, clientVars, caller, last, panicked>>

\* Mutant: unregister closes the channel without looking the client up.
UnregisterAlways ==
  /\ hand.op = "unregister"
  /\ clients' = clients \ {hand.c}
  /\ Close({hand.c})
  /\ hand' = Empty
  /\ UNCHANGED <<broadcast, run, quit, stop, send, conn, reader, writer, got, caller, last>>

Unregister ==
  /\ hand.op = "unregister"
  /\ clients' = clients \ {hand.c}
  /\ Close({hand.c} \cap clients)
  /\ hand' = Empty
  /\ UNCHANGED <<broadcast, run, quit, stop, send, conn, reader, writer, got, caller, last>>

\* Mutant: a full client misses the message and stays connected.
DeliverOrSkip ==
  /\ hand.op = "broadcast"
  /\ LET full == {c \in clients : Len(send[c]) >= SendCap} IN
       send' = [c \in Clients |-> IF c \in clients \ full THEN Append(send[c], hand.m)
                                  ELSE send[c]]
  /\ hand' = Empty
  /\ UNCHANGED <<broadcast, clients, run, quit, stop, closed, conn, reader, writer, got,
                 caller, last, panicked>>

\* Mutant: the send to each client blocks until there is room.
DeliverBlocking ==
  /\ hand.op = "broadcast"
  /\ \A c \in clients : Len(send[c]) < SendCap
  /\ send' = [c \in Clients |-> IF c \in clients THEN Append(send[c], hand.m) ELSE send[c]]
  /\ hand' = Empty
  /\ UNCHANGED <<broadcast, clients, run, quit, stop, closed, conn, reader, writer, got,
                 caller, last, panicked>>

\* Mutant: one message more than the channel holds.
DeliverOffByOne ==
  /\ hand.op = "broadcast"
  /\ LET full == {c \in clients : Len(send[c]) > SendCap}
         into == clients \ full
     IN
     /\ clients'  = into
     /\ closed'   = [c \in Clients |-> closed[c] \/ c \in full]
     /\ send'     = [c \in Clients |-> IF c \in into THEN Append(send[c], hand.m)
                                       ELSE send[c]]
     /\ panicked' = (panicked \/ \E c \in clients : closed[c])
  /\ hand' = Empty
  /\ UNCHANGED <<broadcast, run, quit, stop, conn, reader, writer, got, caller, last>>

\* The loop over the clients, under the read lock: a client whose channel is
\* full is dropped.  Pumps drain concurrently, but each send depends on one
\* channel only, so the loop is one step.
Deliver ==
  /\ hand.op = "broadcast"
  /\ LET full == {c \in clients : Len(send[c]) >= SendCap}
         into == clients \ full
     IN
     /\ clients'  = into
     /\ closed'   = [c \in Clients |-> closed[c] \/ c \in full]
     /\ send'     = [c \in Clients |-> IF c \in into THEN Append(send[c], hand.m)
                                       ELSE send[c]]
     /\ panicked' = (panicked \/ \E c \in clients : closed[c])
  /\ hand' = Empty
  /\ UNCHANGED <<broadcast, run, quit, stop, conn, reader, writer, got, caller, last>>

-----------------------------------------------------------------------------
(* Stop: two locked sections, in the goroutine of whoever calls it *)

StopQuit ==
  /\ Stopping /\ stop = "uncalled"
  /\ quit' = TRUE
  /\ stop' = "quit"
  /\ UNCHANGED <<broadcast, clients, run, hand, clientVars, caller, last, panicked>>

StopDrain ==
  /\ stop = "quit"
  /\ Close(clients)
  /\ clients' = {}
  /\ stop' = "done"
  /\ UNCHANGED <<broadcast, run, hand, quit, send, conn, reader, writer, got, caller, last>>

-----------------------------------------------------------------------------
(* Connections: HandleWS, ReadPump, WritePump *)

Connect(c) ==
  /\ conn[c] = "none" /\ Room >= 2
  /\ conn'   = [conn EXCEPT ![c] = "open"]
  /\ reader' = [reader EXCEPT ![c] = "registering"]
  /\ UNCHANGED <<hubVars, send, closed, writer, got, caller, last, panicked>>

\* The peer goes away, stops answering pings or sends more than maxMessageSize.
Break(c) ==
  /\ conn[c] = "open"
  /\ conn' = [conn EXCEPT ![c] = "broken"]
  /\ UNCHANGED <<hubVars, send, closed, reader, writer, got, caller, last, panicked>>

\* ReadMessage fails; the deferred Unregister blocks until Run receives it.
ReadFails(c) ==
  /\ reader[c] = "reading" /\ conn[c] # "open"
  /\ reader' = [reader EXCEPT ![c] = "unregistering"]
  /\ UNCHANGED <<hubVars, send, closed, conn, writer, got, caller, last, panicked>>

ReaderReturns(c) ==
  /\ reader[c] = "closing"
  /\ conn'   = [conn EXCEPT ![c] = "closed"]
  /\ reader' = [reader EXCEPT ![c] = "done"]
  /\ UNCHANGED <<hubVars, send, closed, writer, got, caller, last, panicked>>

Write(c) ==
  /\ writer[c] = "pumping" /\ send[c] # <<>> /\ conn[c] = "open"
  /\ got'  = [got EXCEPT ![c] = Append(@, Head(send[c]))]
  /\ send' = [send EXCEPT ![c] = Tail(@)]
  /\ UNCHANGED <<hubVars, closed, conn, reader, writer, caller, last, panicked>>

\* Mutant: the pump returns without closing the connection.
WriterReturnsOnly(c) ==
  /\ writer[c] = "pumping"
  /\ conn[c] # "open" \/ (closed[c] /\ send[c] = <<>>)
  /\ writer' = [writer EXCEPT ![c] = "done"]
  /\ UNCHANGED <<hubVars, send, closed, conn, reader, got, caller, last, panicked>>

\* A write or a ping fails, or the channel is closed and empty.
WriterReturns(c) ==
  /\ writer[c] = "pumping"
  /\ conn[c] # "open" \/ (closed[c] /\ send[c] = <<>>)
  /\ writer' = [writer EXCEPT ![c] = "done"]
  /\ conn'   = [conn EXCEPT ![c] = "closed"]
  /\ UNCHANGED <<hubVars, send, closed, reader, got, caller, last, panicked>>

-----------------------------------------------------------------------------
(* The specification *)

Init ==
  /\ broadcast = <<>> /\ clients = {} /\ run = "loop" /\ hand = Empty
  /\ quit = FALSE /\ stop = "uncalled"
  /\ send   = [c \in Clients |-> <<>>]
  /\ closed = [c \in Clients |-> FALSE]
  /\ conn   = [c \in Clients |-> "none"]
  /\ reader = [c \in Clients |-> "none"]
  /\ writer = [c \in Clients |-> "none"]
  /\ got    = [c \in Clients |-> <<>>]
  /\ caller = [p \in Callers |-> "idle"]
  /\ last = 0
  /\ panicked = FALSE

RunStep ==
  \/ RunQuit \/ RunTake
  \/ \E c \in Clients : RunRegister(c) \/ RunUnregister(c)
  \/ Register \/ Unregister \/ Deliver

PumpStep(c) == ReadFails(c) \/ ReaderReturns(c) \/ Write(c) \/ WriterReturns(c)

Next ==
  \/ \E p \in Callers : Broadcast(p) \/ Accept(p)
  \/ RunStep
  \/ StopQuit \/ StopDrain
  \/ \E c \in Clients : Connect(c) \/ Break(c) \/ PumpStep(c)

\* Goroutines that can run do; select and a channel with several senders do not
\* neglect one of them for ever.
Fairness ==
  /\ WF_vars(RunTake) /\ WF_vars(Register \/ Unregister \/ Deliver)
  /\ \A c \in Clients :
       /\ SF_vars(RunRegister(c)) /\ SF_vars(RunUnregister(c))
       /\ WF_vars(ReadFails(c)) /\ WF_vars(ReaderReturns(c))
       /\ WF_vars(Write(c) \/ WriterReturns(c))
  /\ \A p \in Callers : SF_vars(Accept(p))

Spec     == Init /\ [][Next]_vars
FairSpec == Spec /\ Fairness

-----------------------------------------------------------------------------
(* Properties *)

(* Type correctness; a channel never holds more than its capacity, so an idle *)
(* or slow client costs the server a bounded amount of memory.                *)
TypeOK ==
  /\ broadcast \in Seq(Nat) /\ Len(broadcast) <= BroadcastCap
  /\ clients \subseteq Clients
  /\ run \in {"loop", "returned"}
  /\ hand \in [op: {"none", "register", "unregister", "broadcast"},
               c: Clients \cup {None}, m: Nat]
  /\ quit \in BOOLEAN /\ stop \in {"uncalled", "quit", "done"}
  /\ send \in [Clients -> Seq(Nat)] /\ \A c \in Clients : Len(send[c]) <= SendCap
  /\ closed \in [Clients -> BOOLEAN]
  /\ conn   \in [Clients -> {"none", "open", "broken", "closed"}]
  /\ reader \in [Clients -> {"none", "registering", "reading", "unregistering",
                             "closing", "done"}]
  /\ writer \in [Clients -> {"none", "pumping", "done"}]
  /\ caller \in [Callers -> {"idle", "sending"}]
  /\ last \in Nat
  /\ got \in [Clients -> Seq(Nat)]
  /\ panicked \in BOOLEAN

(* No panic: no interleaving of Run, Stop and slow or leaving clients sends   *)
(* on a closed channel or closes one twice.                                   *)
NoPanic == ~panicked

(* The hub implements the event feed: the events Run delivers are one log, a  *)
(* client of the map is sent each of them or is cut off by it, and what its   *)
(* channel holds when it is closed can still be read.                         *)
Feed == INSTANCE EventFeed WITH
  published <- last - Len(broadcast) - (IF hand.op = "broadcast" THEN 1 ELSE 0),
  members   <- clients,
  feed      <- [c \in Clients |-> got[c] \o send[c]],
  read      <- [c \in Clients |-> Len(got[c])]
FeedSpec == Feed!Spec

(* A broadcasting handler is never stuck: while the hub runs, slow, dead or   *)
(* leaving clients do not block the API call that reports a status change.    *)
BroadcastReturns == \A p \in Callers : caller[p] = "sending" ~> caller[p] = "idle" \/ quit

(* A client that is lost or cut off is cleaned up while the hub runs: it      *)
(* leaves the map, its connection is closed and both its pumps end.           *)
Gone(c) == c \notin clients /\ conn[c] = "closed" /\ reader[c] = "done" /\ writer[c] = "done"
LostClientsLeave ==
  \A c \in Clients : conn[c] = "broken" \/ closed[c] ~> Gone(c) \/ quit

-----------------------------------------------------------------------------
(* Promises of the documents that the code does not keep; the README says how *)
(* each of them is broken.                                                   *)

(* Stop's "Drain all clients": when Stop and Run have returned no client is   *)
(* left in the map with an open channel.                                      *)
StopDrainsAll == stop = "done" /\ run = "returned" => clients = {}
=============================================================================
