---------------------------- MODULE WsHubProofs ----------------------------
(***************************************************************************)
(* Proofs about WsHub, for every set of clients and broadcasters and every *)
(* capacity of the channels, with or without Stop.                         *)
(*                                                                         *)
(* NoPanic is not inductive: that a channel is open when Run or Stop       *)
(* closes it follows from who may still be in the map.  HubInv adds that a *)
(* client enters the map once, with an open and empty channel, and leaves  *)
(* it in the step that closes its channel.                                 *)
(***************************************************************************)
EXTENDS WsHub, SequenceTheorems, TLAPS

-----------------------------------------------------------------------------
(* The inductive invariant *)

\* Not in the map yet: nobody has sent to the client or closed its channel.
Untouched(c) == c \notin clients /\ ~closed[c] /\ send[c] = <<>> /\ got[c] = <<>>

MapInv ==
  /\ \A c \in clients : ~closed[c]
  /\ \A c \in Clients : reader[c] \in {"none", "registering"} => Untouched(c)
  /\ \A c \in Clients : conn[c] = "none" => reader[c] = "none"

HandInv ==
  /\ hand.op # "broadcast" => hand.m = 0
  /\ hand.op \in {"register", "unregister"} =>
       hand.c \in Clients /\ reader[hand.c] \notin {"none", "registering"}
  /\ hand.op = "register" => Untouched(hand.c)

\* The numbers of the events that wait, in the order they were accepted.
Published == last - Len(broadcast) - (IF hand.op = "broadcast" THEN 1 ELSE 0)
OrderInv ==
  /\ Published \in Nat
  /\ hand.op = "broadcast" => hand.m = Published + 1
  /\ \A i \in 1..Len(broadcast) : broadcast[i] = last - Len(broadcast) + i

HubInv == TypeOK /\ ~panicked /\ MapInv /\ HandInv /\ OrderInv

\* The conjuncts of TypeOK about events, and those about who is where.
ChannelTypes ==
  /\ broadcast \in Seq(Nat) /\ Len(broadcast) <= BroadcastCap
  /\ send \in [Clients -> Seq(Nat)] /\ \A c \in Clients : Len(send[c]) <= SendCap
  /\ got \in [Clients -> Seq(Nat)]
  /\ last \in Nat

ControlTypes ==
  /\ clients \subseteq Clients
  /\ run \in {"loop", "returned"}
  /\ hand \in [op: {"none", "register", "unregister", "broadcast"},
               c: Clients \cup {None}, m: Nat]
  /\ quit \in BOOLEAN /\ stop \in {"uncalled", "quit", "done"}
  /\ closed \in [Clients -> BOOLEAN]
  /\ conn   \in [Clients -> {"none", "open", "broken", "closed"}]
  /\ reader \in [Clients -> {"none", "registering", "reading", "unregistering",
                             "closing", "done"}]
  /\ writer \in [Clients -> {"none", "pumping", "done"}]
  /\ caller \in [Callers -> {"idle", "sending"}]
  /\ panicked \in BOOLEAN

LEMMA TypeParts == TypeOK <=> ChannelTypes /\ ControlTypes
BY DEF TypeOK, ChannelTypes, ControlTypes

-----------------------------------------------------------------------------
(* Sequences of event numbers *)

LEMMA NoEvents == <<>> \in Seq(Nat) /\ Len(<<>>) = 0
BY EmptySeq

LEMMA LenEvents == \A s \in Seq(Nat) : Len(s) \in Nat /\ (s # <<>> => Len(s) > 0)
<1> SUFFICES ASSUME NEW s \in Seq(Nat) PROVE Len(s) \in Nat /\ (s # <<>> => Len(s) > 0)
  OBVIOUS
<1>1. Len(s) \in Nat BY LenProperties
<1>2. s # <<>> => Len(s) \in Nat \ {0} BY EmptySeq
<1>3. QED BY <1>1, <1>2

LEMMA AppendEvent ==
  ASSUME NEW s \in Seq(Nat), NEW e \in Nat
  PROVE  /\ Append(s, e) \in Seq(Nat)
         /\ Len(Append(s, e)) = Len(s) + 1
         /\ \A i \in 1..Len(s) : Append(s, e)[i] = s[i]
         /\ Append(s, e)[Len(s) + 1] = e
BY AppendProperties

LEMMA TailEvent ==
  ASSUME NEW s \in Seq(Nat), s # <<>>
  PROVE  /\ Head(s) \in Nat /\ Head(s) = s[1]
         /\ Tail(s) \in Seq(Nat)
         /\ Len(Tail(s)) = Len(s) - 1
         /\ \A i \in 1..Len(Tail(s)) : Tail(s)[i] = s[i + 1]
<1>1. Head(s) = s[1] OBVIOUS
<1>2. QED BY <1>1, HeadTailProperties

(* An event sent after those in the channel comes last in what was sent. *)
LEMMA SendLast ==
  ASSUME NEW s \in Seq(Nat), NEW u \in Seq(Nat), NEW e \in Nat
  PROVE  s \o Append(u, e) = Append(s \o u, e)
<1>1. <<e>> \in Seq(Nat)
  BY NoEvents, AppendProperties, AppendIsConcat
<1>2. s \o u \in Seq(Nat) BY ConcatProperties
<1>3. Append(u, e) = u \o <<e>> BY AppendIsConcat
<1>4. Append(s \o u, e) = (s \o u) \o <<e>> BY <1>2, AppendIsConcat
<1>5. QED BY <1>1, <1>3, <1>4, ConcatAssociative

LEMMA UnreadEvent ==
  ASSUME NEW s \in Seq(Nat), NEW u \in Seq(Nat), u # <<>>
  PROVE  Len(s) < Len(s \o u)
<1>1. Len(s) \in Nat /\ Len(u) \in Nat /\ Len(u) > 0
  BY LenEvents
<1>2. Len(s \o u) = Len(s) + Len(u)
  BY ConcatProperties
<1>3. QED BY <1>1, <1>2

(* Reading the next event moves the boundary and changes nothing else. *)
LEMMA ReadFirst ==
  ASSUME NEW s \in Seq(Nat), NEW u \in Seq(Nat), u # <<>>
  PROVE  Append(s, Head(u)) \o Tail(u) = s \o u
<1> DEFINE a == Append(s, Head(u))
           l == a \o Tail(u)
           r == s \o u
<1>a. Len(s) \in Nat /\ Len(u) \in Nat /\ Len(u) > 0
  BY LenEvents
<1>b. /\ Head(u) \in Nat /\ Head(u) = u[1] /\ Tail(u) \in Seq(Nat) /\ Len(Tail(u)) = Len(u) - 1
      /\ \A i \in 1..Len(Tail(u)) : Tail(u)[i] = u[i + 1]
  BY TailEvent
<1>c. /\ a \in Seq(Nat) /\ Len(a) = Len(s) + 1
      /\ \A i \in 1..Len(s) : a[i] = s[i]
      /\ a[Len(s) + 1] = Head(u)
  BY <1>b, AppendEvent
<1>1. /\ l \in Seq(Nat) /\ Len(l) = Len(a) + Len(Tail(u))
      /\ \A i \in 1..Len(a) + Len(Tail(u)) :
           l[i] = IF i <= Len(a) THEN a[i] ELSE Tail(u)[i - Len(a)]
  BY <1>b, <1>c, ConcatProperties
<1>2. /\ r \in Seq(Nat) /\ Len(r) = Len(s) + Len(u)
      /\ \A i \in 1..Len(s) + Len(u) : r[i] = IF i <= Len(s) THEN s[i] ELSE u[i - Len(s)]
  BY ConcatProperties
<1> HIDE DEF a, l, r
<1>3. Len(l) = Len(r)
  BY <1>a, <1>b, <1>c, <1>1, <1>2
<1>4. ASSUME NEW i \in 1..Len(l) PROVE l[i] = r[i]
  <2>1. i \in Nat /\ i >= 1 /\ i <= Len(s) + Len(u) /\ Len(a) + Len(Tail(u)) = Len(s) + Len(u)
    BY <1>a, <1>b, <1>c, <1>1
  <2>2. CASE i <= Len(s)
    <3>1. i \in 1..Len(s) /\ i <= Len(a) BY <2>1, <2>2, <1>a, <1>c
    <3>2. l[i] = a[i] BY <2>1, <3>1, <1>1
    <3>3. r[i] = s[i] BY <2>1, <3>1, <1>2
    <3>4. QED BY <3>1, <3>2, <3>3, <1>c
  <2>3. CASE i = Len(s) + 1
    <3>1. l[i] = a[i] BY <2>1, <2>3, <1>a, <1>c, <1>1
    <3>2. i - Len(s) = 1 /\ ~(i <= Len(s)) BY <2>3, <1>a
    <3>3. r[i] = u[1] BY <2>1, <3>2, <1>a, <1>2
    <3>4. QED BY <2>3, <3>1, <3>3, <1>b, <1>c
  <2>4. CASE i > Len(s) + 1
    <3>1. l[i] = Tail(u)[i - (Len(s) + 1)]
      BY <2>1, <2>4, <1>a, <1>c, <1>1
    <3>2. Tail(u)[i - (Len(s) + 1)] = u[i - Len(s)]
      <4>1. i - (Len(s) + 1) \in 1..Len(Tail(u))
        BY <2>1, <2>4, <1>a, <1>b
      <4>2. Tail(u)[i - (Len(s) + 1)] = u[(i - (Len(s) + 1)) + 1]
        BY <4>1, <1>b
      <4>3. (i - (Len(s) + 1)) + 1 = i - Len(s)
        BY <2>1, <1>a
      <4>4. QED BY <4>2, <4>3
    <3>3. r[i] = u[i - Len(s)]
      BY <2>1, <2>4, <1>a, <1>2
    <3>4. QED BY <3>1, <3>2, <3>3
  <2>5. QED BY <2>1, <2>2, <2>3, <2>4, <1>a
<1>5. l = r
  BY <1>1, <1>2, <1>3, <1>4, SeqEqual
<1>6. QED BY <1>5 DEF a, l, r

-----------------------------------------------------------------------------
(* The initial states and the steps *)

LEMMA InitHubInv == Init => HubInv
<1> SUFFICES ASSUME Init PROVE HubInv
  OBVIOUS
<1>1. TypeOK
  <2>1. ChannelTypes BY NoEvents, HubAssumption DEF Init, ChannelTypes
  <2>2. ControlTypes BY DEF Init, ControlTypes, Empty
  <2>3. QED BY <2>1, <2>2, TypeParts
<1>2. MapInv /\ HandInv /\ ~panicked
  BY DEF Init, MapInv, HandInv, Untouched, Empty
<1>3. OrderInv
  BY NoEvents DEF Init, OrderInv, Published, Empty
<1>4. QED BY <1>1, <1>2, <1>3 DEF HubInv

(* Handlers that broadcast. *)
LEMMA CallerHubInv ==
  ASSUME HubInv, NEW p \in Callers, Broadcast(p) \/ Accept(p)
  PROVE  HubInv'
<1> USE DEF HubInv
<1>1. CASE Broadcast(p)
  <2>1. TypeOK'
    BY <1>1 DEF Broadcast, TypeOK, hubVars, clientVars
  <2>2. QED
    BY <1>1, <2>1
    DEF Broadcast, hubVars, clientVars, MapInv, HandInv, OrderInv, Untouched, Published
<1>2. CASE Accept(p)
  <2>1. /\ broadcast' \in Seq(Nat) /\ Len(broadcast') = Len(broadcast) + 1
        /\ \A i \in 1..Len(broadcast) : broadcast'[i] = broadcast[i]
        /\ broadcast'[Len(broadcast) + 1] = last + 1
    BY <1>2, AppendEvent DEF Accept, TypeOK
  <2>2. TypeOK'
    BY <1>2, <2>1, HubAssumption DEF Accept, TypeOK, clientVars
  <2>3. MapInv' /\ HandInv' /\ ~panicked'
    BY <1>2 DEF Accept, clientVars, MapInv, HandInv, Untouched
  <2>4. OrderInv'
    <3>1. Published' = Published /\ last' = last + 1 /\ hand' = hand
      BY <1>2, <2>1, LenEvents DEF Accept, Published, TypeOK
    <3>2. ASSUME NEW i \in 1..Len(broadcast') PROVE broadcast'[i] = last' - Len(broadcast') + i
      <4>1. Len(broadcast) \in Nat /\ last \in Nat /\ i \in Nat /\ last' - Len(broadcast') = last - Len(broadcast)
        BY <2>1, <3>1, LenEvents DEF TypeOK
      <4>2. i \in 1..Len(broadcast) \/ i = Len(broadcast) + 1
        BY <2>1, <4>1
      <4>3. QED BY <2>1, <3>1, <4>1, <4>2 DEF OrderInv
    <3>3. QED BY <3>1, <3>2 DEF OrderInv
  <2>5. QED BY <2>2, <2>3, <2>4
<1>3. QED BY <1>1, <1>2

(* Run receives. *)
LEMMA ReceiveHubInv ==
  ASSUME HubInv,
         RunQuit \/ RunTake \/ \E c \in Clients : RunRegister(c) \/ RunUnregister(c)
  PROVE  HubInv'
<1> USE DEF HubInv
<1>1. CASE RunQuit
  <2>1. TypeOK'
    BY <1>1 DEF RunQuit, TypeOK, clientVars
  <2>2. QED
    BY <1>1, <2>1 DEF RunQuit, clientVars, MapInv, HandInv, OrderInv, Untouched, Published
<1>2. CASE RunTake
  <2>1. /\ broadcast' \in Seq(Nat) /\ Len(broadcast') = Len(broadcast) - 1
        /\ \A i \in 1..Len(broadcast') : broadcast'[i] = broadcast[i + 1]
        /\ Head(broadcast) = broadcast[1] /\ Head(broadcast) \in Nat
        /\ Len(broadcast) \in Nat \ {0}
    BY <1>2, TailEvent, LenEvents DEF RunTake, TypeOK
  <2>2. hand.op = "none" /\ hand' = [op |-> "broadcast", c |-> None, m |-> Head(broadcast)]
    BY <1>2 DEF RunTake, Receive, Empty
  <2>3. TypeOK'
    <3>1. ChannelTypes'
      BY <1>2, <2>1, TypeParts, HubAssumption DEF RunTake, clientVars, ChannelTypes
    <3>2. ControlTypes' BY <1>2, <2>1, <2>2, TypeParts DEF RunTake, clientVars, ControlTypes
    <3>3. QED BY <3>1, <3>2 DEF TypeOK, ChannelTypes, ControlTypes
  <2>4. MapInv' /\ HandInv' /\ ~panicked'
    BY <1>2, <2>2 DEF RunTake, clientVars, MapInv, HandInv, Untouched
  <2>5. OrderInv'
    BY <1>2, <2>1, <2>2 DEF RunTake, OrderInv, Published, TypeOK
  <2>6. QED BY <2>3, <2>4, <2>5
<1>3. ASSUME NEW c \in Clients, RunRegister(c) PROVE HubInv'
  <2>1. hand.op = "none" /\ hand' = [op |-> "register", c |-> c, m |-> 0]
    BY <1>3 DEF RunRegister, Receive, Empty
  <2>2. TypeOK'
    BY <1>3, <2>1 DEF RunRegister, TypeOK
  <2>3. MapInv' /\ HandInv' /\ OrderInv' /\ ~panicked'
    BY <1>3, <2>1 DEF RunRegister, TypeOK, MapInv, HandInv, OrderInv, Untouched, Published
  <2>4. QED BY <2>2, <2>3
<1>4. ASSUME NEW c \in Clients, RunUnregister(c) PROVE HubInv'
  <2>1. hand.op = "none" /\ hand' = [op |-> "unregister", c |-> c, m |-> 0]
    BY <1>4 DEF RunUnregister, Receive, Empty
  <2>2. TypeOK'
    BY <1>4, <2>1 DEF RunUnregister, TypeOK
  <2>3. MapInv' /\ HandInv' /\ OrderInv' /\ ~panicked'
    BY <1>4, <2>1 DEF RunUnregister, TypeOK, MapInv, HandInv, OrderInv, Untouched, Published
  <2>4. QED BY <2>2, <2>3
<1>5. QED BY <1>1, <1>2, <1>3, <1>4

(* A channel after an event is sent to it is longer by one. *)
LEMMA SendTypes ==
  ASSUME TypeOK, NEW into \in SUBSET Clients, NEW e \in Nat,
         \A c \in into : Len(send[c]) < SendCap,
         send' = [c \in Clients |-> IF c \in into THEN Append(send[c], e) ELSE send[c]]
  PROVE  send' \in [Clients -> Seq(Nat)] /\ \A c \in Clients : Len(send'[c]) <= SendCap
<1>1. ASSUME NEW c \in Clients
      PROVE  send'[c] \in Seq(Nat) /\ Len(send'[c]) <= SendCap
  <2>1. send[c] \in Seq(Nat) /\ Len(send[c]) \in Nat /\ Len(send[c]) <= SendCap
    BY LenEvents DEF TypeOK
  <2>2. CASE c \in into
    <3>1. send'[c] = Append(send[c], e) BY <2>2
    <3>2. Append(send[c], e) \in Seq(Nat) /\ Len(Append(send[c], e)) = Len(send[c]) + 1
      BY <2>1, AppendEvent
    <3>3. QED BY <2>1, <2>2, <3>1, <3>2, HubAssumption
  <2>3. CASE c \notin into BY <2>1, <2>3
  <2>4. QED BY <2>2, <2>3
<1>2. QED BY <1>1

(* Run works on what it received. *)
LEMMA HandleHubInv ==
  ASSUME HubInv, Register \/ Unregister \/ Deliver
  PROVE  HubInv'
<1> USE DEF HubInv
<1>1. CASE Register
  <2>1. hand' = [op |-> "none", c |-> None, m |-> 0] /\ hand.c \in Clients
    BY <1>1 DEF Register, Empty, HandInv
  <2>2. TypeOK'
    BY <1>1, <2>1 DEF Register, TypeOK, clientVars
  <2>3. MapInv' /\ HandInv' /\ OrderInv' /\ ~panicked'
    BY <1>1, <2>1
    DEF Register, clientVars, MapInv, HandInv, OrderInv, Untouched, Published
  <2>4. QED BY <2>2, <2>3
<1>2. CASE Unregister
  <2>1. hand' = [op |-> "none", c |-> None, m |-> 0] /\ hand.c \in Clients
    BY <1>2 DEF Unregister, Empty, HandInv
  <2>2. ~panicked'
    BY <1>2 DEF Unregister, Close, MapInv
  <2>3. TypeOK'
    <3>1. ChannelTypes' BY <1>2, TypeParts DEF Unregister, ChannelTypes
    <3>2. ControlTypes'
      BY <1>2, <2>1, <2>2, TypeParts DEF Unregister, Close, ControlTypes
    <3>3. QED BY <3>1, <3>2 DEF TypeOK, ChannelTypes, ControlTypes
  <2>4. MapInv'
    BY <1>2 DEF Unregister, Close, TypeOK, MapInv, HandInv, Untouched
  <2>5. HandInv' /\ OrderInv'
    BY <1>2, <2>1 DEF Unregister, HandInv, OrderInv, Published
  <2>6. QED BY <2>2, <2>3, <2>4, <2>5
<1>3. CASE Deliver
  <2> DEFINE full == {c \in clients : Len(send[c]) >= SendCap}
             into == clients \ full
  <2>1. hand' = [op |-> "none", c |-> None, m |-> 0] /\ hand.m \in Nat
    BY <1>3 DEF Deliver, Empty, TypeOK
  <2>2. /\ clients' = into
        /\ closed' = [c \in Clients |-> closed[c] \/ c \in full]
        /\ send' = [c \in Clients |-> IF c \in into THEN Append(send[c], hand.m) ELSE send[c]]
    BY <1>3 DEF Deliver
  <2>3. ~panicked'
    BY <1>3 DEF Deliver, MapInv
  <2>4. \A c \in into : c \in Clients /\ Len(send[c]) < SendCap
    BY LenEvents, HubAssumption DEF TypeOK
  <2> HIDE DEF full, into
  <2>5. TypeOK'
    <3>1. send' \in [Clients -> Seq(Nat)] /\ \A c \in Clients : Len(send'[c]) <= SendCap
      BY <2>1, <2>2, <2>4, SendTypes
    <3>2. ChannelTypes' BY <1>3, <3>1, TypeParts DEF Deliver, ChannelTypes
    <3>3. ControlTypes'
      BY <1>3, <2>1, <2>2, <2>3, <2>4, TypeParts DEF Deliver, ControlTypes
    <3>4. QED BY <3>2, <3>3 DEF TypeOK, ChannelTypes, ControlTypes
  <2>6. MapInv'
    <3>1. into \subseteq clients /\ full \subseteq clients /\ into \cap full = {}
      BY DEF into, full
    <3>2. reader' = reader /\ got' = got /\ conn' = conn BY <1>3 DEF Deliver
    <3>3. QED BY <2>2, <2>4, <3>1, <3>2 DEF TypeOK, MapInv, Untouched
  <2>7. HandInv'
    BY <2>1 DEF HandInv
  <2>8. OrderInv'
    BY <1>3, <2>1, LenEvents DEF Deliver, OrderInv, Published, TypeOK
  <2>9. QED BY <2>3, <2>5, <2>6, <2>7, <2>8
<1>4. QED BY <1>1, <1>2, <1>3

(* Stop, in two steps. *)
LEMMA StopHubInv ==
  ASSUME HubInv, StopQuit \/ StopDrain
  PROVE  HubInv'
<1> USE DEF HubInv
<1>1. CASE StopQuit
  <2>1. TypeOK'
    BY <1>1 DEF StopQuit, TypeOK, clientVars
  <2>2. QED
    BY <1>1, <2>1 DEF StopQuit, clientVars, MapInv, HandInv, OrderInv, Untouched, Published
<1>2. CASE StopDrain
  <2>1. ~panicked'
    BY <1>2 DEF StopDrain, Close, MapInv
  <2>2. TypeOK'
    BY <1>2, <2>1 DEF StopDrain, Close, TypeOK
  <2>3. MapInv' /\ HandInv'
    BY <1>2 DEF StopDrain, Close, TypeOK, MapInv, HandInv, Untouched
  <2>4. OrderInv'
    BY <1>2 DEF StopDrain, OrderInv, Published
  <2>5. QED BY <2>1, <2>2, <2>3, <2>4
<1>3. QED BY <1>1, <1>2

(* A connection and its pumps. *)
LEMMA ConnectionHubInv ==
  ASSUME HubInv, NEW c \in Clients, Connect(c) \/ Break(c) \/ PumpStep(c)
  PROVE  HubInv'
<1> USE DEF HubInv
<1>1. CASE Write(c)
  <2>1. send[c] \in Seq(Nat) /\ send[c] # <<>> /\ got[c] \in Seq(Nat) /\ Len(send[c]) \in Nat
    BY <1>1, LenEvents DEF Write, TypeOK
  <2>2. /\ Head(send[c]) \in Nat
        /\ Tail(send[c]) \in Seq(Nat) /\ Len(Tail(send[c])) = Len(send[c]) - 1
    BY <2>1, TailEvent
  <2>3. Append(got[c], Head(send[c])) \in Seq(Nat)
    BY <2>1, <2>2, AppendEvent
  <2>4. /\ got' = [got EXCEPT ![c] = Append(got[c], Head(send[c]))]
        /\ send' = [send EXCEPT ![c] = Tail(send[c])]
    BY <1>1 DEF Write
  <2>5. TypeOK'
    <3>1. got' \in [Clients -> Seq(Nat)]
      BY <2>3, <2>4 DEF TypeOK
    <3>2. send' \in [Clients -> Seq(Nat)] /\ \A d \in Clients : Len(send'[d]) <= SendCap
      BY <2>1, <2>2, <2>4, HubAssumption DEF TypeOK
    <3>3. QED BY <1>1, <3>1, <3>2 DEF Write, TypeOK, hubVars
  <2>6. MapInv' /\ HandInv' /\ ~panicked'
    <3>1. ~Untouched(c) BY <2>1 DEF Untouched
    <3>2. \A d \in Clients \ {c} : send'[d] = send[d] /\ got'[d] = got[d]
      BY <2>4 DEF TypeOK
    <3>3. QED BY <1>1, <3>1, <3>2 DEF Write, hubVars, MapInv, HandInv, Untouched
  <2>7. OrderInv'
    BY <1>1 DEF Write, hubVars, OrderInv, Published
  <2>8. QED BY <2>5, <2>6, <2>7
<1>2. CASE Connect(c)
  <2>1. TypeOK'
    BY <1>2 DEF Connect, TypeOK, hubVars
  <2>2. conn[c] = "none" /\ reader[c] = "none"
    BY <1>2 DEF Connect, MapInv
  <2>3. MapInv' /\ HandInv' /\ OrderInv' /\ ~panicked'
    BY <1>2, <2>2
    DEF Connect, hubVars, TypeOK, MapInv, HandInv, OrderInv, Untouched, Published
  <2>4. QED BY <2>1, <2>3
<1>3. CASE Break(c) \/ ReadFails(c) \/ ReaderReturns(c) \/ WriterReturns(c)
  <2>1. TypeOK'
    BY <1>3 DEF Break, ReadFails, ReaderReturns, WriterReturns, TypeOK, hubVars
  <2>2. MapInv' /\ HandInv' /\ ~panicked'
    BY <1>3
    DEF Break, ReadFails, ReaderReturns, WriterReturns, hubVars,
        TypeOK, MapInv, HandInv, Untouched
  <2>3. OrderInv'
    BY <1>3
    DEF Break, ReadFails, ReaderReturns, WriterReturns, hubVars, OrderInv, Published
  <2>4. QED BY <2>1, <2>2, <2>3
<1>4. QED BY <1>1, <1>2, <1>3 DEF PumpStep

LEMMA StutterHubInv == HubInv /\ UNCHANGED vars => HubInv'
BY DEF vars, hubVars, clientVars, HubInv, TypeOK, MapInv, HandInv, OrderInv, Untouched, Published

LEMMA StepHubInv == HubInv /\ [Next]_vars => HubInv'
<1> SUFFICES ASSUME HubInv, [Next]_vars PROVE HubInv'
  OBVIOUS
<1>1. ASSUME NEW p \in Callers, Broadcast(p) \/ Accept(p) PROVE HubInv'
  BY <1>1, CallerHubInv
<1>2. CASE RunStep
  BY <1>2, ReceiveHubInv, HandleHubInv DEF RunStep
<1>3. CASE StopQuit \/ StopDrain
  BY <1>3, StopHubInv
<1>4. ASSUME NEW c \in Clients, Connect(c) \/ Break(c) \/ PumpStep(c) PROVE HubInv'
  BY <1>4, ConnectionHubInv
<1>5. CASE UNCHANGED vars
  BY <1>5, StutterHubInv
<1>6. QED BY <1>1, <1>2, <1>3, <1>4, <1>5 DEF Next

LEMMA Invariance == Spec => []HubInv
BY InitHubInv, StepHubInv, PTL DEF Spec

-----------------------------------------------------------------------------
(* The theorems *)

(* Types and capacities: whatever is broadcast and however slow the clients   *)
(* are, no channel of the hub holds more than it was made for.                *)
THEOREM HubTypes == Spec => []TypeOK
<1>1. HubInv => TypeOK BY DEF HubInv
<1>2. QED BY <1>1, Invariance, PTL

(* No panic: Run, Stop and the pumps never close a client's channel twice and *)
(* never send on a closed one, in whatever order they reach the map.          *)
THEOREM NeverPanics == Spec => []NoPanic
<1>1. HubInv => NoPanic BY DEF HubInv, NoPanic
<1>2. QED BY <1>1, Invariance, PTL

-----------------------------------------------------------------------------
(* The hub implements the event feed *)

\* What the abstract feed sees of the hub.
Sent  == [c \in Clients |-> got[c] \o send[c]]
Taken == [c \in Clients |-> Len(got[c])]

LEMMA FeedVars == /\ Feed!vars = <<Published, clients, Sent, Taken>>
                  /\ Feed!vars' = <<Published', clients', Sent', Taken'>>
BY DEF Feed!vars, Published, Sent, Taken

LEMMA InitFeed == Init => Feed!Init
<1> SUFFICES ASSUME Init PROVE Feed!Init
  OBVIOUS
<1>1. <<>> \o <<>> = <<>>
  BY NoEvents, ConcatEmptySeq
<1>2. Published = 0
  <2>1. hand.op = "none" /\ last = 0 /\ Len(broadcast) = 0
    BY NoEvents DEF Init, Empty
  <2>2. QED BY <2>1 DEF Published
<1>3. Sent = [c \in Clients |-> <<>>] /\ Taken = [c \in Clients |-> 0]
  <2>1. \A c \in Clients : got[c] = <<>> /\ send[c] = <<>> BY DEF Init
  <2>2. QED BY <2>1, <1>1, NoEvents DEF Sent, Taken
<1>4. QED
  BY <1>2, <1>3 DEF Init, Feed!Init, Published, Sent, Taken

(* Steps the feed does not see. *)
LEMMA SilentSteps ==
  ASSUME HubInv,
         \/ UNCHANGED vars
         \/ RunQuit \/ RunTake \/ StopQuit
         \/ \E p \in Callers : Broadcast(p) \/ Accept(p)
         \/ \E c \in Clients : \/ RunRegister(c) \/ RunUnregister(c)
                               \/ Connect(c) \/ Break(c)
                               \/ ReadFails(c) \/ ReaderReturns(c) \/ WriterReturns(c)
  PROVE  UNCHANGED Feed!vars
<1>1. UNCHANGED <<clients, got, send>>
  BY DEF vars, hubVars, clientVars, RunQuit, RunTake, StopQuit, Broadcast, Accept,
         RunRegister, RunUnregister, Connect, Break, ReadFails, ReaderReturns, WriterReturns
<1>2. Published' = Published
  <2> broadcast \in Seq(Nat) /\ Len(broadcast) \in Nat /\ last \in Nat
    BY LenEvents DEF HubInv, TypeOK
  <2>1. CASE RunTake
    <3>1. Len(broadcast') = Len(broadcast) - 1
      BY <2>1, TailEvent DEF RunTake
    <3>2. QED BY <2>1, <3>1 DEF RunTake, Receive, Empty, Published
  <2>2. ASSUME NEW p \in Callers, Accept(p) PROVE Published' = Published
    <3>1. Len(broadcast') = Len(broadcast) + 1
      BY <2>2, AppendEvent DEF Accept
    <3>2. QED BY <2>2, <3>1 DEF Accept, Published
  <2>3. ASSUME NEW c \in Clients, RunRegister(c) \/ RunUnregister(c)
        PROVE  Published' = Published
    <3>1. hand.op # "broadcast" /\ hand'.op # "broadcast"
      BY <2>3 DEF RunRegister, RunUnregister, Receive, Empty
    <3>2. broadcast' = broadcast /\ last' = last
      BY <2>3 DEF RunRegister, RunUnregister
    <3>3. QED BY <3>1, <3>2 DEF Published
  <2>4. CASE UNCHANGED <<broadcast, hand, last>>
    BY <2>4 DEF Published
  <2>5. QED
    BY <2>1, <2>2, <2>3, <2>4
    DEF vars, hubVars, clientVars, RunQuit, StopQuit, Broadcast,
        Connect, Break, ReadFails, ReaderReturns, WriterReturns
<1>3. Sent' = Sent /\ Taken' = Taken
  BY <1>1 DEF Sent, Taken
<1>4. QED BY <1>1, <1>2, <1>3, FeedVars

(* Run enters a client in the map: it joins, having been sent nothing. *)
LEMMA RegisterJoins == HubInv /\ Register => Feed!Next
<1> SUFFICES ASSUME HubInv, Register PROVE Feed!Next
  OBVIOUS
<1>1. hand.c \in Clients /\ Untouched(hand.c)
  BY DEF HubInv, Register, HandInv
<1>2. got[hand.c] \o send[hand.c] = <<>>
  BY <1>1, NoEvents, ConcatEmptySeq DEF Untouched
<1>3. Feed!Join(hand.c)
  BY <1>1, <1>2 DEF Feed!Join, Register, Untouched, Empty, clientVars
<1>4. QED BY <1>1, <1>3 DEF Feed!Next

(* A client that unregisters leaves, if it is still in the map; Stop makes all *)
(* of them leave.                                                             *)
LEMMA LeavingSteps == HubInv /\ (Unregister \/ StopDrain) => Feed!Next
<1> SUFFICES ASSUME HubInv, Unregister \/ StopDrain PROVE Feed!Next
  OBVIOUS
<1>0. clients \in SUBSET Clients
  BY DEF HubInv, TypeOK
<1>1. CASE Unregister
  <2>1. Feed!Leave({hand.c} \cap clients)
    BY <1>1 DEF Unregister, Empty, Feed!Leave
  <2>2. QED BY <2>1, <1>0 DEF Feed!Next
<1>2. CASE StopDrain
  <2>1. Feed!Leave(clients)
    BY <1>2 DEF StopDrain, Feed!Leave
  <2>2. QED BY <2>1, <1>0 DEF Feed!Next
<1>3. QED BY <1>1, <1>2

(* Run sends an event to the clients of the map: it is the next of the log, it *)
(* comes last in what each of them was sent, and full clients are cut off.    *)
LEMMA DeliverPublishes == HubInv /\ Deliver => Feed!Next
<1> SUFFICES ASSUME HubInv, Deliver PROVE Feed!Next
  OBVIOUS
<1> DEFINE full == {c \in clients : Len(send[c]) >= SendCap}
           into == clients \ full
<1>1. /\ full \in SUBSET Clients /\ full \subseteq clients
      /\ got' = got /\ clients' = into
      /\ send' = [c \in Clients |-> IF c \in into THEN Append(send[c], hand.m) ELSE send[c]]
  BY DEF HubInv, TypeOK, Deliver
<1>2. hand.m = Published + 1 /\ Published \in Nat /\ hand.m \in Nat
  BY DEF HubInv, OrderInv, Deliver, TypeOK
<1>3. Published' = Published + 1
  <2>1. last \in Nat /\ Len(broadcast) \in Nat
    BY LenEvents DEF HubInv, TypeOK
  <2>2. QED BY <2>1 DEF Deliver, Published, Empty
<1> HIDE DEF full
<1>4. ASSUME NEW c \in Clients
      PROVE  got'[c] \o send'[c] = IF c \in into THEN Append(got[c] \o send[c], Published + 1)
                                   ELSE got[c] \o send[c]
  <2>1. got[c] \in Seq(Nat) /\ send[c] \in Seq(Nat)
    BY DEF HubInv, TypeOK
  <2>2. CASE c \in into
    <3>1. got'[c] = got[c] /\ send'[c] = Append(send[c], Published + 1)
      BY <2>2, <1>1, <1>2
    <3>2. Published + 1 \in Nat
      BY <1>2
    <3>3. got[c] \o Append(send[c], Published + 1) = Append(got[c] \o send[c], Published + 1)
      BY <2>1, <3>2, SendLast
    <3>4. QED BY <2>2, <3>1, <3>3
  <2>3. CASE c \notin into
    BY <2>3, <1>1
  <2>4. QED BY <2>2, <2>3
<1>5. Sent' = [c \in Clients |-> IF c \in clients \ full THEN Append(Sent[c], Published + 1)
                                 ELSE Sent[c]]
  BY <1>4 DEF Sent
<1>6. Taken' = Taken
  BY <1>1 DEF Taken
<1>7. Feed!Publish(full)
  <2>1. clients' = clients \ full /\ full \subseteq clients
    BY <1>1
  <2>2. QED BY <2>1, <1>3, <1>5, <1>6 DEF Feed!Publish, Published, Sent, Taken
<1>8. full \in SUBSET Clients
  BY <1>1
<1>9. QED BY <1>7, <1>8 DEF Feed!Next, Feed!Publish

(* The write pump takes the next event of its channel: a read of the feed. *)
LEMMA WriteReads == HubInv /\ (\E c \in Clients : Write(c)) => Feed!Next
<1> SUFFICES ASSUME HubInv, NEW c \in Clients, Write(c) PROVE Feed!Next
  OBVIOUS
<1>1. /\ got \in [Clients -> Seq(Nat)] /\ send \in [Clients -> Seq(Nat)] /\ send[c] # <<>>
      /\ got' = [got EXCEPT ![c] = Append(got[c], Head(send[c]))]
      /\ send' = [send EXCEPT ![c] = Tail(send[c])]
  BY DEF HubInv, TypeOK, Write
<1>2. Head(send[c]) \in Nat
  BY <1>1, TailEvent
<1>3. \A d \in Clients : got'[d] \o send'[d] = got[d] \o send[d]
  BY <1>1, ReadFirst
<1>4. Sent' = Sent
  BY <1>3 DEF Sent
<1>5. Len(got'[c]) = Len(got[c]) + 1 /\ \A d \in Clients \ {c} : got'[d] = got[d]
  BY <1>1, <1>2, AppendEvent
<1>6. Taken' = [Taken EXCEPT ![c] = @ + 1]
  BY <1>5 DEF Taken
<1>7. Taken[c] < Len(Sent[c])
  <2>1. got[c] \in Seq(Nat) /\ send[c] \in Seq(Nat)
    BY <1>1
  <2>2. Len(got[c]) < Len(got[c] \o send[c])
    BY <2>1, <1>1, UnreadEvent
  <2>3. QED BY <2>2 DEF Sent, Taken
<1>8. Published' = Published /\ clients' = clients
  BY DEF Write, Published, hubVars
<1>9. Feed!Read(c)
  BY <1>4, <1>6, <1>7, <1>8 DEF Feed!Read, Published, Sent, Taken
<1>10. QED BY <1>9 DEF Feed!Next

LEMMA StepFeed == HubInv /\ [Next]_vars => [Feed!Next]_(Feed!vars)
<1> SUFFICES ASSUME HubInv, [Next]_vars PROVE Feed!Next \/ UNCHANGED Feed!vars
  OBVIOUS
<1>1. CASE Register \/ Unregister \/ Deliver \/ StopDrain \/ \E c \in Clients : Write(c)
  BY <1>1, RegisterJoins, LeavingSteps, DeliverPublishes, WriteReads
<1>2. CASE ~(Register \/ Unregister \/ Deliver \/ StopDrain \/ \E c \in Clients : Write(c))
  <2>1. UNCHANGED Feed!vars
    BY <1>2, SilentSteps DEF Next, RunStep, PumpStep
  <2>2. QED BY <2>1
<1>3. QED BY <1>1, <1>2

(* The refinement: what the clients see of the hub, over channels, pumps and  *)
(* Stop, is one log of events; each client of the map is sent every event or  *)
(* cut off, and reads what it was sent in that order, without a gap.          *)
THEOREM HubImplementsFeed == Spec => FeedSpec
<1>1. HubInv /\ [Next]_vars => [Feed!Next]_(Feed!vars)
  BY StepFeed
<1>2. QED BY <1>1, InitFeed, Invariance, PTL DEF Spec, FeedSpec, Feed!Spec
=============================================================================
