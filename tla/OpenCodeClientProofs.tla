------------------------ MODULE OpenCodeClientProofs ------------------------
(***************************************************************************)
(* Proofs about OpenCodeClient, for any number of goroutines, sessions,    *)
(* attempts and prompts.                                                   *)
(***************************************************************************)
EXTENDS OpenCodeClient, TLAPS

-----------------------------------------------------------------------------
(* The invariant *)

Pcs == Requesting \cup {"idle", "track", "wait", "result", "untrack", "untrack.next",
                        "next", "cleaned"}
Reply == [prompt: Callers \cup {None}, done: BOOLEAN]
Call == [pc: Pcs, s: Sessions \cup {None}, attempt: 1..MaxAttempts, whole: BOOLEAN, reply: Reply,
         copy: SUBSET Sessions, todo: SUBSET Sessions, failed: BOOLEAN]

\* The server's new ids were not handed out before: what is deleted stays deleted.
Handed(s) == owner[s] # None

\* What a Cleanup has still to delete.
Ahead(r) == r.todo \cup (IF r.pc = "clean" THEN {r.s} ELSE {})

(* What holds of the record r of a call.  A call about a session has one; what *)
(* is copied or being deleted was handed out; only a Cleanup on its way        *)
(* through its list has sessions left; what is about to leave the list is gone *)
(* from the server; and without an error, what is not ahead is gone as well.   *)
CallOK(r) ==
  /\ r.pc \notin {"idle", "create", "next", "cleaned"} => r.s \in Sessions
  /\ \A s \in r.copy \cup r.todo : Handed(s)
  /\ r.pc \in {"delete", "clean", "untrack", "untrack.next"} => Handed(r.s)
  /\ r.todo # {} => r.pc \in {"next", "clean", "untrack.next"}
  /\ r.pc \in {"untrack", "untrack.next"} => r.s \notin live
  /\ ~r.failed => r.copy \cap live \subseteq Ahead(r)

\* As NothingForgotten, without the sessions held by a deletion that may yet fail.
KnownOK ==
  \A s \in live : Handed(s) =>
    s \in tracked \cup abandoned \/ \E p \in Callers : s \in Ahead(call[p])

ClientInv ==
  /\ TypeOK
  /\ \A p \in Callers : CallOK(call[p])
  /\ \A s \in tracked : Handed(s)
  /\ KnownOK

\* The same as TypeOK, with the names above.
LEMMA Typed ==
  TypeOK <=> /\ live \subseteq Sessions /\ tracked \subseteq Sessions /\ abandoned \subseteq Sessions
             /\ transcript \in [Sessions -> Seq(Reply)]
             /\ owner \in [Sessions -> Callers \cup {None}]
             /\ call \in [Callers -> Call]
BY DEF TypeOK, Reply, Call, Pcs

LEMMA IdleIsCall == Idle \in Call /\ NoReply \in Reply
BY OpenCodeAssumption DEF Idle, Call, Pcs, NoReply, Reply

-----------------------------------------------------------------------------
(* Steps of one goroutine *)

\* What a step leaves to the server: sessions may go, and new ones are nobody's.
ServerKept ==
  /\ live' \subseteq Sessions /\ transcript' \in [Sessions -> Seq(Reply)]
  /\ \A s \in live' : s \in live \/ ~Handed(s)

LEMMA Stays == ClientInv /\ UNCHANGED server => ServerKept
BY Typed DEF ClientInv, ServerKept, server

LEMMA NewIdIsUnused == Unused # {} => NewId \in Unused
BY DEF NewId

LEMMA Served ==
  ASSUME ClientInv, NEW p \in Callers, Serve(p)
  PROVE  ServerKept
<1>0. /\ live \subseteq Sessions /\ transcript \in [Sessions -> Seq(Reply)] /\ call[p] \in Call
      /\ CallOK(call[p])
  BY Typed DEF ClientInv
<1>1. CASE At(p, "create") /\ ServeCreate
  <2>1. NewId \in Sessions /\ ~Handed(NewId)
    BY <1>1, NewIdIsUnused DEF ServeCreate, Unused, Handed
  <2>2. QED BY <1>0, <1>1, <2>1 DEF ServeCreate, ServerKept
<1>2. CASE At(p, "send") /\ ServePrompt(p)
  <2> DEFINE s == call[p].s
  <2>1. s \in Sessions BY <1>0, <1>2 DEF CallOK, At
  <2>2. PICK d \in BOOLEAN :
          transcript' = [transcript EXCEPT ![s] =
                           Append(@, [prompt |-> IF call[p].whole THEN p ELSE None, done |-> d])]
    BY <1>2 DEF ServePrompt
  <2>3. [prompt |-> IF call[p].whole THEN p ELSE None, done |-> d] \in Reply
    BY DEF Reply
  <2>4. Append(transcript[s], [prompt |-> IF call[p].whole THEN p ELSE None, done |-> d]) \in Seq(Reply)
    BY <1>0, <2>1, <2>3
  <2> HIDE DEF s
  <2>5. transcript' \in [Sessions -> Seq(Reply)]
    BY <1>0, <2>2, <2>4
  <2>6. QED BY <1>0, <1>2, <2>5 DEF ServePrompt, ServerKept
<1>3. CASE (At(p, "peek") \/ At(p, "poll")) /\ ServeMessages(p)
  BY <1>3, Stays DEF ServeMessages
<1>4. CASE (At(p, "delete") \/ At(p, "clean")) /\ ServeDelete(p)
  BY <1>0, <1>4 DEF ServeDelete, ServerKept
<1>5. QED BY <1>1, <1>2, <1>3, <1>4 DEF Serve

\* The invariant after a step of p that leaves r in its call.
LEMMA StepOf ==
  ASSUME ClientInv, NEW p \in Callers, NEW r \in Call, call' = [call EXCEPT ![p] = r],
         CallOK(call[p])', ServerKept,
         tracked' \subseteq Sessions, abandoned' \subseteq Sessions,
         owner' \in [Sessions -> Callers \cup {None}],
         \A s \in Sessions : Handed(s) => Handed(s)',
         \A s \in tracked' : Handed(s)',
         \A s \in live' : Handed(s)' =>
           \/ s \in tracked' \cup abandoned' \cup Ahead(r)
           \/ \E q \in Callers : q # p /\ s \in Ahead(call[q])
  PROVE  ClientInv'
<1>0. /\ call \in [Callers -> Call] /\ owner \in [Sessions -> Callers \cup {None}]
      /\ call'[p] = r
      /\ \A q \in Callers : q # p => call'[q] = call[q]
  BY Typed DEF ClientInv
<1>1. TypeOK'
  <2>1. call' \in [Callers -> Call] BY <1>0
  <2>2. QED BY <2>1, Typed DEF ServerKept, TypeOK, Reply, Call, Pcs
<1>2. ASSUME NEW q \in Callers PROVE CallOK(call[q])'
  <2>1. CASE q = p BY <2>1
  <2>2. CASE q # p
    <3>1. CallOK(call[q]) /\ call[q] \in Call /\ call'[q] = call[q]
      BY <1>0, <2>2 DEF ClientInv
    <3>2. \A s \in Sessions : Handed(s) => Handed(s)' /\ (s \in live' => s \in live)
      BY DEF ServerKept
    <3>3. QED BY <3>1, <3>2 DEF CallOK, Call, Ahead
  <2>3. QED BY <2>1, <2>2
<1>3. KnownOK'
  <2>1. ASSUME NEW s \in live', Handed(s)'
        PROVE  s \in tracked' \cup abandoned' \/ \E q \in Callers : s \in Ahead(call'[q])
    BY <1>0, <2>1
  <2>2. QED BY <2>1 DEF KnownOK, Ahead
<1>4. QED BY <1>1, <1>2, <1>3 DEF ClientInv

\* Most steps leave the list alone and no session behind.
LEMMA QuietStep ==
  ASSUME ClientInv, NEW p \in Callers, NEW r \in Call, call' = [call EXCEPT ![p] = r],
         ServerKept, UNCHANGED client, CallOK(r)', Ahead(call[p]) \subseteq Ahead(r)
  PROVE  ClientInv'
<1>1. /\ tracked' = tracked /\ owner' = owner /\ abandoned' = abandoned
      /\ call \in [Callers -> Call] /\ owner \in [Sessions -> Callers \cup {None}]
      /\ tracked \subseteq Sessions /\ abandoned \subseteq Sessions
      /\ \A s \in tracked : Handed(s)
      /\ KnownOK
  BY Typed DEF ClientInv, client
<1>2. \A s \in Sessions : Handed(s)' <=> Handed(s)
  BY <1>1 DEF Handed
<1>3. CallOK(call[p])'
  BY <1>1
<1>4. ASSUME NEW s \in live', Handed(s)'
      PROVE  \/ s \in tracked' \cup abandoned' \cup Ahead(r)
             \/ \E q \in Callers : q # p /\ s \in Ahead(call[q])
  <2>1. s \in live /\ Handed(s)
    BY <1>2, <1>4 DEF ServerKept
  <2>2. s \in tracked \cup abandoned \/ \E q \in Callers : s \in Ahead(call[q])
    BY <1>1, <2>1 DEF KnownOK
  <2>3. QED BY <1>1, <2>2
<1>5. QED BY <1>1, <1>2, <1>3, <1>4, StepOf

\* A call that has no session of a Cleanup ahead of it can take up anything that has not.
LEMMA FreshCall ==
  ASSUME ClientInv, NEW p \in Callers, call[p].pc \notin {"next", "clean", "untrack.next"},
         ServerKept, UNCHANGED client, NEW r \in Call, call' = [call EXCEPT ![p] = r],
         r.copy = {}, r.todo = {},
         r.pc \notin {"next", "clean", "untrack", "untrack.next"},
         r.pc \notin {"idle", "create", "cleaned"} => r.s \in Sessions,
         r.pc = "delete" => Handed(r.s)
  PROVE  ClientInv'
<1>1. Ahead(call[p]) = {}
  BY DEF ClientInv, CallOK, Ahead
<1>2. Handed(r.s)' = Handed(r.s) BY DEF client, Handed
<1>3. CallOK(r)'
  BY <1>2 DEF CallOK, Ahead
<1>4. QED BY <1>1, <1>3, QuietStep

\* A call goes on with what it has.
LEMMA SameCall ==
  ASSUME ClientInv, NEW p \in Callers, ServerKept, UNCHANGED client,
         NEW pc \in Pcs \ {"untrack", "untrack.next"},
         NEW attempt \in 1..MaxAttempts, NEW whole \in BOOLEAN,
         call' = [call EXCEPT ![p].pc = pc, ![p].attempt = attempt, ![p].whole = whole],
         \/ pc = call[p].pc
         \/ pc \notin {"delete", "clean"} /\ call[p].todo = {} /\ call[p].pc \notin {"idle", "create", "next", "cleaned", "clean"}
         \/ pc = "cleaned" /\ call[p].pc = "next" /\ call[p].todo = {}
  PROVE  ClientInv'
<1>0. call \in [Callers -> Call] /\ call[p] \in Call /\ CallOK(call[p])
  BY Typed DEF ClientInv
<1>1. PICK r \in Call : r = [call[p] EXCEPT !.pc = pc, !.attempt = attempt, !.whole = whole]
  BY <1>0 DEF Call
<1>2. /\ r.pc = pc /\ r.s = call[p].s /\ r.copy = call[p].copy /\ r.todo = call[p].todo
      /\ r.failed = call[p].failed
  BY <1>0, <1>1 DEF Call
<1>3. call' = [call EXCEPT ![p] = r]
  BY <1>0, <1>1
<1>4. Ahead(call[p]) = Ahead(r)
  BY <1>0, <1>2 DEF Ahead
<1>5. \A s : Handed(s)' = Handed(s) BY DEF client, Handed
<1>6. \A s \in live' : Handed(s) => s \in live
  BY DEF ServerKept
<1>7. CallOK(r)'
  BY <1>0, <1>2, <1>4, <1>5, <1>6 DEF CallOK, Ahead
<1>8. QED BY <1>3, <1>4, <1>7, QuietStep

LEMMA Returns ==
  ASSUME ClientInv, NEW p \in Callers, call[p].pc \notin {"next", "clean", "untrack.next"},
         ServerKept, UNCHANGED client, Return(p)
  PROVE  ClientInv'
<1>1. Idle.pc = "idle" /\ Idle.copy = {} /\ Idle.todo = {}
  BY DEF Idle
<1>2. QED BY <1>1, FreshCall, IdleIsCall DEF Return

LEMMA Awaits ==
  ASSUME ClientInv, NEW p \in Callers, call[p].pc \in {"send", "peek", "poll"},
         ServerKept, UNCHANGED client, NEW initial \in Reply, Await(p, initial)
  PROVE  ClientInv'
<1>1. call[p].s \in Sessions
  BY DEF ClientInv, CallOK
<1>2. PICK r : /\ r \in {[Idle EXCEPT !.pc = "result", !.s = call[p].s, !.reply = initial],
                        [Idle EXCEPT !.pc = "wait", !.s = call[p].s]}
               /\ call' = [call EXCEPT ![p] = r]
  BY DEF Await
<1>3. /\ r \in Call /\ r.pc \in {"wait", "result"} /\ r.s = call[p].s
      /\ r.copy = {} /\ r.todo = {}
  BY <1>1, <1>2, IdleIsCall DEF Idle, Call, Pcs
<1>4. QED BY <1>1, <1>2, <1>3, FreshCall

\* A new call about nothing, or about a session of the caller's own.
LEMMA Begins ==
  ASSUME ClientInv, NEW p \in Callers, NEW pc \in {"create", "send", "delete"},
         NEW s \in Sessions \cup {None}, pc = "create" \/ (s \in Sessions /\ owner[s] = p),
         Begin(p, pc, s)
  PROVE  ClientInv'
<1>1. PICK r : r = [Idle EXCEPT !.pc = pc, !.s = s] OBVIOUS
<1>2. r \in Call /\ r.pc = pc /\ r.s = s /\ r.copy = {} /\ r.todo = {}
  BY <1>1, IdleIsCall DEF Idle, Call, Pcs, Requesting
<1>3. call' = [call EXCEPT ![p] = r] /\ call[p].pc = "idle" /\ UNCHANGED server /\ UNCHANGED client
  BY <1>1 DEF Begin, Idle
<1>4. pc = "delete" => Handed(s)
  BY OpenCodeAssumption DEF Handed
<1>5. QED BY <1>2, <1>3, <1>4, FreshCall, Stays

\* Cleanup, between two sessions, with the error of the last one or without.
LEMMA NextSession ==
  ASSUME ClientInv, NEW p \in Callers, NEW r \in Call, call' = [call EXCEPT ![p] = r],
         call[p].pc \in {"clean", "untrack.next"},
         r.pc = "next", r.copy = call[p].copy, r.todo = call[p].todo,
         ServerKept, UNCHANGED owner,
         \/ UNCHANGED tracked /\ abandoned' = abandoned \cup {call[p].s} /\ r.failed
         \/ /\ call[p].pc = "untrack.next" /\ r.failed = call[p].failed
            /\ tracked' = tracked \ {call[p].s} /\ UNCHANGED abandoned
  PROVE  ClientInv'
<1>0. /\ call \in [Callers -> Call] /\ call[p] \in Call /\ CallOK(call[p])
      /\ owner \in [Sessions -> Callers \cup {None}]
      /\ tracked \subseteq Sessions /\ abandoned \subseteq Sessions
      /\ \A s \in tracked : Handed(s)
      /\ KnownOK
  BY Typed DEF ClientInv
<1>1. call[p].s \in Sessions
  BY <1>0 DEF CallOK
<1>2. \A s : Handed(s)' = Handed(s) BY DEF Handed
<1>3. \A s \in live' : Handed(s) => s \in live
  BY DEF ServerKept
<1>4. Ahead(r) = call[p].todo /\ Ahead(call[p]) \subseteq call[p].todo \cup {call[p].s}
  BY DEF Ahead
<1>5. CallOK(r)'
  <2>1. CASE r.failed
    BY <1>0, <1>2, <2>1 DEF CallOK
  <2>2. CASE call[p].pc = "untrack.next" /\ r.failed = call[p].failed
    <3>1. Ahead(call[p]) = call[p].todo BY <2>2 DEF Ahead
    <3>2. QED BY <1>0, <1>2, <1>3, <1>4, <2>2, <3>1 DEF CallOK, Ahead
  <2>3. QED BY <2>1, <2>2
<1>6. ASSUME NEW s \in live', Handed(s)'
      PROVE  \/ s \in tracked' \cup abandoned' \cup Ahead(r)
             \/ \E q \in Callers : q # p /\ s \in Ahead(call[q])
  <2>1. s \in live /\ Handed(s)
    BY <1>2, <1>3, <1>6
  <2>2. s \in tracked \cup abandoned \/ \E q \in Callers : s \in Ahead(call[q])
    BY <1>0, <2>1 DEF KnownOK
  <2>3. s \in abandoned' \/ s # call[p].s
    BY <1>0, <2>1 DEF CallOK
  <2>4. CASE s \in tracked \cup abandoned
    BY <2>3, <2>4
  <2>5. CASE \E q \in Callers : s \in Ahead(call[q])
    BY <1>4, <2>3, <2>5
  <2>6. QED BY <2>2, <2>4, <2>5
<1>7. CallOK(call[p])'
  BY <1>0, <1>5
<1>8. QED
  BY <1>0, <1>1, <1>2, <1>6, <1>7, StepOf

LEMMA GivesUp ==
  ASSUME ClientInv, NEW p \in Callers, call[p].pc \in Requesting, ServerKept, GiveUp(p),
         UNCHANGED <<owner, tracked>>
  PROVE  ClientInv'
<1>0. /\ call \in [Callers -> Call] /\ call[p] \in Call /\ CallOK(call[p])
      /\ 1 \in 1..MaxAttempts
  BY Typed, OpenCodeAssumption DEF ClientInv
<1>1. CASE (At(p, "create") \/ At(p, "peek") \/ At(p, "delete")) /\ Return(p) /\ UNCHANGED abandoned
  BY <1>1, Returns DEF At, client
<1>2. ASSUME NEW from, NEW to, <<from, to>> \in {<<"send", "peek">>, <<"poll", "wait">>},
             At(p, from), Goto(p, to), UNCHANGED abandoned
      PROVE  ClientInv'
  <2>1. call[p].todo = {} /\ call[p].pc \in {"send", "poll"} /\ to \in {"peek", "wait"}
    BY <1>0, <1>2 DEF CallOK, At
  <2>2. to \in Pcs \ {"untrack", "untrack.next"} /\ TRUE \in BOOLEAN
    BY <1>0, <2>1 DEF Pcs, Requesting
  <2>3. PICK attempt \in 1..MaxAttempts, whole \in BOOLEAN : attempt = 1 /\ whole = TRUE
    BY <1>0
  <2>4. call' = [call EXCEPT ![p].pc = to, ![p].attempt = attempt, ![p].whole = whole]
    BY <1>2, <2>3 DEF Goto
  <2>5. UNCHANGED client
    BY <1>2 DEF client
  <2>6. QED BY <2>1, <2>2, <2>4, <2>5, SameCall
<1>3. CASE /\ At(p, "clean")
           /\ call' = [call EXCEPT ![p] = [@ EXCEPT !.pc = "next", !.s = None, !.attempt = 1, !.failed = TRUE]]
           /\ abandoned' = abandoned \cup {call[p].s}
  <2>1. PICK r : r = [call[p] EXCEPT !.pc = "next", !.s = None, !.attempt = 1, !.failed = TRUE]
    OBVIOUS
  <2>2. /\ r \in Call /\ r.pc = "next" /\ r.copy = call[p].copy /\ r.todo = call[p].todo /\ r.failed
    BY <1>0, <2>1 DEF Call, Pcs
  <2>3. call' = [call EXCEPT ![p] = r]
    BY <1>0, <1>3, <2>1
  <2>4. QED BY <1>3, <2>2, <2>3, NextSession DEF At
<1>4. QED BY <1>1, <1>2, <1>3 DEF GiveUp

-----------------------------------------------------------------------------
(* One lemma per action *)

LEMMA CleanupStep == ASSUME ClientInv, NEW p \in Callers, Cleanup(p) PROVE ClientInv'
<1>0. /\ call \in [Callers -> Call] /\ tracked \subseteq Sessions /\ abandoned \subseteq Sessions
      /\ owner \in [Sessions -> Callers \cup {None}]
      /\ \A s \in tracked : Handed(s)
      /\ KnownOK
  BY Typed DEF ClientInv
<1>1. PICK r : r = [Idle EXCEPT !.pc = "next", !.copy = tracked, !.todo = tracked]
  OBVIOUS
<1>2. r \in Call /\ r.pc = "next" /\ r.copy = tracked /\ r.todo = tracked
  BY <1>0, <1>1, IdleIsCall DEF Idle, Call, Pcs
<1>3. /\ call' = [call EXCEPT ![p] = r] /\ call'[p] = r /\ call[p].pc = "idle" /\ call[p].todo = {}
      /\ tracked' = {} /\ UNCHANGED server /\ owner' = owner /\ abandoned' = abandoned
  BY <1>0, <1>1 DEF Cleanup, Idle
<1>4. \A s : Handed(s)' = Handed(s) BY <1>3 DEF Handed
<1>5. CallOK(call[p])'
  BY <1>0, <1>2, <1>3, <1>4 DEF CallOK, Ahead
<1>6. ServerKept /\ live' = live BY <1>3, Stays DEF server
<1>7. ASSUME NEW s \in live', Handed(s)'
      PROVE  \/ s \in tracked' \cup abandoned' \cup Ahead(r)
             \/ \E q \in Callers : q # p /\ s \in Ahead(call[q])
  <2>1. s \in tracked \cup abandoned \/ \E q \in Callers : s \in Ahead(call[q])
    BY <1>0, <1>4, <1>6, <1>7 DEF KnownOK
  <2>2. Ahead(call[p]) = {} /\ Ahead(r) = tracked
    BY <1>2, <1>3 DEF Ahead
  <2>3. QED BY <1>3, <2>1, <2>2
<1>8. QED BY <1>0, <1>2, <1>3, <1>4, <1>5, <1>6, <1>7, StepOf

LEMMA RetryStep == ASSUME ClientInv, NEW p \in Callers, Retry(p) PROVE ClientInv'
<1>0. /\ call \in [Callers -> Call] /\ call[p] \in Call /\ MaxAttempts \in Nat
  BY Typed, OpenCodeAssumption DEF ClientInv
<1>1. ServerKept
  BY Served, Stays DEF Retry
<1>2. PICK read \in BOOLEAN :
        \/ /\ call[p].attempt < MaxAttempts
           /\ call' = [call EXCEPT ![p].attempt = @ + 1, ![p].whole = @ /\ ~(read /\ At(p, "send"))]
           /\ UNCHANGED abandoned
        \/ call[p].attempt >= MaxAttempts /\ GiveUp(p)
  BY DEF Retry
<1>3. CASE GiveUp(p)
  BY <1>1, <1>3, GivesUp DEF Retry
<1>4. CASE /\ call[p].attempt < MaxAttempts
           /\ call' = [call EXCEPT ![p].attempt = @ + 1, ![p].whole = @ /\ ~(read /\ At(p, "send"))]
           /\ UNCHANGED abandoned
  <2> DEFINE attempt == call[p].attempt + 1
             whole == call[p].whole /\ ~(read /\ At(p, "send"))
  <2>1. attempt \in 1..MaxAttempts /\ call[p].pc \in Pcs \ {"untrack", "untrack.next"}
    BY <1>0, <1>4 DEF Retry, Call, Pcs, Requesting
  <2>2. whole \in BOOLEAN OBVIOUS
  <2>3. call' = [call EXCEPT ![p].pc = call[p].pc, ![p].attempt = attempt, ![p].whole = whole]
    BY <1>0, <1>4 DEF Call
  <2> HIDE DEF attempt, whole
  <2>4. UNCHANGED client
    BY <1>4 DEF client, Retry
  <2>5. PICK pc \in Pcs \ {"untrack", "untrack.next"} : pc = call[p].pc
    BY <2>1
  <2>6. call' = [call EXCEPT ![p].pc = pc, ![p].attempt = attempt, ![p].whole = whole]
    BY <2>3, <2>5
  <2>7. QED BY <1>1, <2>1, <2>2, <2>4, <2>5, <2>6, SameCall
<1>5. QED BY <1>2, <1>3, <1>4

LEMMA FailStep == ASSUME ClientInv, NEW p \in Callers, Fail(p) PROVE ClientInv'
BY Served, Stays, GivesUp DEF Fail

LEMMA CreateAnsweredStep == ASSUME ClientInv, NEW p \in Callers, CreateAnswered(p) PROVE ClientInv'
<1>1. ServerKept
  BY Served DEF CreateAnswered, Serve
<1>2. NewId \in Sessions
  BY NewIdIsUnused DEF CreateAnswered, ServeCreate, Unused
<1>3. PICK r : r = [Idle EXCEPT !.pc = "track", !.s = NewId] OBVIOUS
<1>4. r \in Call /\ r.pc = "track" /\ r.s = NewId /\ r.copy = {} /\ r.todo = {}
  BY <1>2, <1>3, IdleIsCall DEF Idle, Call, Pcs
<1>5. QED BY <1>1, <1>2, <1>3, <1>4, FreshCall DEF CreateAnswered, At

LEMMA TrackStep == ASSUME ClientInv, NEW p \in Callers, Track(p) PROVE ClientInv'
<1>0. /\ call \in [Callers -> Call] /\ tracked \subseteq Sessions /\ abandoned \subseteq Sessions
      /\ owner \in [Sessions -> Callers \cup {None}]
      /\ \A s \in tracked : Handed(s)
      /\ KnownOK /\ CallOK(call[p])
      /\ None \notin Callers
  BY Typed, OpenCodeAssumption DEF ClientInv
<1>1. /\ call[p].s \in Sessions /\ call[p].todo = {} /\ call[p].pc = "track"
      /\ Idle.pc = "idle" /\ Idle.copy = {} /\ Idle.todo = {}
  BY <1>0 DEF Track, At, CallOK, Idle
<1>2. /\ tracked' = tracked \cup {call[p].s} /\ owner' = [owner EXCEPT ![call[p].s] = p]
      /\ call' = [call EXCEPT ![p] = Idle] /\ call'[p] = Idle
      /\ UNCHANGED server /\ abandoned' = abandoned
  BY <1>0 DEF Track, Return
<1>3. \A s \in Sessions : Handed(s)' <=> Handed(s) \/ s = call[p].s
  BY <1>0, <1>1, <1>2 DEF Handed
<1>4. ServerKept /\ live' = live BY <1>2, Stays DEF server
<1>5. CallOK(call[p])'
  BY <1>1, <1>2 DEF CallOK, Ahead
<1>6. ASSUME NEW s \in live', Handed(s)'
      PROVE  \/ s \in tracked' \cup abandoned' \cup Ahead(Idle)
             \/ \E q \in Callers : q # p /\ s \in Ahead(call[q])
  <2>1. CASE s = call[p].s BY <1>2, <2>1
  <2>2. CASE s # call[p].s
    <3>1. s \in live /\ Handed(s) BY <1>2, <1>3, <1>4, <1>6, <2>2 DEF ServerKept
    <3>2. Ahead(call[p]) = {} BY <1>1 DEF Ahead
    <3>3. QED BY <1>0, <1>2, <3>1, <3>2 DEF KnownOK
  <2>3. QED BY <2>1, <2>2
<1>7. \A s \in tracked' : Handed(s)'
  BY <1>0, <1>1, <1>2, <1>3
<1>8. tracked' \subseteq Sessions /\ owner' \in [Sessions -> Callers \cup {None}]
  BY <1>0, <1>1, <1>2
<1>9. QED BY <1>0, <1>2, <1>3, <1>4, <1>5, <1>6, <1>7, <1>8, IdleIsCall, StepOf

LEMMA SendAnsweredStep == ASSUME ClientInv, NEW p \in Callers, SendAnswered(p) PROVE ClientInv'
<1>1. ServerKept
  BY Served DEF SendAnswered, Serve
<1>2. call[p].s \in Sessions
  BY DEF ClientInv, CallOK, SendAnswered, At
<1>3. Last(transcript'[call[p].s]) \in Reply
  <2> DEFINE s == call[p].s
  <2>1. transcript \in [Sessions -> Seq(Reply)] /\ call[p] \in Call
    BY Typed DEF ClientInv
  <2>2. PICK d \in BOOLEAN :
          transcript' = [transcript EXCEPT ![s] =
                           Append(@, [prompt |-> IF call[p].whole THEN p ELSE None, done |-> d])]
    BY DEF SendAnswered, ServePrompt
  <2>3. PICK e \in Reply : e = [prompt |-> IF call[p].whole THEN p ELSE None, done |-> d]
    <3>1. [prompt |-> IF call[p].whole THEN p ELSE None, done |-> d] \in Reply
      BY DEF Reply
    <3>2. QED BY <3>1
  <2>4. transcript'[s] = Append(transcript[s], e) /\ transcript[s] \in Seq(Reply)
    BY <1>2, <2>1, <2>2, <2>3
  <2> HIDE DEF s
  <2>5. Last(transcript'[s]) = e
    BY <2>4 DEF Last
  <2>6. QED BY <2>5 DEF s
<1>4. PICK r \in Reply : Await(p, r)
  BY <1>3, IdleIsCall DEF SendAnswered
<1>5. QED BY <1>1, <1>4, Awaits DEF SendAnswered, At

LEMMA PeekAnsweredStep == ASSUME ClientInv, NEW p \in Callers, PeekAnswered(p) PROVE ClientInv'
<1>1. ServerKept
  BY Stays DEF PeekAnswered, ServeMessages
<1>2. call[p].s \in Sessions /\ transcript[call[p].s] \in Seq(Reply)
  BY Typed DEF ClientInv, CallOK, PeekAnswered, At
<1>3. CASE Return(p)
  BY <1>1, <1>3, Returns DEF PeekAnswered, At
<1>4. CASE transcript[call[p].s] # <<>> /\ Await(p, Last(transcript[call[p].s]))
  <2>1. Last(transcript[call[p].s]) \in Reply
    BY <1>2, <1>4 DEF Last
  <2>2. PICK r \in Reply : Await(p, r)
    BY <1>4, <2>1
  <2>3. QED BY <1>1, <2>2, Awaits DEF PeekAnswered, At
<1>5. QED BY <1>3, <1>4 DEF PeekAnswered

\* A poll and the wait for the next one.
LEMMA WaitStep ==
  ASSUME ClientInv, NEW p \in Callers, ServerKept, UNCHANGED client,
         NEW pc \in {"poll", "wait"}, call[p].pc \in {"poll", "wait"}, Goto(p, pc)
  PROVE  ClientInv'
<1>1. call[p].todo = {}
  BY DEF ClientInv, CallOK
<1>2. PICK attempt \in 1..MaxAttempts, whole \in BOOLEAN : attempt = 1 /\ whole = TRUE
  <2>1. 1 \in 1..MaxAttempts BY OpenCodeAssumption
  <2>2. QED BY <2>1
<1>3. call' = [call EXCEPT ![p].pc = pc, ![p].attempt = attempt, ![p].whole = whole]
  BY <1>2 DEF Goto
<1>4. pc \in Pcs \ {"untrack", "untrack.next"} BY DEF Pcs, Requesting
<1>5. QED BY <1>1, <1>3, <1>4, SameCall

LEMMA PollAnsweredStep == ASSUME ClientInv, NEW p \in Callers, PollAnswered(p) PROVE ClientInv'
<1>1. ServerKept
  BY Stays DEF PollAnswered, ServeMessages
<1>2. call[p].s \in Sessions /\ transcript[call[p].s] \in Seq(Reply)
  BY Typed DEF ClientInv, CallOK, PollAnswered, At
<1>3. CASE Goto(p, "wait")
  BY <1>1, <1>3, WaitStep DEF PollAnswered, At
<1>4. CASE \E i \in DOMAIN transcript[call[p].s] : Await(p, transcript[call[p].s][i])
  <2>1. PICK r \in Reply : Await(p, r)
    BY <1>2, <1>4
  <2>2. QED BY <1>1, <2>1, Awaits DEF PollAnswered, At
<1>5. QED BY <1>3, <1>4 DEF PollAnswered

LEMMA DeleteAnsweredStep == ASSUME ClientInv, NEW p \in Callers, DeleteAnswered(p) PROVE ClientInv'
<1>0. /\ call \in [Callers -> Call] /\ call[p] \in Call /\ CallOK(call[p])
      /\ owner \in [Sessions -> Callers \cup {None}] /\ tracked \subseteq Sessions
      /\ abandoned \subseteq Sessions /\ (\A s \in tracked : Handed(s)) /\ KnownOK
  BY Typed DEF ClientInv
<1>1. ServerKept /\ live' = live \ {call[p].s}
  BY Served DEF DeleteAnswered, Serve, ServeDelete
<1>2. PICK r : r = [call[p] EXCEPT !.pc = IF call[p].pc = "delete" THEN "untrack" ELSE "untrack.next"]
  OBVIOUS
<1>3. /\ r \in Call /\ r.s = call[p].s /\ r.copy = call[p].copy /\ r.todo = call[p].todo
      /\ r.failed = call[p].failed
      /\ r.pc = IF call[p].pc = "delete" THEN "untrack" ELSE "untrack.next"
  BY <1>0, <1>2 DEF Call, Pcs
<1>4. call' = [call EXCEPT ![p] = r] /\ call'[p] = r
  BY <1>0, <1>2 DEF DeleteAnswered
<1>5. /\ owner' = owner /\ tracked' = tracked /\ abandoned' = abandoned
      /\ call[p].pc \in {"delete", "clean"}
  BY DEF DeleteAnswered, client, At
<1>6. \A s : Handed(s)' = Handed(s) BY <1>5 DEF Handed
<1>7. CallOK(call[p])'
  BY <1>0, <1>1, <1>3, <1>4, <1>5, <1>6 DEF CallOK, Ahead
<1>8. ASSUME NEW s \in live', Handed(s)'
      PROVE  \/ s \in tracked' \cup abandoned' \cup Ahead(r)
             \/ \E q \in Callers : q # p /\ s \in Ahead(call[q])
  <2>1. s \in live /\ Handed(s) /\ s # call[p].s
    BY <1>1, <1>6, <1>8
  <2>2. s \in tracked \cup abandoned \/ \E q \in Callers : s \in Ahead(call[q])
    BY <1>0, <2>1 DEF KnownOK
  <2>3. Ahead(r) = call[p].todo /\ Ahead(call[p]) \subseteq call[p].todo \cup {call[p].s}
    BY <1>3 DEF Ahead
  <2>4. QED BY <1>5, <2>1, <2>2, <2>3
<1>9. QED BY <1>0, <1>1, <1>3, <1>4, <1>5, <1>6, <1>7, <1>8, StepOf

LEMMA UntrackStep == ASSUME ClientInv, NEW p \in Callers, Untrack(p) PROVE ClientInv'
<1>0. /\ call \in [Callers -> Call] /\ call[p] \in Call /\ CallOK(call[p])
      /\ owner \in [Sessions -> Callers \cup {None}] /\ tracked \subseteq Sessions
      /\ abandoned \subseteq Sessions /\ (\A s \in tracked : Handed(s)) /\ KnownOK
      /\ 1 \in 1..MaxAttempts
  BY Typed, OpenCodeAssumption DEF ClientInv
<1>1. /\ ServerKept /\ live' = live /\ owner' = owner /\ abandoned' = abandoned
      /\ tracked' = tracked \ {call[p].s}
  BY Stays DEF Untrack, server
<1>2. CASE At(p, "untrack") /\ Return(p)
  <2>1. call' = [call EXCEPT ![p] = Idle] /\ call'[p] = Idle
    BY <1>0, <1>2 DEF Return
  <2>2. Idle.pc = "idle" /\ Idle.copy = {} /\ Idle.todo = {} BY DEF Idle
  <2>3. \A s : Handed(s)' = Handed(s) BY <1>1 DEF Handed
  <2>4. CallOK(call[p])'
    BY <2>1, <2>2 DEF CallOK, Ahead
  <2>5. ASSUME NEW s \in live', Handed(s)'
        PROVE  \/ s \in tracked' \cup abandoned' \cup Ahead(Idle)
               \/ \E q \in Callers : q # p /\ s \in Ahead(call[q])
    <3>1. s \in tracked \cup abandoned \/ \E q \in Callers : s \in Ahead(call[q])
      BY <1>0, <1>1, <2>3, <2>5 DEF KnownOK
    <3>2. Ahead(call[p]) = {} /\ call[p].s \notin live
      BY <1>0, <1>2 DEF CallOK, Ahead, At
    <3>3. QED BY <1>1, <2>5, <3>1, <3>2
  <2>6. QED BY <1>0, <1>1, <2>1, <2>3, <2>4, <2>5, IdleIsCall, StepOf
<1>3. CASE /\ At(p, "untrack.next")
           /\ call' = [call EXCEPT ![p] = [@ EXCEPT !.pc = "next", !.s = None, !.attempt = 1]]
  <2>1. PICK r : r = [call[p] EXCEPT !.pc = "next", !.s = None, !.attempt = 1]
    OBVIOUS
  <2>2. /\ r \in Call /\ r.pc = "next" /\ r.copy = call[p].copy /\ r.todo = call[p].todo
        /\ r.failed = call[p].failed
    BY <1>0, <2>1 DEF Call, Pcs
  <2>3. call' = [call EXCEPT ![p] = r]
    BY <1>0, <1>3, <2>1
  <2>4. QED BY <1>1, <1>3, <2>2, <2>3, NextSession DEF At
<1>4. QED BY <1>2, <1>3 DEF Untrack, At

LEMMA CleanNextStep == ASSUME ClientInv, NEW p \in Callers, CleanNext(p) PROVE ClientInv'
<1>0. /\ call \in [Callers -> Call] /\ call[p] \in Call /\ CallOK(call[p])
      /\ call[p].pc = "next" /\ UNCHANGED client /\ ServerKept
      /\ 1 \in 1..MaxAttempts
  <2>1. ServerKept BY Stays DEF CleanNext
  <2>2. 1 \in 1..MaxAttempts BY OpenCodeAssumption
  <2>3. QED BY <2>1, <2>2, Typed DEF ClientInv, CleanNext, At
<1>1. CASE call[p].todo = {} /\ Goto(p, "cleaned")
  <2>1. PICK attempt \in 1..MaxAttempts, whole \in BOOLEAN : attempt = 1 /\ whole = TRUE
    BY <1>0
  <2>2. PICK pc \in Pcs \ {"untrack", "untrack.next"} : pc = "cleaned"
    BY DEF Pcs
  <2>3. call' = [call EXCEPT ![p].pc = pc, ![p].attempt = attempt, ![p].whole = whole]
    BY <1>1, <2>1, <2>2 DEF Goto
  <2>4. QED BY <1>0, <1>1, <2>2, <2>3, SameCall
<1>2. ASSUME NEW s \in call[p].todo,
             call' = [call EXCEPT ![p] = [call[p] EXCEPT !.pc = "clean", !.s = s, !.todo = @ \ {s},
                                                         !.attempt = 1, !.whole = TRUE]]
      PROVE  ClientInv'
  <2>1. s \in Sessions /\ Handed(s) BY <1>0 DEF Call, CallOK
  <2>2. PICK r : r = [call[p] EXCEPT !.pc = "clean", !.s = s, !.todo = call[p].todo \ {s},
                                     !.attempt = 1, !.whole = TRUE]
    OBVIOUS
  <2>3. /\ r \in Call /\ r.pc = "clean" /\ r.s = s /\ r.copy = call[p].copy
        /\ r.todo = call[p].todo \ {s} /\ r.failed = call[p].failed
    BY <1>0, <2>1, <2>2 DEF Call, Pcs, Requesting
  <2>4. call' = [call EXCEPT ![p] = r]
    BY <1>0, <1>2, <2>2
  <2>5. Ahead(call[p]) = Ahead(r)
    BY <1>0, <2>3 DEF Ahead
  <2>6. \A u : Handed(u)' = Handed(u) BY <1>0 DEF client, Handed
  <2>7. \A u \in live' : Handed(u) => u \in live
    BY <1>0 DEF ServerKept
  <2>8. CallOK(r)'
    BY <1>0, <2>1, <2>3, <2>5, <2>6, <2>7 DEF CallOK, Ahead
  <2>9. QED BY <1>0, <2>3, <2>4, <2>5, <2>8, QuietStep
<1>3. QED BY <1>1, <1>2 DEF CleanNext

LEMMA DoneStep == ASSUME ClientInv, NEW p \in Callers, Done(p) \/ WaitTimeout(p) PROVE ClientInv'
BY Returns, Stays DEF Done, WaitTimeout, At

LEMMA FinishReplyStep == ASSUME ClientInv, NEW s \in Sessions, FinishReply(s) PROVE ClientInv'
<1>0. transcript \in [Sessions -> Seq(Reply)]
  BY Typed DEF ClientInv
<1>1. PICK i \in DOMAIN transcript[s] : transcript' = [transcript EXCEPT ![s][i].done = TRUE]
  BY DEF FinishReply
<1>2. [transcript[s][i] EXCEPT !.done = TRUE] \in Reply
  <2>1. transcript[s][i] \in Reply BY <1>0, <1>1
  <2>2. QED BY <2>1 DEF Reply
<1>3. [transcript[s] EXCEPT ![i] = [transcript[s][i] EXCEPT !.done = TRUE]] \in Seq(Reply)
  BY <1>0, <1>1, <1>2
<1>4. transcript' \in [Sessions -> Seq(Reply)]
  BY <1>0, <1>1, <1>3
<1>5. /\ live' = live /\ owner' = owner /\ tracked' = tracked /\ abandoned' = abandoned
      /\ call' = call
  BY DEF FinishReply, client
<1>6. TypeOK'
  BY <1>4, <1>5, Typed DEF ClientInv, TypeOK, Reply
<1>7. \A u : Handed(u)' = Handed(u) BY <1>5 DEF Handed
<1>8. \A p \in Callers : CallOK(call[p])'
  BY <1>5, <1>7 DEF ClientInv, CallOK, Ahead
<1>9. KnownOK'
  BY <1>5, <1>7 DEF ClientInv, KnownOK, Ahead
<1>10. QED BY <1>5, <1>6, <1>7, <1>8, <1>9 DEF ClientInv

-----------------------------------------------------------------------------
(* The theorems *)

LEMMA ClientInitial == Init => ClientInv
<1> SUFFICES ASSUME Init PROVE ClientInv OBVIOUS
<1>1. Idle.pc = "idle" /\ Idle.copy = {} /\ Idle.todo = {} BY DEF Idle
<1>2. TypeOK
  <2>1. <<>> \in Seq(Reply) OBVIOUS
  <2>2. QED BY <2>1, IdleIsCall, Typed DEF Init
<1>3. \A p \in Callers : CallOK(call[p])
  BY <1>1 DEF Init, CallOK
<1>4. QED BY <1>2, <1>3 DEF Init, ClientInv, KnownOK

LEMMA ClientStep == ClientInv /\ [Next]_vars => ClientInv'
<1> SUFFICES ASSUME ClientInv, [Next]_vars PROVE ClientInv' OBVIOUS
<1>1. ASSUME NEW p \in Callers, CreateSession(p) PROVE ClientInv'
  BY <1>1, Begins DEF CreateSession
<1>2. ASSUME NEW p \in Callers, NEW s \in Sessions, Ask(p, s) \/ DeleteSession(p, s) PROVE ClientInv'
  BY <1>2, Begins DEF Ask, DeleteSession
<1>3. ASSUME NEW p \in Callers, Answered(p) PROVE ClientInv'
  BY <1>3, CreateAnsweredStep, SendAnsweredStep, PeekAnsweredStep, PollAnsweredStep,
     DeleteAnsweredStep DEF Answered
<1>4. ASSUME NEW p \in Callers, PollTick(p) PROVE ClientInv'
  BY <1>4, Stays, WaitStep DEF PollTick, At
<1>5. ASSUME NEW p \in Callers, Local(p) PROVE ClientInv'
  BY <1>4, <1>5, TrackStep, UntrackStep, CleanNextStep, DoneStep DEF Local
<1>6. CASE UNCHANGED vars
  <2>1. /\ live' = live /\ transcript' = transcript /\ owner' = owner /\ tracked' = tracked
        /\ abandoned' = abandoned /\ call' = call
    BY <1>6 DEF vars, server, client
  <2>2. QED BY <2>1 DEF ClientInv, TypeOK, CallOK, KnownOK, Ahead, Handed
<1>7. QED
  BY <1>1, <1>2, <1>3, <1>5, <1>6, CleanupStep, RetryStep, FailStep, DoneStep, FinishReplyStep
  DEF Next

LEMMA ClientInvariance == Spec => []ClientInv
BY ClientInitial, ClientStep, PTL DEF Spec

(* The lists, the replies and what every goroutine holds keep their types;    *)
(* in particular no request is attempted more than maxRetries times           *)
(* (OpenCodeClient!TypeOK).                                                   *)
THEOREM ClientTypes == Spec => []TypeOK
<1>1. ClientInv => TypeOK BY DEF ClientInv
<1>2. QED BY <1>1, ClientInvariance, PTL

(* A session that exists and was handed out is in the list, in the hands of a *)
(* Cleanup or one a Cleanup failed on, however creations, deletions and       *)
(* Cleanups overlap (OpenCodeClient!NothingForgotten).                        *)
THEOREM NoSessionForgotten == Spec => []NothingForgotten
<1>1. ClientInv => NothingForgotten
  BY DEF ClientInv, KnownOK, Ahead, Handed, NothingForgotten
<1>2. QED BY <1>1, ClientInvariance, PTL

(* A Cleanup that reports no error has deleted all that was in the list when  *)
(* it began (OpenCodeClient!CleanupDeletes).                                  *)
THEOREM CleanupIsComplete == Spec => []CleanupDeletes
<1>1. ClientInv => CleanupDeletes
  BY DEF ClientInv, CallOK, Ahead, CleanupDeletes, At
<1>2. QED BY <1>1, ClientInvariance, PTL
=============================================================================
