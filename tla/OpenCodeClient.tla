--------------------------- MODULE OpenCodeClient ---------------------------
(***************************************************************************)
(* The HTTP client of an OpenCode server (internal/opencode), shared by    *)
(* several goroutines: sessions are created, prompted, waited for, deleted *)
(* and cleaned up, every request is retried, and a mutex guards the list   *)
(* of sessions to clean up.                                                *)
(*                                                                         *)
(* An attempt of a request is one step: the server acts on it or does not, *)
(* and the client gets its answer, an error worth a retry, or another      *)
(* error.  The server is reduced to its sessions and their replies.        *)
(***************************************************************************)
EXTENDS Integers, FiniteSets, SequencesExt

CONSTANTS
  Callers,     \* goroutines that share the client
  Sessions,    \* bound: ids the server may give out
  None,        \* no session; the text of a request whose body is used up
  MaxAttempts, \* maxRetries (3)
  MaxPrompts   \* bound: prompts the server takes

ASSUME OpenCodeAssumption ==
  /\ None \notin Callers \cup Sessions
  /\ MaxAttempts \in Nat \ {0} /\ MaxPrompts \in Nat

VARIABLES
  live,       \* sessions on the server
  transcript, \* the server's replies in each session: the caller who prompted, whether done
  owner,      \* the caller a session's creation was answered to
  tracked,    \* Client.sessions
  call,       \* what each goroutine does
  abandoned   \* sessions whose deletion by Cleanup failed

server == <<live, transcript>>
client == <<owner, tracked, abandoned>>
vars   == <<server, client, call>>

-----------------------------------------------------------------------------
(* Calls *)

NoReply == [prompt |-> None, done |-> FALSE]

\* pc, the session, the attempt, whether the body is unread, the reply in hand,
\* and for Cleanup its copy of the list, what is left of it and lastErr # nil.
Idle == [pc |-> "idle", s |-> None, attempt |-> 1, whole |-> TRUE, reply |-> NoReply,
         copy |-> {}, todo |-> {}, failed |-> FALSE]

At(p, pc)   == call[p].pc = pc
Goto(p, pc) == call' = [call EXCEPT ![p].pc = pc, ![p].attempt = 1, ![p].whole = TRUE]
Return(p)   == call' = [call EXCEPT ![p] = Idle]

Requesting == {"create", "send", "peek", "poll", "delete", "clean"}

Begin(p, pc, s) ==
  /\ call[p] = Idle
  /\ call' = [call EXCEPT ![p] = [Idle EXCEPT !.pc = pc, !.s = s]]
  /\ UNCHANGED <<server, client>>

CreateSession(p) == Begin(p, "create", None)

\* SendMessage, and WaitForResult on what it returns.
Ask(p, s) == owner[s] = p /\ Begin(p, "send", s)

DeleteSession(p, s) == owner[s] = p /\ Begin(p, "delete", s)

\* Cleanup takes the whole list under the lock.
Cleanup(p) ==
  /\ call[p] = Idle
  /\ call' = [call EXCEPT ![p] = [Idle EXCEPT !.pc = "next", !.copy = tracked, !.todo = tracked]]
  /\ tracked' = {}
  /\ UNCHANGED <<server, owner, abandoned>>

-----------------------------------------------------------------------------
(* What the server does with a request *)

Unused == {s \in Sessions : s \notin live /\ owner[s] = None /\ transcript[s] = <<>>
                            /\ \A p \in Callers : call[p].s # s}

\* One id is as good as another.
NewId == CHOOSE s \in Unused : TRUE

\* POST /session
ServeCreate == Unused # {} /\ live' = live \cup {NewId} /\ UNCHANGED transcript

\* POST message: the reply may be finished before the answer or long after it.
Replies == [s \in Sessions |-> Len(transcript[s])]

ServePrompt(p) ==
  /\ call[p].s \in live /\ SumFunctionOnSet(Replies, Sessions) < MaxPrompts
  /\ \E d \in BOOLEAN :
       transcript' = [transcript EXCEPT ![call[p].s] =
         Append(@, [prompt |-> IF call[p].whole THEN p ELSE None, done |-> d])]
  /\ UNCHANGED live

ServeMessages(p) == call[p].s \in live /\ UNCHANGED server

ServeDelete(p) == live' = live \ {call[p].s} /\ UNCHANGED transcript

Serve(p) ==
  \/ At(p, "create") /\ ServeCreate
  \/ At(p, "send") /\ ServePrompt(p)
  \/ (At(p, "peek") \/ At(p, "poll")) /\ ServeMessages(p)
  \/ (At(p, "delete") \/ At(p, "clean")) /\ ServeDelete(p)

\* The model works on, answered or not.
FinishReply(s) ==
  /\ s \in live
  /\ \E i \in DOMAIN transcript[s] :
       /\ ~transcript[s][i].done
       /\ transcript' = [transcript EXCEPT ![s][i].done = TRUE]
  /\ UNCHANGED <<live, client, call>>

-----------------------------------------------------------------------------
(* doRequest *)

\* Mutant: Cleanup does not keep the error.
GiveUpQuietly(p) ==
  \/ (At(p, "create") \/ At(p, "peek") \/ At(p, "delete"))
       /\ Return(p) /\ UNCHANGED abandoned
  \/ At(p, "send") /\ Goto(p, "peek") /\ UNCHANGED abandoned
  \/ At(p, "poll") /\ Goto(p, "wait") /\ UNCHANGED abandoned
  \/ /\ At(p, "clean")
     /\ call' = [call EXCEPT ![p] = [@ EXCEPT !.pc = "next", !.s = None, !.attempt = 1]]
     /\ abandoned' = abandoned \cup {call[p].s}

\* The request has failed.  A prompt is looked up in the session all the same, a
\* failed poll waits for the next tick, Cleanup goes on with the next session.
GiveUp(p) ==
  \/ (At(p, "create") \/ At(p, "peek") \/ At(p, "delete"))
       /\ Return(p) /\ UNCHANGED abandoned
  \/ At(p, "send") /\ Goto(p, "peek") /\ UNCHANGED abandoned
  \/ At(p, "poll") /\ Goto(p, "wait") /\ UNCHANGED abandoned
  \/ /\ At(p, "clean")
     /\ call' = [call EXCEPT ![p] = [@ EXCEPT !.pc = "next", !.s = None, !.attempt = 1, !.failed = TRUE]]
     /\ abandoned' = abandoned \cup {call[p].s}

\* Mutant: attempts are counted but not bounded.
RetryForEver(p) ==
  /\ call[p].pc \in Requesting
  /\ Serve(p) \/ UNCHANGED server
  /\ call' = [call EXCEPT ![p].attempt = (@ % MaxAttempts) + 1]
  /\ UNCHANGED client

\* Mutant: one attempt too many.
RetryOnceMore(p) ==
  /\ call[p].pc \in Requesting
  /\ \E read \in BOOLEAN :
       /\ (Serve(p) /\ read) \/ UNCHANGED server
       /\ \/ /\ call[p].attempt <= MaxAttempts
             /\ call' = [call EXCEPT ![p].attempt = @ + 1, ![p].whole = @ /\ ~(read /\ At(p, "send"))]
             /\ UNCHANGED abandoned
          \/ call[p].attempt > MaxAttempts /\ GiveUp(p)
  /\ UNCHANGED <<owner, tracked>>

\* The connection is refused or reset, or the answer is a 5xx: the same request
\* once more, but its body can be read only once.
Retry(p) ==
  /\ call[p].pc \in Requesting
  /\ \E read \in BOOLEAN :
       /\ (Serve(p) /\ read) \/ UNCHANGED server
       /\ \/ /\ call[p].attempt < MaxAttempts
             /\ call' = [call EXCEPT ![p].attempt = @ + 1, ![p].whole = @ /\ ~(read /\ At(p, "send"))]
             /\ UNCHANGED abandoned
          \/ call[p].attempt >= MaxAttempts /\ GiveUp(p)
  /\ UNCHANGED <<owner, tracked>>

\* A timeout, a 4xx or an answer that cannot be decoded ends the request at once.
Fail(p) ==
  /\ call[p].pc \in Requesting
  /\ Serve(p) \/ UNCHANGED server
  /\ GiveUp(p)
  /\ UNCHANGED <<owner, tracked>>

-----------------------------------------------------------------------------
(* What the client does with an answer *)

CreateAnswered(p) ==
  /\ At(p, "create")
  /\ ServeCreate
  /\ call' = [call EXCEPT ![p] = [Idle EXCEPT !.pc = "track", !.s = NewId]]
  /\ UNCHANGED client

\* append under the lock
Track(p) ==
  /\ At(p, "track")
  /\ tracked' = tracked \cup {call[p].s}
  /\ owner' = [owner EXCEPT ![call[p].s] = p]
  /\ Return(p)
  /\ UNCHANGED <<server, abandoned>>

\* WaitForResultWith: an initial reply that is done is the result, another is not
\* looked at again.
Await(p, initial) ==
  call' = [call EXCEPT ![p] =
    IF initial.done THEN [Idle EXCEPT !.pc = "result", !.s = call[p].s, !.reply = initial]
                    ELSE [Idle EXCEPT !.pc = "wait", !.s = call[p].s]]

\* The answer to the prompt goes to the wait, which may also start without it.
SendAnswered(p) ==
  /\ At(p, "send")
  /\ ServePrompt(p)
  /\ \E r \in {NoReply, Last(transcript'[call[p].s])} : Await(p, r)
  /\ UNCHANGED client

\* SendMessage failed and asks for the messages: the last one is its answer.
PeekAnswered(p) ==
  /\ At(p, "peek")
  /\ ServeMessages(p)
  /\ LET seen == transcript[call[p].s] IN
       IF seen = <<>> THEN Return(p)
       ELSE Await(p, Last(seen))
  /\ UNCHANGED client

PollTick(p) ==
  /\ At(p, "wait")
  /\ Goto(p, "poll")
  /\ UNCHANGED <<server, client>>

WaitTimeout(p) ==
  /\ At(p, "wait")
  /\ Return(p)
  /\ UNCHANGED <<server, client>>

\* The last message that is done is the result.
PollAnswered(p) ==
  /\ At(p, "poll")
  /\ ServeMessages(p)
  /\ LET seen == transcript[call[p].s]
         done == {i \in DOMAIN seen : seen[i].done} IN
       \/ done = {} /\ Goto(p, "wait")
       \/ \E i \in done : (\A j \in done : j <= i) /\ Await(p, seen[i])
  /\ UNCHANGED client

DeleteAnswered(p) ==
  /\ At(p, "delete") \/ At(p, "clean")
  /\ ServeDelete(p)
  /\ call' = [call EXCEPT ![p].pc = IF @ = "delete" THEN "untrack" ELSE "untrack.next"]
  /\ UNCHANGED client

\* Mutant: the list is emptied, not filtered.
UntrackAll(p) ==
  /\ At(p, "untrack") \/ At(p, "untrack.next")
  /\ tracked' = {}
  /\ IF At(p, "untrack") THEN Return(p)
     ELSE call' = [call EXCEPT ![p] = [@ EXCEPT !.pc = "next", !.s = None, !.attempt = 1]]
  /\ UNCHANGED <<server, owner, abandoned>>

\* The list is filtered under one lock.
Untrack(p) ==
  /\ At(p, "untrack") \/ At(p, "untrack.next")
  /\ tracked' = tracked \ {call[p].s}
  /\ IF At(p, "untrack") THEN Return(p)
     ELSE call' = [call EXCEPT ![p] = [@ EXCEPT !.pc = "next", !.s = None, !.attempt = 1]]
  /\ UNCHANGED <<server, owner, abandoned>>

CleanNext(p) ==
  /\ At(p, "next")
  /\ \/ call[p].todo = {} /\ Goto(p, "cleaned")
     \/ \E s \in call[p].todo :
          call' = [call EXCEPT ![p] = [call[p] EXCEPT !.pc = "clean", !.s = s, !.todo = @ \ {s},
                                                      !.attempt = 1, !.whole = TRUE]]
  /\ UNCHANGED <<server, client>>

Done(p) ==
  /\ At(p, "result") \/ At(p, "cleaned")
  /\ Return(p)
  /\ UNCHANGED <<server, client>>

-----------------------------------------------------------------------------
(* The specification *)

Init ==
  /\ live = {} /\ tracked = {} /\ abandoned = {}
  /\ transcript = [s \in Sessions |-> <<>>]
  /\ owner = [s \in Sessions |-> None]
  /\ call = [p \in Callers |-> Idle]

Answered(p) ==
  CreateAnswered(p) \/ SendAnswered(p) \/ PeekAnswered(p) \/ PollAnswered(p) \/ DeleteAnswered(p)
Local(p) == Track(p) \/ PollTick(p) \/ Untrack(p) \/ CleanNext(p) \/ Done(p)

Next ==
  \/ \E p \in Callers :
       \/ CreateSession(p) \/ Cleanup(p)
       \/ \E s \in Sessions : Ask(p, s) \/ DeleteSession(p, s)
       \/ Retry(p) \/ Fail(p) \/ Answered(p) \/ Local(p) \/ WaitTimeout(p)
  \/ \E s \in Sessions : FinishReply(s)

Spec == Init /\ [][Next]_vars

\* A goroutine that can go on does, an attempt ends (the HTTP client has a timeout),
\* and select does not prefer the ticker to an expired context for ever.
FairSpec ==
  /\ Spec
  /\ \A p \in Callers : /\ WF_vars(Retry(p) \/ Fail(p) \/ Answered(p) \/ Local(p))
                        /\ SF_vars(WaitTimeout(p))

-----------------------------------------------------------------------------
(* Properties *)

(* Types of the lists, and of what each goroutine holds between two steps.    *)
TypeOK ==
  /\ live \subseteq Sessions /\ tracked \subseteq Sessions /\ abandoned \subseteq Sessions
  /\ transcript \in [Sessions -> Seq([prompt: Callers \cup {None}, done: BOOLEAN])]
  /\ owner \in [Sessions -> Callers \cup {None}]
  /\ call \in [Callers ->
       [pc: Requesting \cup {"idle", "track", "wait", "result", "untrack", "untrack.next",
                             "next", "cleaned"},
        s: Sessions \cup {None}, attempt: 1..MaxAttempts, whole: BOOLEAN,
        reply: [prompt: Callers \cup {None}, done: BOOLEAN],
        copy: SUBSET Sessions, todo: SUBSET Sessions, failed: BOOLEAN]]

(* No session is forgotten: one that exists and whose creation was answered   *)
(* is in the list, in the hands of a Cleanup, or one a Cleanup failed on; an  *)
(* append, a filter and a Cleanup side by side lose nothing.                  *)
NothingForgotten ==
  \A s \in live : owner[s] # None =>
    \/ s \in tracked \cup abandoned
    \/ \E p \in Callers :
         \/ s \in call[p].todo
         \/ call[p].s = s /\ call[p].pc \in {"clean", "delete", "untrack", "untrack.next"}

(* A Cleanup that reports no error has deleted every session that was in the  *)
(* list when it began, although others delete, create and clean up meanwhile. *)
CleanupDeletes ==
  \A p \in Callers : At(p, "cleaned") /\ ~call[p].failed => call[p].copy \cap live = {}

(* Every call returns: attempts are bounded and a wait has a deadline,        *)
(* whatever the server does.                                                  *)
CallsReturn == \A p \in Callers : call[p] # Idle ~> call[p] = Idle

-----------------------------------------------------------------------------
(* Promises of the documents that the code does not keep; the README says how *)
(* each of them is broken.                                                   *)

(* "WaitForResult polls the session until the last message is complete": the  *)
(* result is the reply to what the caller has just sent.                      *)
AnswersThePrompt ==
  \A p \in Callers : At(p, "result") => call[p].reply = Last(transcript[call[p].s])

(* A retried request is the request: no prompt reaches the server without its *)
(* text.                                                                      *)
RetriesCarryTheBody ==
  \A s \in Sessions : \A i \in DOMAIN transcript[s] : transcript[s][i].prompt # None

(* "Cleanup deletes all sessions created by this client", and may be called   *)
(* again: what one call failed to delete is left for the next.                *)
FailedDeletionsStayTracked == abandoned \cap live \subseteq tracked
=============================================================================
