---------------------------- MODULE RunnerEvents ----------------------------
(***************************************************************************)
(* The way of a runner event from the outbox (EventBuffer) to its effect:  *)
(* POST /events with its handlers (api/internal/coding/events.go) and the  *)
(* table of event claims (api/internal/store/coding_sessions.go).          *)
(*                                                                         *)
(* The runner has one request out at a time, but it gives a request up     *)
(* after 15 seconds and sends the batch again while the first handler may  *)
(* still run.  A handler works on the request's context, so the store      *)
(* calls after its client left may fail: it then stops where it is.        *)
(***************************************************************************)
EXTENDS EventBuffer

CONSTANTS
  Handlers,    \* requests that the API serves at a time
  Nobody,      \* no handler
  Patching,    \* events that change the session document (plan, diff, response,
               \* status, error); the others append an activity, also those that
               \* change the document besides (action, elicitation)
  MaxFaults    \* bound: requests given up, handlers cut off, activities refused

ASSUME ApiConstants == Nobody \notin Handlers /\ MaxFaults \in Nat

VARIABLES
  call,       \* the handlers
  server,     \* the handler of the running request, or Nobody
  claims,     \* coding_runner_events: "none", "claimed" or "done"
  applied,    \* how often an event took effect
  acked,      \* events removed from the queue after an answer of success
  ignored,    \* events that some handler passed over as of an earlier turn
  doubtful,   \* events that a handler held when it was cut off, or whose
              \* activity was refused
  current,    \* CurrentTurnID, 0 for none
  token,      \* the sandbox token is valid
  live,       \* the session serves this sandbox
  faults

apiVars == <<call, server, claims, applied, acked, ignored, doubtful, current, token, live, faults>>
vars == <<bufferVars, sessionVars, apiVars>>

(* A handler that serves nothing.  `open`: its client still waits.  `cur`  *)
(* is CurrentTurnID of the copy of the session that the handler read.      *)
(* `event` is the one that its loop is at after a claim.                   *)
Free ==
  [pc |-> "free", todo |-> {}, event |-> 0, cur |-> 0, patch |-> {}, status |-> "ok", open |-> FALSE]

Set(h, c) == call' = [call EXCEPT ![h] = c]

Respond(h, status, c) ==
  Set(h, IF c.open
         THEN [c EXCEPT !.pc = "answer", !.status = status, !.todo = {}, !.event = 0, !.patch = {}]
         ELSE Free)

-----------------------------------------------------------------------------
(* Events: the token, then the session.  A revoked token is 401; events of *)
(* a session that ended or moved on are dropped with success.              *)
Receive(h) ==
  /\ pump = "sent" /\ server = Nobody /\ call[h].pc = "free"
  /\ server' = h
  /\ LET c == [Free EXCEPT !.pc = "claim", !.todo = inflight, !.cur = current, !.open = TRUE]
     IN IF ~token THEN Respond(h, "auth", c)
        ELSE IF ~live THEN Respond(h, "ok", c)
        ELSE Set(h, c)
  /\ UNCHANGED <<bufferVars, sessionVars, claims, applied, acked, ignored, doubtful, current, token, live, faults>>

(* The event that the loop over the batch comes to.                        *)
Comes(h, e) == e \in call[h].todo /\ \A f \in call[h].todo : e <= f

(* The events that a handler has claimed and that it has not finished with.  *)
Held(h) == call[h].patch \cup (IF call[h].pc \in {"apply", "done"} THEN {call[h].event} ELSE {})

(* An event of an earlier turn is passed over.                             *)
Outdated(h, e) == turnOf[e] # 0 /\ call[h].cur # 0 /\ turnOf[e] # call[h].cur

Skip(h, e) == Set(h, [call[h] EXCEPT !.todo = @ \ {e}])

(* A slip: an event that is claimed but not done is claimed again.         *)
ClaimUnfinished(h) ==
  /\ call[h].pc = "claim"
  /\ \E e \in Events :
       /\ Comes(h, e)
       /\ IF Outdated(h, e) THEN Skip(h, e) /\ ignored' = ignored \cup {e} /\ UNCHANGED claims
          ELSE IF claims[e] = "done" THEN Skip(h, e) /\ UNCHANGED <<claims, ignored>>
          ELSE /\ claims' = [claims EXCEPT ![e] = "claimed"]
               /\ Set(h, [call[h] EXCEPT !.pc = "apply", !.event = e])
               /\ UNCHANGED ignored
  /\ UNCHANGED <<bufferVars, sessionVars, server, applied, acked, doubtful, current, token, live, faults>>

(* ClaimRunnerEvent inserts the claim; an event that is claimed counts as  *)
(* a duplicate.  A claim that is not done expires after 30 seconds, when   *)
(* its handler is gone.                                                    *)
Expired(e) == claims[e] = "claimed" /\ \A g \in Handlers : e \notin Held(g)

Claim(h) ==
  /\ call[h].pc = "claim"
  /\ \E e \in Events :
       /\ Comes(h, e)
       /\ \/ /\ Outdated(h, e)
             /\ Skip(h, e) /\ ignored' = ignored \cup {e} /\ UNCHANGED claims
          \/ /\ ~Outdated(h, e) /\ claims[e] # "none"
             /\ Skip(h, e) /\ UNCHANGED <<claims, ignored>>
          \/ /\ ~Outdated(h, e)
             /\ claims[e] = "none" \/ Expired(e)
             /\ claims' = [claims EXCEPT ![e] = "claimed"]
             /\ Set(h, [call[h] EXCEPT !.pc = "apply", !.event = e])
             /\ UNCHANGED ignored
  /\ UNCHANGED <<bufferVars, sessionVars, server, applied, acked, doubtful, current, token, live, faults>>

Applied(S) == [e \in Events |-> IF e \in S THEN applied[e] + 1 ELSE applied[e]]

(* applyEvent appends an activity, or adds to the patch of the batch.      *)
applyEvent(h) ==
  /\ call[h].pc = "apply"
  /\ \/ /\ call[h].event \in Patching
        /\ Set(h, [call[h] EXCEPT !.pc = "done", !.patch = @ \cup {call[h].event}])
        /\ UNCHANGED applied
     \/ /\ call[h].event \notin Patching
        /\ Set(h, [call[h] EXCEPT !.pc = "done"])
        /\ applied' = Applied({call[h].event})
  /\ UNCHANGED <<bufferVars, sessionVars, server, claims, acked, ignored, doubtful, current, token, live, faults>>

(* anchorActivity only logs that the activity was refused or the store     *)
(* failed: the event is done without its effect.                           *)
ActivityRefused(h) ==
  /\ call[h].pc = "apply" /\ call[h].event \notin Patching /\ faults < MaxFaults
  /\ faults' = faults + 1
  /\ doubtful' = doubtful \cup {call[h].event}
  /\ Set(h, [call[h] EXCEPT !.pc = "done"])
  /\ UNCHANGED <<bufferVars, sessionVars, server, claims, applied, acked, ignored, current, token, live>>

(* A slip: the claim goes when its event is done.                          *)
CompleteForgets(h) ==
  /\ call[h].pc = "done"
  /\ claims' = [claims EXCEPT ![call[h].event] = "none"]
  /\ Set(h, [call[h] EXCEPT !.pc = "claim", !.todo = @ \ {call[h].event}, !.event = 0])
  /\ UNCHANGED <<bufferVars, sessionVars, server, applied, acked, ignored, doubtful, current, token, live, faults>>

CompleteRunnerEvent(h) ==
  /\ call[h].pc = "done"
  /\ claims' = [claims EXCEPT ![call[h].event] = "done"]
  /\ Set(h, [call[h] EXCEPT !.pc = "claim", !.todo = @ \ {call[h].event}, !.event = 0])
  /\ UNCHANGED <<bufferVars, sessionVars, server, applied, acked, ignored, doubtful, current, token, live, faults>>

(* A slip: the patch is dropped when the client left.                      *)
UpdateForClient(h) ==
  /\ call[h].pc = "claim" /\ call[h].todo = {}
  /\ applied' = IF live /\ call[h].open THEN Applied(call[h].patch) ELSE applied
  /\ Respond(h, "ok", call[h])
  /\ UNCHANGED <<bufferVars, sessionVars, server, claims, acked, ignored, doubtful, current, token, live, faults>>

(* The patch of the batch is one update of the session, dropped when the   *)
(* session has another sandbox; then the answer.                           *)
Update(h) ==
  /\ call[h].pc = "claim" /\ call[h].todo = {}
  /\ applied' = IF live THEN Applied(call[h].patch) ELSE applied
  /\ Respond(h, "ok", call[h])
  /\ UNCHANGED <<bufferVars, sessionVars, server, claims, acked, ignored, doubtful, current, token, live, faults>>

(* A store call fails, or the request's context was cancelled: the handler *)
(* returns the error and drops its patch.  Events that are done stay done. *)
CutOff(h) ==
  /\ call[h].pc \in {"claim", "apply", "done"} /\ faults < MaxFaults
  /\ faults' = faults + 1
  /\ doubtful' = doubtful \cup Held(h)
  /\ Respond(h, "retry", call[h])
  /\ UNCHANGED <<bufferVars, sessionVars, server, claims, applied, acked, ignored, current, token, live>>

-----------------------------------------------------------------------------
(* The answer arrives: success removes the batch, 401 is fatal, any other  *)
(* failure is retried after a while.                                       *)
Answer(h) ==
  /\ pump = "sent" /\ server = h /\ call[h].pc = "answer"
  /\ Set(h, Free) /\ server' = Nobody
  /\ \/ /\ call[h].status = "ok"
        /\ removeBatch
        /\ acked' = acked \cup inflight
        /\ UNCHANGED fatal
     \/ /\ call[h].status = "auth"
        /\ fatal' = TRUE /\ pump' = "ended" /\ inflight' = {}
        /\ UNCHANGED <<queue, acked>>
     \/ /\ call[h].status = "retry"
        /\ pump' = "sleep" /\ inflight' = {}
        /\ UNCHANGED <<queue, acked, fatal>>
  /\ UNCHANGED <<created, turnOf, timer, sessionVars, claims, applied, ignored, doubtful, current, token, live, faults>>

(* The runner gives the request up, or the connection breaks: the handler, *)
(* if there is one, goes on without its client.                            *)
Hangup ==
  IF server = Nobody THEN call
  ELSE [call EXCEPT ![server] = IF @.pc = "answer" THEN Free ELSE [@ EXCEPT !.open = FALSE]]

PostFails ==
  /\ pump = "sent" /\ faults < MaxFaults
  /\ faults' = faults + 1
  /\ call' = Hangup /\ server' = Nobody
  /\ pump' = "sleep" /\ inflight' = {}
  /\ UNCHANGED <<created, turnOf, queue, timer, fatal, sessionVars, claims, applied, acked, ignored, doubtful, current, token, live>>

ProcessExit ==
  /\ Exit
  /\ call' = Hangup /\ server' = Nobody
  /\ UNCHANGED <<claims, applied, acked, ignored, doubtful, current, token, live, faults>>

(* The completion of the turn clears CurrentTurnID; the inbox delivers the *)
(* next turn.                                                              *)
NextTurn ==
  /\ stage = "complete" /\ ~fatal /\ turn + 1 \in Turns
  /\ \/ current' = 0 /\ UNCHANGED sessionVars
     \/ current = 0 /\ current' = turn + 1 /\ turn' = turn + 1 /\ stage' = "work" /\ UNCHANGED late
  /\ UNCHANGED <<bufferVars, call, server, claims, applied, acked, ignored, doubtful, token, live, faults>>

(* The session ends or gets another sandbox, then the token is revoked.    *)
SessionEnds ==
  /\ \/ live /\ live' = FALSE /\ UNCHANGED token
     \/ ~live /\ token /\ token' = FALSE /\ UNCHANGED live
  /\ UNCHANGED <<bufferVars, sessionVars, call, server, claims, applied, acked, ignored, doubtful, current, faults>>

Api == UNCHANGED apiVars

Init ==
  /\ BufferInit
  /\ call = [h \in Handlers |-> Free] /\ server = Nobody
  /\ claims = [e \in Events |-> "none"] /\ applied = [e \in Events |-> 0]
  /\ acked = {} /\ ignored = {} /\ doubtful = {}
  /\ current = 1 /\ token = TRUE /\ live = TRUE /\ faults = 0

Serve(h) == Claim(h) \/ applyEvent(h) \/ CompleteRunnerEvent(h) \/ Update(h)

Next ==
  \/ \E e \in Events : Push(e) /\ Api
  \/ TimerFires /\ Api
  \/ Finally /\ Api
  \/ Wake /\ Api
  \/ FlushTurn /\ Api
  \/ FlushReturns /\ Api
  \/ Close /\ Api
  \/ ProcessExit
  \/ NextTurn
  \/ PostFails
  \/ SessionEnds
  \/ \E h \in Handlers : Receive(h) \/ Serve(h) \/ ActivityRefused(h) \/ CutOff(h) \/ Answer(h)

Spec == Init /\ [][Next]_vars

(* The event loop runs what is due, and so does the API; requests fail only *)
(* MaxFaults times.  Nothing makes the session go on.                      *)
FairSpec ==
  /\ Spec
  /\ WF_vars(TimerFires /\ Api) /\ WF_vars(Finally /\ Api) /\ WF_vars(Wake /\ Api)
  /\ \A h \in Handlers : WF_vars(Receive(h)) /\ WF_vars(Serve(h)) /\ WF_vars(Answer(h))

-----------------------------------------------------------------------------
Calls ==
  [pc : {"free", "claim", "apply", "done", "answer"}, todo : SUBSET created, event : Events \cup {0},
   cur : Turns \cup {0}, patch : SUBSET created, status : {"ok", "auth", "retry"}, open : BOOLEAN]

(* The variables have their types.  The running request is part of the     *)
(* queue although evictions go on beside it (event-buffer.ts evict).       *)
TypeOK ==
  /\ created \subseteq Events /\ turnOf \in [Events -> Turns \cup {0}]
  /\ queue \subseteq created /\ inflight \subseteq queue
  /\ pump \in {"idle", "sent", "sleep", "ended"} /\ timer \in BOOLEAN /\ fatal \in BOOLEAN
  /\ stage \in {"work", "flush", "complete", "last", "exit"} /\ turn \in Turns /\ late \subseteq Turns
  /\ call \in [Handlers -> Calls] /\ server \in Handlers \cup {Nobody}
  /\ claims \in [Events -> {"none", "claimed", "done"}] /\ applied \in [Events -> Nat]
  /\ acked \subseteq created /\ ignored \subseteq created /\ doubtful \subseteq created
  /\ current \in Turns \cup {0} /\ token \in BOOLEAN /\ live \in BOOLEAN /\ faults \in Nat

(* Queued events are never left behind: a run is on, or the timer is set,  *)
(* whatever was pushed while a run ended (event-buffer.ts schedule, pump). *)
Scheduled == queue # {} /\ pump = "idle" => timer \/ fatal

(* The event took effect, or a handler still holds it; otherwise it was of *)
(* an earlier turn, its session was gone, or the handler that held it was  *)
(* cut off or its activity refused.                                        *)
Explained(e) ==
  \/ applied[e] > 0 \/ \E h \in Handlers : e \in Held(h)
  \/ e \in ignored \/ ~live \/ e \in doubtful

(* No event that the runner dropped from its queue as delivered            *)
(* (event-buffer.ts run) is lost for a reason that Explained does not name. *)
LossExplained == \A e \in acked : Explained(e)

(* An event is passed over as of an earlier turn, and is lost by that,     *)
(* only when the flush before its turn's completion timed out              *)
(* (session.ts complete).                                                  *)
IgnoredOnlyLate ==
  \A e \in ignored :
    \/ applied[e] > 0 \/ \E h \in Handlers : e \in Held(h)
    \/ turnOf[e] \in late

(* The queue never holds more than its bound, although entries of the      *)
(* running request are not evicted (event-buffer.ts evict).                *)
Bounded == Cardinality(queue) <= MaxBytes

(* Requests that fail now and then do not keep events in the queue for     *)
(* ever: it empties, or the token was rejected.                            *)
Drains == []<>(queue = {} \/ fatal)

(* The events that may still take effect for the first time.               *)
OnTheWay ==
  {e \in created : applied[e] = 0 /\ (e \in queue \/ \E h \in Handlers : e \in call[h].todo \cup call[h].patch)}

Delivery ==
  INSTANCE EventDelivery WITH accepted <- created, waiting <- OnTheWay

(* However requests are given up and repeated, no event takes effect twice *)
(* unless a handler that held it was cut off (events.go, the claims).      *)
AtMostOnce == Delivery!Once

(* The outbox and the API implement the promise of EventDelivery: an event *)
(* takes effect once unless its handler was cut off or the activity was    *)
(* refused.                                                                *)
DeliveryKept == Delivery!Spec
=============================================================================
