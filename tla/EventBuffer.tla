----------------------------- MODULE EventBuffer -----------------------------
(***************************************************************************)
(* The runner's outbox (sandbox-runner/src/event-buffer.ts) and the calls  *)
(* that the session makes to it (sandbox-runner/src/session.ts).           *)
(*                                                                         *)
(* Events are numbered as they are created and the queue keeps that order, *)
(* so the queue is a set of numbers.  An event counts as one byte.  A step *)
(* is what JavaScript does between two awaits: a push that fills a batch   *)
(* has sent the request when it returns.                                   *)
(***************************************************************************)
EXTENDS Naturals, FiniteSets

CONSTANTS
  Events,         \* 1 .. the number of events of the run
  Thoughts,       \* the events of type "thought"
  Ephemeral,      \* the events marked ephemeral
  Own,            \* the events that the session itself creates
  MaxBytes,       \* what the queue holds before it evicts
  BatchSize,      \* queued events that start a request at once
  MaxPerRequest,  \* MAX_EVENTS_PER_REQUEST
  Turns           \* 1 .. the number of turns of the run

ASSUME BufferConstants ==
  /\ Events \subseteq Nat /\ Turns \subseteq Nat \ {0} /\ 1 \in Turns
  /\ MaxBytes \in Nat \ {0} /\ BatchSize \in Nat \ {0} /\ MaxPerRequest \in Nat \ {0}

VARIABLES
  created,   \* events pushed so far, those that a closed buffer ignored included
  turnOf,    \* the turn id an event carries, 0 for none
  queue,     \* queued events
  inflight,  \* the entries of the running request
  pump,      \* the promise `pumping`: "idle", "sent" (awaits the answer),
             \* "sleep" (backs off), "ended" (run is over, finally is due)
  timer,     \* the flush timer is set
  fatal,     \* the token was rejected
  stage,     \* the session: "work", "flush" and "complete" of a turn,
             \* "last" (closed, final flush), "exit"
  turn,      \* the turn the session works on
  late       \* turns that completed although their flush timed out

bufferVars == <<created, turnOf, queue, inflight, pump, timer, fatal>>
sessionVars == <<stage, turn, late>>

closed == stage \in {"last", "exit"}

(* The first n of a set of events, in queue order.                         *)
First(S, n) == {e \in S : Cardinality({f \in S : f < e}) < n}

-----------------------------------------------------------------------------
(* evict: while the queue is too large its first evictable thought goes,   *)
(* then the first ephemeral event, then the first event; the entries of    *)
(* the running request stay.  Thus the events go in the order of their     *)
(* class, and by age within a class.                                       *)
Class(e) == IF e \in Thoughts THEN 0 ELSE IF e \in Ephemeral THEN 1 ELSE 2

GoesBefore(e, f) == Class(e) < Class(f) \/ (Class(e) = Class(f) /\ e < f)

(* A slip: entries of the running request are evicted too.                 *)
EvictInFlight(q) ==
  {e \in q : Cardinality({f \in q : GoesBefore(f, e)}) + MaxBytes < Cardinality(q)}

(* A slip: an event too many stays.                                        *)
EvictOneLess(q) ==
  LET idle == q \ inflight
  IN {e \in idle : Cardinality({f \in idle : GoesBefore(f, e)}) + MaxBytes + 1 < Cardinality(q)}

evict(q) ==
  LET idle == q \ inflight
  IN {e \in idle : Cardinality({f \in idle : GoesBefore(f, e)}) + MaxBytes < Cardinality(q)}

(* The loop of run starts a request with the first entries.                *)
Post(q) == pump' = "sent" /\ inflight' = First(q, MaxPerRequest)

(* A slip: fewer events than a batch wait for more.                        *)
ScheduleFull(q) ==
  IF Cardinality(q) >= BatchSize
  THEN Post(q) /\ timer' = FALSE
  ELSE pump' = "idle" /\ inflight' = {} /\ UNCHANGED timer

(* schedule: nothing while a run is on (finally schedules again), a run at *)
(* once when a batch is full, otherwise the timer.                         *)
schedule(q) ==
  IF Cardinality(q) >= BatchSize
  THEN Post(q) /\ timer' = FALSE
  ELSE pump' = "idle" /\ timer' = TRUE /\ inflight' = {}

push(e, t) ==
  /\ created' = created \cup {e}
  /\ IF closed \/ fatal
     THEN UNCHANGED <<turnOf, queue, inflight, pump, timer, fatal>>
     ELSE LET q == (queue \cup {e}) \ evict(queue \cup {e})
          IN /\ turnOf' = [turnOf EXCEPT ![e] = t]
             /\ queue' = q
             /\ IF pump = "idle" THEN schedule(q) ELSE UNCHANGED <<pump, inflight, timer>>
             /\ UNCHANGED fatal

TimerFires ==
  /\ timer
  /\ timer' = FALSE
  /\ Post(queue)
  /\ UNCHANGED <<created, turnOf, queue, fatal, sessionVars>>

(* After an answer that removes the batch the loop goes on with the rest,  *)
(* or the run ends; an empty queue resolves the waiters of flush.          *)
removeBatch ==
  LET rest == queue \ inflight
  IN /\ queue' = rest
     /\ IF rest = {} THEN pump' = "ended" /\ inflight' = {} ELSE Post(rest)

(* A slip: the run ends without scheduling what was pushed meanwhile.      *)
FinallyIdle ==
  /\ pump = "ended"
  /\ pump' = "idle" /\ inflight' = {}
  /\ UNCHANGED <<created, turnOf, queue, timer, fatal, sessionVars>>

(* The finally of pump, a microtask after run returned: an event pushed in *)
(* between found `pumping` still set and is scheduled here.                *)
Finally ==
  /\ pump = "ended"
  /\ IF queue # {} /\ ~fatal
     THEN schedule(queue)
     ELSE pump' = "idle" /\ inflight' = {} /\ UNCHANGED timer
  /\ UNCHANGED <<created, turnOf, queue, fatal, sessionVars>>

(* The backoff is over; the queue still holds the batch, or what eviction  *)
(* left of it.                                                             *)
Wake ==
  /\ pump = "sleep"
  /\ Post(queue)
  /\ UNCHANGED <<created, turnOf, queue, timer, fatal, sessionVars>>

-----------------------------------------------------------------------------
(* The session.  Events of the harness carry the turn id, the session's    *)
(* own events carry none.                                                  *)

Push(e) ==
  /\ stage = "work"
  /\ e \notin created /\ \A f \in Events : f < e => f \in created
  /\ push(e, IF e \in Own THEN 0 ELSE turn)
  /\ UNCHANGED sessionVars

(* flush clears the timer and starts a run unless one is on.  Its promise  *)
(* resolves when the queue is empty or the time is up.                     *)
startFlush ==
  IF queue = {} \/ fatal
  THEN UNCHANGED <<inflight, pump, timer>>
  ELSE /\ timer' = FALSE
       /\ IF pump = "idle" THEN Post(queue) ELSE UNCHANGED <<pump, inflight>>

FlushTurn ==
  /\ stage = "work"
  /\ startFlush
  /\ stage' = "flush"
  /\ UNCHANGED <<created, turnOf, queue, fatal, turn, late>>

(* A slip: the flush resolves when the run sends nothing at the moment.    *)
FlushReturnsBetween ==
  /\ stage = "flush"
  /\ stage' = "complete"
  /\ \/ (queue = {} \/ pump = "sleep") /\ UNCHANGED late
     \/ queue # {} /\ late' = late \cup {turn}
  /\ UNCHANGED <<bufferVars, turn>>

(* The flush returns, in time or not; the session posts the completion.    *)
FlushReturns ==
  /\ stage = "flush"
  /\ stage' = "complete"
  /\ \/ queue = {} /\ UNCHANGED late
     \/ queue # {} /\ late' = late \cup {turn}
  /\ UNCHANGED <<bufferVars, turn>>

(* The end of run: the buffer is closed and flushed a last time.           *)
Close ==
  /\ stage \in {"work", "complete"}
  /\ stage = "complete" \/ fatal
  /\ startFlush
  /\ stage' = "last"
  /\ UNCHANGED <<created, turnOf, queue, fatal, turn, late>>

(* The process exits when the last flush returns.  A request on the wire   *)
(* is still served.                                                        *)
Exit ==
  /\ stage = "last"
  /\ stage' = "exit"
  /\ queue' = {} /\ inflight' = {} /\ pump' = "idle" /\ timer' = FALSE
  /\ UNCHANGED <<created, turnOf, fatal, turn, late>>

BufferInit ==
  /\ created = {} /\ turnOf = [e \in Events |-> 0]
  /\ queue = {} /\ inflight = {} /\ pump = "idle" /\ timer = FALSE /\ fatal = FALSE
  /\ stage = "work" /\ turn = 1 /\ late = {}
=============================================================================
