------------------------- MODULE RunnerEventsProofs -------------------------
(***************************************************************************)
(* Theorems about RunnerEvents, for every set of events, handlers and      *)
(* turns, every buffer and batch size, and any number of faults.           *)
(*                                                                         *)
(* That an event takes effect once needs an account of where a claim is:   *)
(* an event that is claimed and not in doubt is with exactly one handler,  *)
(* which has applied it or not, and an event that is done was applied, or  *)
(* is in the patch of one handler.  That none is lost silently needs, of   *)
(* the running request, that each of its events is still to be handled or  *)
(* accounted for.                                                          *)
(***************************************************************************)
EXTENDS RunnerEvents, TLAPS, FiniteSetTheorems, WellFoundedInduction,
        NaturalsInduction

(* A handler holds nothing before and after its work, and is at an event   *)
(* while it applies one.                                                   *)
HandlerOK(h) ==
  /\ call[h].pc \in {"free", "answer"} => call[h].todo = {} /\ call[h].patch = {}
  /\ call[h].pc \in {"apply", "done"} => call[h].event \in call[h].todo

HandlersOK == \A h \in Handlers : HandlerOK(h)

(* Handler h is at event e.                                                *)
At(h, e) == call[h].pc \in {"apply", "done"} /\ e = call[h].event

(* The account of an event that is not in doubt.                           *)
EventOK(e) ==
  /\ applied[e] <= 1
  /\ claims[e] = "none" => applied[e] = 0 /\ \A h \in Handlers : e \notin Held(h)
  /\ claims[e] = "claimed" => \E h \in Handlers : At(h, e)
  /\ claims[e] = "done" => Explained(e)
  /\ \A g, h \in Handlers : e \in Held(g) /\ e \in Held(h) => g = h
  /\ \A h \in Handlers :
       /\ e \in call[h].patch => applied[e] = 0
       /\ At(h, e) /\ call[h].pc = "apply" => applied[e] = 0 /\ e \notin call[h].patch
       /\ At(h, e) /\ call[h].pc = "done" => applied[e] > 0 \/ e \in call[h].patch

EventsOK == \A e \in Events : e \notin doubtful => EventOK(e)

(* The running request: its handler works for a client that waits, and     *)
(* each of its events is still to do or accounted for.                     *)
ServerOK ==
  server # Nobody =>
    /\ pump = "sent" /\ call[server].open /\ call[server].pc # "free"
    /\ (call[server].pc # "answer" \/ call[server].status = "ok") =>
         \A e \in inflight : e \in call[server].todo \/ Explained(e)

TimerOK == timer => pump = "idle"

IInv == TypeOK /\ HandlersOK /\ EventsOK /\ ServerOK /\ TimerOK /\ LossExplained

(* What of TypeOK is about the runner.                                     *)
RunnerOK ==
  /\ created \subseteq Events /\ turnOf \in [Events -> Turns \cup {0}]
  /\ queue \subseteq created /\ inflight \subseteq queue
  /\ pump \in {"idle", "sent", "sleep", "ended"} /\ timer \in BOOLEAN /\ fatal \in BOOLEAN
  /\ stage \in {"work", "flush", "complete", "last", "exit"} /\ turn \in Turns /\ late \subseteq Turns

-----------------------------------------------------------------------------
(* The initial states.                                                     *)
LEMMA InitIInv == Init => IInv
<1> SUFFICES ASSUME Init PROVE IInv
  BY Zenon
<1>1. \A h \in Handlers : call[h] = Free
  BY Zenon DEF Init
<1>2. Free \in Calls
  BY Zenon DEF Free, Calls
<1>3. TypeOK
  BY Zenon, <1>2, BufferConstants DEF Init, BufferInit, TypeOK
<1>4. \A h \in Handlers : call[h].pc = "free" /\ call[h].todo = {} /\ call[h].patch = {}
  BY <1>1 DEF Free
<1>5. HandlersOK
  BY Zenon, <1>4 DEF HandlersOK, HandlerOK
<1>6. EventsOK
  BY <1>4 DEF EventsOK, EventOK, Held, At, Init
<1>7. ServerOK /\ TimerOK /\ LossExplained
  BY Zenon DEF ServerOK, TimerOK, LossExplained, Init, BufferInit
<1> QED
  BY Zenon, <1>3, <1>5, <1>6, <1>7 DEF IInv

(* A request's entries are entries of the queue (run).                     *)
LEMMA FirstOf == \A S, n : First(S, n) \subseteq S
  BY Zenon DEF First

(* A step of the runner that leaves the running request alone leaves the   *)
(* API's account as it was.                                                *)
LEMMA ApiFrame ==
  ASSUME IInv, Api, RunnerOK', created \subseteq created', TimerOK',
         server # Nobody => inflight' = inflight /\ pump' = pump
  PROVE  IInv'
<1> USE DEF Api, apiVars
<1>1. Calls \subseteq Calls'
  BY Zenon DEF Calls
<1>2. call' \in [Handlers -> Calls']
  BY Zenon, <1>1 DEF IInv, TypeOK
<1>3. TypeOK'
  BY Zenon, <1>2 DEF IInv, TypeOK, RunnerOK
<1>4. HandlersOK'
  BY Zenon DEF IInv, HandlersOK, HandlerOK
<1>5. \A e : Explained(e)' <=> Explained(e)
  BY Zenon DEF Explained, Held
<1>6. \A e : EventOK(e)' <=> EventOK(e)
  BY <1>5 DEF EventOK, Held, At
<1>7. EventsOK'
  BY Zenon, <1>6 DEF IInv, EventsOK
<1>8. ServerOK'
  BY Zenon, <1>5 DEF IInv, ServerOK
<1>9. LossExplained'
  BY Zenon, <1>5 DEF IInv, LossExplained
<1> QED
  BY Zenon, <1>3, <1>4, <1>7, <1>8, <1>9 DEF IInv

(* schedule leaves the timer set only when no run is on.                   *)
LEMMA ScheduleKeeps ==
  ASSUME NEW q, schedule(q)
  PROVE  /\ inflight' \subseteq q /\ pump' \in {"idle", "sent"} /\ timer' \in BOOLEAN
         /\ timer' => pump' = "idle"
         /\ pump' = "idle" => timer'
  BY Zenon, FirstOf DEF schedule, Post

LEMMA PushStep ==
  ASSUME IInv, NEW e \in Events, Push(e), Api
  PROVE  IInv'
<1> USE DEF IInv, TypeOK
<1>1. server # Nobody => pump = "sent"
  BY Zenon DEF ServerOK
<1>2. CASE closed \/ fatal
  <2>1. RunnerOK' /\ created \subseteq created' /\ TimerOK' /\ inflight' = inflight /\ pump' = pump
    BY Zenon, <1>2 DEF Push, push, RunnerOK, TimerOK, sessionVars
  <2> QED
    BY Zenon, <2>1, ApiFrame
<1>3. CASE ~(closed \/ fatal)
  <2> DEFINE q == (queue \cup {e}) \ evict(queue \cup {e})
  <2>1. inflight \subseteq q /\ q \subseteq created \cup {e}
    BY Zenon DEF evict
  <2>2. /\ created' = created \cup {e} /\ queue' = q /\ fatal' = fatal
        /\ turnOf' = [turnOf EXCEPT ![e] = IF e \in Own THEN 0 ELSE turn]
        /\ IF pump = "idle" THEN schedule(q) ELSE UNCHANGED <<pump, inflight, timer>>
        /\ UNCHANGED sessionVars
    BY Zenon, <1>3 DEF Push, push
  <2> HIDE DEF q
  <2>3. turnOf' \in [Events -> Turns \cup {0}]
    BY Zenon, <2>2
  <2>4. inflight' \subseteq q /\ pump' \in {"idle", "sent", "sleep", "ended"} /\ timer' \in BOOLEAN /\ TimerOK'
    BY Zenon, <2>1, <2>2, ScheduleKeeps DEF TimerOK
  <2>5. RunnerOK'
    BY Zenon, <2>1, <2>2, <2>3, <2>4 DEF RunnerOK, sessionVars
  <2>6. server # Nobody => inflight' = inflight /\ pump' = pump
    BY Zenon, <1>1, <2>2
  <2> QED
    BY Zenon, <2>2, <2>4, <2>5, <2>6, ApiFrame
<1> QED
  BY Zenon, <1>2, <1>3

(* The other steps of the runner.  No run is on when one starts, so the    *)
(* running request keeps its entries.                                      *)
LEMMA RunnerStep ==
  ASSUME IInv, Api, TimerFires \/ Finally \/ Wake \/ FlushTurn \/ FlushReturns \/ Close
  PROVE  IInv'
<1> USE DEF IInv, TypeOK
<1>1. server # Nobody => pump = "sent"
  BY Zenon DEF ServerOK
<1>2. ASSUME pump \in {"idle", "sleep"}, Post(queue)
      PROVE  pump' = "sent" /\ inflight' \subseteq queue /\ server = Nobody
  BY Zenon, <1>1, <1>2, FirstOf DEF Post
<1>3. CASE TimerFires
  BY Zenon, <1>2, <1>3, ApiFrame DEF TimerFires, RunnerOK, TimerOK, sessionVars
<1>4. CASE Finally
  <2>1. server = Nobody
    BY Zenon, <1>1, <1>4 DEF Finally
  <2>2. /\ inflight' \subseteq queue /\ pump' \in {"idle", "sent"} /\ timer' \in BOOLEAN
        /\ timer' => pump' = "idle"
    BY Zenon, <1>4, ScheduleKeeps DEF Finally, TimerOK
  <2> QED
    BY Zenon, <1>4, <2>1, <2>2, ApiFrame DEF Finally, RunnerOK, TimerOK, sessionVars
<1>5. CASE Wake
  <2>1. pump' = "sent" /\ inflight' \subseteq queue /\ server = Nobody /\ ~timer
    BY Zenon, <1>2, <1>5 DEF Wake, TimerOK
  <2> QED
    BY Zenon, <1>5, <2>1, ApiFrame DEF Wake, RunnerOK, TimerOK, sessionVars
<1>6. ASSUME startFlush
      PROVE  /\ inflight' \subseteq queue /\ pump' \in {"idle", "sent", "sleep", "ended"} /\ timer' \in BOOLEAN
             /\ TimerOK'
             /\ server # Nobody => inflight' = inflight /\ pump' = pump
  BY ZenonT(30), <1>1, <1>2, <1>6 DEF startFlush, TimerOK
<1>7. CASE FlushTurn
  BY Zenon, <1>6, <1>7, ApiFrame DEF FlushTurn, RunnerOK
<1>8. CASE FlushReturns
  BY Zenon, <1>8, ApiFrame DEF FlushReturns, RunnerOK, TimerOK, bufferVars
<1>9. CASE Close
  BY Zenon, <1>6, <1>9, ApiFrame DEF Close, RunnerOK
<1> QED
  BY Zenon, <1>3, <1>4, <1>5, <1>7, <1>8, <1>9

-----------------------------------------------------------------------------
(* The API.  A step of handler h leaves the other handlers alone.          *)
LEMMA SetFacts ==
  ASSUME TypeOK, NEW h \in Handlers, NEW c, Set(h, c)
  PROVE  /\ call'[h] = c
         /\ \A g \in Handlers : g # h => /\ call'[g] = call[g]
                                         /\ Held(g)' = Held(g)
                                         /\ \A e : At(g, e)' <=> At(g, e)
<1>1. call'[h] = c /\ \A g \in Handlers : g # h => call'[g] = call[g]
  BY Zenon DEF TypeOK, Set
<1> QED
  BY Zenon, <1>1 DEF Held, At

LEMMA CallsKept ==
  ASSUME TypeOK, NEW h \in Handlers, NEW c \in Calls, Set(h, c), UNCHANGED created
  PROVE  call' \in [Handlers -> Calls']
<1>1. call' \in [Handlers -> Calls]
  BY Zenon DEF TypeOK, Set
<1>2. Calls' = Calls
  BY Zenon DEF Calls
<1> QED
  BY Zenon, <1>1, <1>2

(* A step that changes no handler, effect or claim.                        *)
LEMMA AccountFrame ==
  ASSUME EventsOK, UNCHANGED <<call, claims, applied, ignored, doubtful>>, ~live => ~live'
  PROVE  EventsOK' /\ \A e : Explained(e) => Explained(e)'
<1>1. \A e : Explained(e) => Explained(e)'
  BY Zenon DEF Explained, Held
<1>2. \A e : EventOK(e) => EventOK(e)'
  BY <1>1 DEF EventOK, Held, At
<1> QED
  BY Zenon, <1>1, <1>2 DEF EventsOK

LEMMA NextTurnStep ==
  ASSUME IInv, NextTurn
  PROVE  IInv'
<1> USE DEF IInv, NextTurn, bufferVars
<1>1. TypeOK'
  BY Zenon DEF TypeOK, Calls, sessionVars
<1>2. EventsOK' /\ \A e : Explained(e) => Explained(e)'
  BY Zenon, AccountFrame
<1>3. HandlersOK' /\ ServerOK' /\ TimerOK' /\ LossExplained'
  BY Zenon, <1>2 DEF HandlersOK, HandlerOK, ServerOK, TimerOK, LossExplained
<1> QED
  BY Zenon, <1>1, <1>2, <1>3

LEMMA SessionEndsStep ==
  ASSUME IInv, SessionEnds
  PROVE  IInv'
<1> USE DEF IInv, SessionEnds, bufferVars
<1>0. live' \in BOOLEAN /\ token' \in BOOLEAN /\ Calls' = Calls
  BY Zenon DEF TypeOK, Calls
<1>1. TypeOK'
  BY Zenon, <1>0 DEF TypeOK, sessionVars
<1>2. EventsOK' /\ \A e : Explained(e) => Explained(e)'
  BY AccountFrame
<1>3. HandlersOK' /\ ServerOK' /\ TimerOK' /\ LossExplained'
  BY Zenon, <1>2 DEF HandlersOK, HandlerOK, ServerOK, TimerOK, LossExplained
<1> QED
  BY Zenon, <1>1, <1>2, <1>3

(* A step that leaves the handlers holding what they hold.                 *)
LEMMA HoldingFrame ==
  ASSUME EventsOK, UNCHANGED <<claims, applied, ignored, doubtful, live>>,
         \A g \in Handlers : /\ Held(g)' = Held(g) /\ call'[g].patch = call[g].patch
                             /\ call[g].pc \in {"apply", "done"} \/ call'[g].pc \in {"apply", "done"} =>
                                  call'[g].pc = call[g].pc /\ call'[g].event = call[g].event
  PROVE  EventsOK' /\ \A e : Explained(e) => Explained(e)'
<1>1. \A e : Explained(e) => Explained(e)'
  BY Zenon DEF Explained
<1>2. ASSUME NEW g \in Handlers, NEW e
      PROVE  (At(g, e)' <=> At(g, e)) /\ (At(g, e) => call'[g].pc = call[g].pc)
  BY Zenon DEF At
<1>3. ASSUME NEW e, EventOK(e)
      PROVE  EventOK(e)'
  BY ZenonT(30), <1>1, <1>2, <1>3 DEF EventOK
<1> QED
  BY Zenon, <1>1, <1>3 DEF EventsOK

(* Receive: the handler takes the entries of the request, or answers.      *)
LEMMA ReceiveFacts ==
  ASSUME TypeOK, NEW h \in Handlers, Receive(h)
  PROVE  \E d \in Calls :
           /\ Set(h, d) /\ d.patch = {} /\ d.open
           /\ \/ d.pc = "claim" /\ d.todo = inflight /\ d.cur = current
              \/ d.pc = "answer" /\ d.todo = {} /\ (d.status = "auth" \/ ~live)
<1> DEFINE c == [Free EXCEPT !.pc = "claim", !.todo = inflight, !.cur = current, !.open = TRUE]
           answer(s) == [c EXCEPT !.pc = "answer", !.status = s, !.todo = {}, !.event = 0, !.patch = {}]
<1>1. c \in Calls /\ c.open /\ \A s \in {"ok", "auth"} : answer(s) \in Calls
  BY Zenon DEF TypeOK, Calls, Free
<1>2. \/ Set(h, c)
      \/ ~token /\ Set(h, answer("auth"))
      \/ ~live /\ Set(h, answer("ok"))
  BY Zenon, <1>1 DEF Receive, Respond
<1> QED
  BY ZenonT(30), <1>1, <1>2 DEF Free

LEMMA ReceiveStep ==
  ASSUME IInv, NEW h \in Handlers, Receive(h)
  PROVE  IInv'
<1> USE DEF IInv
<1>3. PICK d \in Calls :
        /\ Set(h, d) /\ d.patch = {} /\ d.open
        /\ \/ d.pc = "claim" /\ d.todo = inflight
           \/ d.pc = "answer" /\ d.todo = {} /\ (d.status = "auth" \/ ~live)
  BY Zenon, ReceiveFacts
<1>4. /\ call[h].pc = "free" /\ server' = h /\ pump = "sent"
      /\ UNCHANGED <<bufferVars, sessionVars, claims, applied, acked, ignored, doubtful, current, token, live, faults>>
  BY Zenon DEF Receive
<1>5. /\ call'[h] = d
      /\ \A g \in Handlers : g # h => call'[g] = call[g] /\ Held(g)' = Held(g)
  BY Zenon, <1>3, SetFacts
<1>6. TypeOK'
  BY ZenonT(30), <1>3, <1>4, CallsKept DEF TypeOK, bufferVars, sessionVars
<1>7. HandlersOK'
  BY Zenon, <1>3, <1>5 DEF HandlersOK, HandlerOK
<1>8. Held(h) = {} /\ Held(h)' = {} /\ call[h].patch = {}
  BY Zenon, <1>3, <1>4, <1>5 DEF Held, HandlersOK, HandlerOK
<1>9. EventsOK' /\ \A e : Explained(e) => Explained(e)'
  BY Zenon, <1>3, <1>4, <1>5, <1>8, HoldingFrame
<1>10. ServerOK'
  BY Zenon, <1>3, <1>4, <1>5 DEF ServerOK, Explained, bufferVars
<1>11. TimerOK' /\ LossExplained'
  BY Zenon, <1>4, <1>9 DEF TimerOK, LossExplained, bufferVars
<1> QED
  BY Zenon, <1>6, <1>7, <1>9, <1>10, <1>11

(* Hangup: the handler goes on, or its answer is gone.                     *)
LEMMA HangupStep ==
  ASSUME IInv, call' = Hangup, server' = Nobody, RunnerOK', TimerOK', UNCHANGED created, faults' \in Nat,
         UNCHANGED <<claims, applied, acked, ignored, doubtful, current, token, live>>
  PROVE  IInv'
<1> USE DEF IInv
<1>1. CASE server = Nobody
  <2>1. call' = call
    BY Zenon, <1>1 DEF Hangup
  <2>2. TypeOK'
    BY Zenon, <2>1 DEF TypeOK, RunnerOK, Calls
  <2>3. EventsOK' /\ \A e : Explained(e) => Explained(e)'
    BY Zenon, <2>1, AccountFrame
  <2> QED
    BY Zenon, <2>1, <2>2, <2>3 DEF HandlersOK, HandlerOK, ServerOK, LossExplained
<1>2. CASE server # Nobody
  <2>0. PICK h \in Handlers : server = h
    BY Zenon, <1>2 DEF TypeOK
  <2> DEFINE c == IF call[h].pc = "answer" THEN Free ELSE [call[h] EXCEPT !.open = FALSE]
  <2>1. Set(h, c)
    BY Zenon, <1>2, <2>0 DEF Hangup, Set
  <2>2. c \in Calls
    <3>1. Free \in Calls
      BY Zenon DEF Calls, Free
    <3>2. call[h] \in Calls
      BY Zenon DEF TypeOK
    <3>3. [call[h] EXCEPT !.open = FALSE] \in Calls
      BY Zenon, <3>2 DEF Calls
    <3> QED
      BY Zenon, <3>1, <3>3
  <2>3. /\ call'[h] = c
        /\ \A g \in Handlers : g # h => call'[g] = call[g] /\ Held(g)' = Held(g)
    BY Zenon, <2>1, SetFacts
  <2>4. \/ c.pc = "free" /\ c.todo = {} /\ c.patch = {} /\ call[h].pc = "answer"
        \/ /\ c.pc = call[h].pc /\ c.todo = call[h].todo /\ c.patch = call[h].patch
           /\ c.event = call[h].event
    BY DEF TypeOK, Calls, Free
  <2> HIDE DEF c
  <2>5. TypeOK'
    BY Zenon, <2>1, <2>2, CallsKept DEF TypeOK, RunnerOK
  <2>6. HandlersOK'
    BY ZenonT(30), <2>3, <2>4 DEF HandlersOK, HandlerOK
  <2>7. Held(h)' = Held(h) /\ c.patch = call[h].patch
    BY ZenonT(30), <2>3, <2>4 DEF Held, HandlersOK, HandlerOK
  <2>8. \A g \in Handlers : /\ Held(g)' = Held(g) /\ call'[g].patch = call[g].patch
                            /\ call[g].pc \in {"apply", "done"} \/ call'[g].pc \in {"apply", "done"} =>
                                 call'[g].pc = call[g].pc /\ call'[g].event = call[g].event
    BY Zenon, <2>3, <2>4, <2>7
  <2>9. EventsOK' /\ \A e : Explained(e) => Explained(e)'
    BY Zenon, <2>8, HoldingFrame
  <2> QED
    BY Zenon, <2>5, <2>6, <2>9 DEF ServerOK, LossExplained
<1> QED
  BY Zenon, <1>1, <1>2

LEMMA LostRequestStep ==
  ASSUME IInv, PostFails \/ ProcessExit
  PROVE  IInv'
<1> USE DEF IInv, TypeOK
<1>1. CASE PostFails
  <2>1. RunnerOK' /\ TimerOK'
    BY Zenon, <1>1 DEF PostFails, RunnerOK, TimerOK, sessionVars
  <2> QED
    BY <1>1, <2>1, HangupStep DEF PostFails
<1>2. CASE ProcessExit
  <2>1. RunnerOK' /\ TimerOK'
    BY ZenonT(30), <1>2 DEF ProcessExit, Exit, RunnerOK, TimerOK
  <2> QED
    BY Zenon, <1>2, <2>1, HangupStep DEF ProcessExit, Exit
<1> QED
  BY Zenon, <1>1, <1>2

(* Claim, the first two ways: the event is passed over.  An event that is  *)
(* claimed is with its handler, and one that is done is accounted for.     *)
LEMMA SkipStep ==
  ASSUME IInv, NEW h \in Handlers, NEW e \in Events, call[h].pc = "claim", Skip(h, e),
         \/ ignored' = ignored \cup {e} /\ e \in call[h].todo
         \/ claims[e] # "none" /\ UNCHANGED ignored,
         UNCHANGED <<bufferVars, sessionVars, server, claims, applied, acked, doubtful, current, token, live, faults>>
  PROVE  IInv'
<1> USE DEF IInv
<1> DEFINE c == [call[h] EXCEPT !.todo = @ \ {e}]
<1>1. call[h] \in Calls
  BY Zenon DEF TypeOK
<1>2. /\ c \in Calls /\ c.pc = "claim" /\ c.todo = call[h].todo \ {e} /\ c.patch = call[h].patch
      /\ c.open = call[h].open
  BY Zenon, <1>1 DEF Calls
<1>3. Set(h, c)
  BY Zenon DEF Skip
<1> HIDE DEF c
<1>4. /\ call'[h] = c
      /\ \A g \in Handlers : g # h => /\ call'[g] = call[g] /\ Held(g)' = Held(g)
                                      /\ \A f : At(g, f)' <=> At(g, f)
  BY ZenonT(30), <1>3, SetFacts
<1>5. Held(h)' = Held(h) /\ \A f : ~At(h, f) /\ ~At(h, f)'
  BY ZenonT(30), <1>2, <1>4 DEF Held, At
<1>6. TypeOK'
  <2>1. ignored' \subseteq created /\ call' \in [Handlers -> Calls']
    BY Zenon, <1>1, <1>2, <1>3, CallsKept DEF TypeOK, Calls, bufferVars
  <2> QED
    BY SMTT(20), <2>1 DEF TypeOK, bufferVars, sessionVars
<1>7. HandlersOK'
  BY ZenonT(30), <1>2, <1>4 DEF HandlersOK, HandlerOK
<1>8. \A f : Explained(f) => Explained(f)'
  BY ZenonT(30), <1>4, <1>5 DEF Explained
<1>9. EventsOK'
  <2> SUFFICES ASSUME NEW f \in Events, f \notin doubtful, EventOK(f)
               PROVE  EventOK(f)'
    BY ZenonT(30) DEF EventsOK
  <2>1. \A g \in Handlers : Held(g)' = Held(g) /\ call'[g].patch = call[g].patch /\ call'[g].pc = call[g].pc
                            /\ (At(g, f)' <=> At(g, f))
    BY Zenon, <1>2, <1>4, <1>5
  <2> QED
    BY Zenon, <1>8, <2>1 DEF EventOK
<1>10. Explained(e)'
  <2>1. CASE e \in ignored'
    BY Zenon, <2>1 DEF Explained
  <2>2. CASE claims[e] # "none"
    <3>1. Explained(e)
      BY Zenon, <2>2 DEF TypeOK, EventsOK, EventOK, Explained, At, Held
    <3> QED
      BY Zenon, <1>8, <3>1
  <2> QED
    BY Zenon, <2>1, <2>2
<1>11. ServerOK'
  BY ZenonT(30), <1>2, <1>4, <1>8, <1>10 DEF ServerOK, TypeOK, bufferVars
<1>12. TimerOK' /\ LossExplained'
  BY Zenon, <1>8 DEF TimerOK, LossExplained, bufferVars
<1> QED
  BY Zenon, <1>6, <1>7, <1>9, <1>11, <1>12

(* Claim, the third way.  An event that is not in doubt has no expired     *)
(* claim, so nobody holds it and it took no effect yet.                    *)
LEMMA ClaimedStep ==
  ASSUME IInv, NEW h \in Handlers, NEW e \in Events, call[h].pc = "claim", e \in call[h].todo,
         claims[e] = "none" \/ Expired(e), claims' = [claims EXCEPT ![e] = "claimed"],
         Set(h, [call[h] EXCEPT !.pc = "apply", !.event = e]),
         UNCHANGED <<bufferVars, sessionVars, server, applied, acked, ignored, doubtful, current, token, live, faults>>
  PROVE  IInv'
<1> USE DEF IInv
<1> DEFINE c == [call[h] EXCEPT !.pc = "apply", !.event = e]
<1>1. call[h] \in Calls
  BY Zenon DEF TypeOK
<1>2. /\ c \in Calls /\ c.pc = "apply" /\ c.todo = call[h].todo /\ c.patch = call[h].patch
      /\ c.open = call[h].open /\ c.event = e
  BY Zenon, <1>1 DEF Calls
<1>3. Set(h, c)
  BY Zenon
<1> HIDE DEF c
<1>4. /\ call'[h] = c
      /\ \A g \in Handlers : g # h => /\ call'[g] = call[g] /\ Held(g)' = Held(g)
                                      /\ \A f : At(g, f)' <=> At(g, f)
  BY Zenon, <1>3, SetFacts
<1>5. /\ Held(h) = call[h].patch /\ Held(h)' = call[h].patch \cup {e}
      /\ \A f : ~At(h, f) /\ (At(h, f)' <=> f = e)
  BY Zenon, <1>2, <1>4 DEF Held, At
<1>6. TypeOK'
  <2>1. call' \in [Handlers -> Calls']
    BY Zenon, <1>2, <1>3, CallsKept DEF bufferVars
  <2> QED
    BY <2>1 DEF TypeOK, bufferVars, sessionVars
<1>7. HandlersOK'
  BY Zenon, <1>2, <1>4 DEF HandlersOK, HandlerOK
<1>8. \A f : Explained(f) => Explained(f)'
  BY Zenon, <1>4, <1>5 DEF Explained
<1>9. ASSUME NEW f \in Events, f \notin doubtful', f # e
      PROVE  EventOK(f)'
  <2>1. EventOK(f) /\ claims'[f] = claims[f]
    BY Zenon, <1>9 DEF EventsOK, TypeOK
  <2>2. \A g \in Handlers : /\ f \in Held(g)' <=> f \in Held(g)
                            /\ call'[g].patch = call[g].patch /\ (At(g, f)' <=> At(g, f))
                            /\ At(g, f) => call'[g].pc = call[g].pc
    BY <1>2, <1>4, <1>5, <1>9
  <2> QED
    BY Zenon, <1>8, <2>1, <2>2 DEF EventOK
<1>10. ASSUME e \notin doubtful'
       PROVE  EventOK(e)'
  <2>1. EventOK(e)
    BY Zenon, <1>10 DEF EventsOK
  <2>2. claims[e] = "none"
    BY Zenon, <2>1 DEF EventOK, Expired, At, Held
  <2>3. applied[e] = 0 /\ \A g \in Handlers : e \notin Held(g)
    BY Zenon, <2>1, <2>2 DEF EventOK
  <2>4. claims'[e] = "claimed"
    BY Zenon DEF TypeOK
  <2>5. \A g \in Handlers : /\ e \in Held(g)' <=> g = h
                            /\ e \notin call'[g].patch /\ (At(g, e)' <=> g = h)
    <3>1. \A g \in Handlers : e \notin call[g].patch /\ ~At(g, e)
      BY Zenon, <2>3 DEF Held, At
    <3> QED
      BY Zenon, <1>2, <1>4, <1>5, <2>3, <3>1
  <2> QED
    BY <1>2, <1>4, <2>3, <2>4, <2>5 DEF EventOK
<1>11. EventsOK'
  BY Zenon, <1>9, <1>10 DEF EventsOK
<1>12. ServerOK'
  BY Zenon, <1>2, <1>4, <1>8 DEF ServerOK, TypeOK, bufferVars
<1>13. TimerOK' /\ LossExplained'
  BY Zenon, <1>8 DEF TimerOK, LossExplained, bufferVars
<1> QED
  BY Zenon, <1>6, <1>7, <1>11, <1>12, <1>13

LEMMA ClaimStep ==
  ASSUME IInv, NEW h \in Handlers, Claim(h)
  PROVE  IInv'
<1>1. PICK e \in Events :
        /\ Comes(h, e)
        /\ \/ Skip(h, e) /\ ignored' = ignored \cup {e} /\ UNCHANGED claims
           \/ Skip(h, e) /\ claims[e] # "none" /\ UNCHANGED <<claims, ignored>>
           \/ /\ claims[e] = "none" \/ Expired(e)
              /\ claims' = [claims EXCEPT ![e] = "claimed"]
              /\ Set(h, [call[h] EXCEPT !.pc = "apply", !.event = e])
              /\ UNCHANGED ignored
  BY Zenon DEF Claim
<1>2. CASE Skip(h, e) /\ UNCHANGED claims /\ (ignored' = ignored \cup {e} \/ (claims[e] # "none" /\ UNCHANGED ignored))
  BY Zenon, <1>1, <1>2, SkipStep DEF Claim, Comes
<1>3. CASE /\ claims[e] = "none" \/ Expired(e)
           /\ claims' = [claims EXCEPT ![e] = "claimed"]
           /\ Set(h, [call[h] EXCEPT !.pc = "apply", !.event = e])
           /\ UNCHANGED ignored
  BY Zenon, <1>1, <1>3, ClaimedStep DEF Claim, Comes
<1> QED
  BY Zenon, <1>1, <1>2, <1>3

(* applyEvent: the event is this handler's alone, and it took no effect    *)
(* before.                                                                 *)
LEMMA ApplyStep ==
  ASSUME IInv, NEW h \in Handlers, applyEvent(h)
  PROVE  IInv'
<1> USE DEF IInv
<1>0. PICK e : e = call[h].event
  BY Zenon
<1>1. call[h] \in Calls /\ call[h].pc = "apply" /\ e \in call[h].todo /\ e \in created /\ e \in Events
  BY Zenon, <1>0 DEF TypeOK, applyEvent, HandlersOK, HandlerOK, Calls
<1>2. PICK P \in SUBSET {e} :
        /\ Set(h, [call[h] EXCEPT !.pc = "done", !.patch = @ \cup P])
        /\ applied' = IF P = {} THEN Applied({e}) ELSE applied
  <2>1. CASE e \in Patching
    <3>1. Set(h, [call[h] EXCEPT !.pc = "done", !.patch = @ \cup {e}]) /\ applied' = applied
      BY Zenon, <1>0, <2>1 DEF applyEvent
    <3>2. {e} # {}
      BY Zenon
    <3> QED
      BY Zenon, <3>1, <3>2
  <2>2. CASE e \notin Patching
    <3>1. [call[h] EXCEPT !.pc = "done", !.patch = @ \cup {}] = [call[h] EXCEPT !.pc = "done"]
      BY Zenon, <1>1 DEF Calls
    <3> QED
      BY Zenon, <1>0, <2>2, <3>1 DEF applyEvent
  <2> QED
    BY ZenonT(30), <2>1, <2>2
<1> DEFINE c == [call[h] EXCEPT !.pc = "done", !.patch = @ \cup P]
<1>3. /\ c \in Calls /\ c.pc = "done" /\ c.todo = call[h].todo /\ c.patch = call[h].patch \cup P
      /\ c.open = call[h].open /\ c.event = e
  BY ZenonT(30), <1>0, <1>1 DEF Calls
<1>4. Set(h, c)
  BY Zenon, <1>2
<1> HIDE DEF c
<1>5. /\ call'[h] = c
      /\ \A g \in Handlers : g # h => /\ call'[g] = call[g] /\ Held(g)' = Held(g)
                                      /\ \A f : At(g, f)' <=> At(g, f)
  BY Zenon, <1>4, SetFacts
<1>6. UNCHANGED <<bufferVars, sessionVars, server, claims, acked, ignored, doubtful, current, token, live, faults>>
  BY Zenon DEF applyEvent
<1>7. /\ Held(h) = call[h].patch \cup {e} /\ Held(h)' = Held(h)
      /\ \A f : (At(h, f) <=> f = e) /\ (At(h, f)' <=> f = e)
  BY ZenonT(30), <1>0, <1>1, <1>3, <1>5 DEF Held, At
<1>8. /\ applied' \in [Events -> Nat]
      /\ \A f \in Events : f # e => applied'[f] = applied[f]
      /\ applied'[e] = IF P = {} THEN applied[e] + 1 ELSE applied[e]
  BY <1>1, <1>2 DEF TypeOK, Applied
<1>9. TypeOK'
  <2>1. call' \in [Handlers -> Calls']
    BY Zenon, <1>3, <1>4, <1>6, CallsKept DEF bufferVars
  <2> QED
    BY ZenonT(30), <1>6, <1>8, <2>1 DEF TypeOK, bufferVars, sessionVars
<1>10. HandlersOK'
  BY ZenonT(30), <1>1, <1>3, <1>5 DEF HandlersOK, HandlerOK
<1>11. \A f \in Events : Explained(f) => Explained(f)'
  <2>1. \A f \in Events : applied[f] > 0 => applied'[f] > 0
    BY SMTT(20), <1>1, <1>8 DEF TypeOK
  <2> QED
    BY ZenonT(30), <1>5, <1>6, <1>7, <2>1 DEF Explained
<1>12. ASSUME NEW f \in Events, f \notin doubtful', f # e
       PROVE  EventOK(f)'
  <2>1. EventOK(f)
    BY Zenon, <1>6, <1>12 DEF EventsOK
  <2>2. \A g \in Handlers : /\ f \in Held(g)' <=> f \in Held(g)
                            /\ f \in call'[g].patch <=> f \in call[g].patch
                            /\ At(g, f)' <=> At(g, f)
                            /\ At(g, f) => call'[g].pc = call[g].pc
    BY SMTT(20), <1>3, <1>5, <1>7, <1>12
  <2> QED
    BY ZenonT(30), <1>6, <1>8, <1>11, <1>12, <2>1, <2>2 DEF EventOK
<1>13. ASSUME e \notin doubtful'
       PROVE  EventOK(e)'
  <2>1. EventOK(e)
    BY Zenon, <1>1, <1>6, <1>13 DEF EventsOK
  <2>2. applied[e] = 0 /\ e \notin call[h].patch /\ e \in Held(h)
    BY Zenon, <1>1, <1>7, <2>1 DEF EventOK
  <2>3. \A g \in Handlers : /\ e \in Held(g)' <=> g = h
                            /\ At(g, e)' <=> g = h
                            /\ e \in call'[g].patch <=> (g = h /\ P # {})
    <3>1. \A g \in Handlers : g # h => e \notin Held(g) /\ e \notin call[g].patch /\ ~At(g, e)
      BY Zenon, <2>1, <2>2 DEF EventOK, Held, At
    <3> QED
      BY <1>3, <1>5, <1>7, <2>2, <3>1
  <2>4. claims'[e] \in {"claimed", "done"} /\ call'[h].pc = "done"
    BY ZenonT(30), <1>1, <1>3, <1>5, <1>6, <2>1, <2>2 DEF EventOK, TypeOK
  <2> QED
    BY SMTT(20), <1>1, <1>8, <1>11, <2>1, <2>2, <2>3, <2>4, <1>6 DEF EventOK
<1>14. EventsOK'
  BY Zenon, <1>12, <1>13 DEF EventsOK
<1>15. ServerOK'
  BY ZenonT(30), <1>1, <1>3, <1>5, <1>6, <1>11 DEF ServerOK, TypeOK, bufferVars
<1>16. TimerOK' /\ LossExplained'
  BY Zenon, <1>6, <1>11 DEF TimerOK, LossExplained, bufferVars, TypeOK
<1> QED
  BY Zenon, <1>9, <1>10, <1>14, <1>15, <1>16

(* CompleteRunnerEvent: the event took effect or stays in the patch.       *)
LEMMA CompleteStep ==
  ASSUME IInv, NEW h \in Handlers, CompleteRunnerEvent(h)
  PROVE  IInv'
<1> USE DEF IInv
<1>0. PICK e : e = call[h].event
  BY Zenon
<1>1. call[h] \in Calls /\ call[h].pc = "done" /\ e \in call[h].todo /\ e \in Events
  BY Zenon, <1>0 DEF TypeOK, CompleteRunnerEvent, HandlersOK, HandlerOK, Calls
<1> DEFINE c == [call[h] EXCEPT !.pc = "claim", !.todo = @ \ {e}, !.event = 0]
<1>3. /\ c \in Calls /\ c.pc = "claim" /\ c.todo = call[h].todo \ {e} /\ c.patch = call[h].patch
      /\ c.open = call[h].open
  BY Zenon, <1>1 DEF Calls
<1>4. Set(h, c)
  BY Zenon, <1>0 DEF CompleteRunnerEvent
<1> HIDE DEF c
<1>5. /\ call'[h] = c
      /\ \A g \in Handlers : g # h => /\ call'[g] = call[g] /\ Held(g)' = Held(g)
                                      /\ \A f : At(g, f)' <=> At(g, f)
  BY Zenon, <1>4, SetFacts
<1>6. /\ UNCHANGED <<bufferVars, sessionVars, server, applied, acked, ignored, doubtful, current, token, live, faults>>
      /\ claims' = [claims EXCEPT ![e] = "done"]
  BY Zenon, <1>0 DEF CompleteRunnerEvent
<1>7. /\ Held(h) = call[h].patch \cup {e} /\ Held(h)' = call[h].patch
      /\ \A f : (At(h, f) <=> f = e) /\ ~At(h, f)'
  BY ZenonT(30), <1>0, <1>1, <1>3, <1>5 DEF Held, At
<1>8. e \in doubtful \/ applied[e] > 0 \/ e \in call[h].patch
  BY ZenonT(30), <1>1, <1>7 DEF EventsOK, EventOK
<1>9. TypeOK'
  <2>1. call' \in [Handlers -> Calls']
    BY Zenon, <1>3, <1>4, <1>6, CallsKept DEF bufferVars
  <2> QED
    BY ZenonT(30), <1>6, <2>1 DEF TypeOK, bufferVars, sessionVars
<1>10. HandlersOK'
  BY ZenonT(30), <1>1, <1>3, <1>5 DEF HandlersOK, HandlerOK
<1>11. (\A f : Explained(f) => Explained(f)') /\ Explained(e)'
  BY ZenonT(30), <1>5, <1>6, <1>7, <1>8 DEF Explained
<1>12. ASSUME NEW f \in Events, f \notin doubtful'
       PROVE  EventOK(f)'
  <2>1. EventOK(f)
    BY Zenon, <1>6, <1>12 DEF EventsOK
  <2>2. \A g \in Handlers : /\ f \in Held(g)' => f \in Held(g)
                            /\ call'[g].patch = call[g].patch
                            /\ At(g, f)' => At(g, f) /\ call'[g].pc = call[g].pc
                            /\ At(g, f) /\ f # e => At(g, f)'
    BY ZenonT(30), <1>3, <1>5, <1>7
  <2>3. claims'[f] = IF f = e THEN "done" ELSE claims[f]
    BY Zenon, <1>6 DEF TypeOK
  <2> QED
    BY <1>6, <1>11, <2>1, <2>2, <2>3 DEF EventOK
<1>14. EventsOK'
  BY Zenon, <1>12 DEF EventsOK
<1>15. ServerOK'
  BY ZenonT(30), <1>1, <1>3, <1>5, <1>6, <1>11 DEF ServerOK, TypeOK, bufferVars
<1>16. TimerOK' /\ LossExplained'
  BY Zenon, <1>6, <1>11 DEF TimerOK, LossExplained, bufferVars
<1> QED
  BY Zenon, <1>9, <1>10, <1>14, <1>15, <1>16

(* The end of a handler: it answers a client that waits.                   *)
LEMMA RespondFacts ==
  ASSUME TypeOK, NEW h \in Handlers, NEW status \in {"ok", "retry"}, Respond(h, status, call[h])
  PROVE  \E d \in Calls :
           /\ Set(h, d) /\ d.todo = {} /\ d.patch = {} /\ d.pc \in {"free", "answer"}
           /\ call[h].open => d.open /\ d.pc = "answer" /\ d.status = status
<1>1. call[h] \in Calls /\ Free \in Calls
  BY ZenonT(30) DEF TypeOK, Calls, Free
<1>2. CASE call[h].open
  <2> DEFINE d == [call[h] EXCEPT !.pc = "answer", !.status = status, !.todo = {}, !.event = 0, !.patch = {}]
  <2>1. /\ d \in Calls /\ d.todo = {} /\ d.patch = {} /\ d.pc = "answer" /\ d.open = call[h].open
        /\ d.status = status
    BY ZenonT(30), <1>1 DEF Calls
  <2>2. Set(h, d)
    BY Zenon, <1>2 DEF Respond
  <2> HIDE DEF d
  <2> QED
    BY Zenon, <1>2, <2>1, <2>2
<1>3. CASE ~call[h].open
  <2>1. Set(h, Free) /\ Free.todo = {} /\ Free.patch = {} /\ Free.pc = "free"
    BY Zenon, <1>3 DEF Respond, Free
  <2> QED
    BY Zenon, <1>1, <1>3, <2>1
<1> QED
  BY ZenonT(30), <1>2, <1>3

(* Update: what the patch holds took no effect before, and no other        *)
(* handler holds it.                                                       *)
LEMMA UpdateStep ==
  ASSUME IInv, NEW h \in Handlers, Update(h)
  PROVE  IInv'
<1> USE DEF IInv
<1>1. call[h].pc = "claim" /\ call[h].todo = {} /\ call[h] \in Calls
  BY ZenonT(30) DEF Update, TypeOK
<1>2. PICK d \in Calls :
        /\ Set(h, d) /\ d.todo = {} /\ d.patch = {} /\ d.pc \in {"free", "answer"}
        /\ call[h].open => d.open /\ d.pc = "answer" /\ d.status = "ok"
  BY ZenonT(30), RespondFacts DEF Update
<1>3. UNCHANGED <<bufferVars, sessionVars, server, claims, acked, ignored, doubtful, current, token, live, faults>>
  BY ZenonT(30) DEF Update
<1>4. /\ call'[h] = d
      /\ \A g \in Handlers : g # h => /\ call'[g] = call[g] /\ Held(g)' = Held(g)
                                      /\ \A f : At(g, f)' <=> At(g, f)
  BY ZenonT(30), <1>2, SetFacts
<1>5. Held(h) = call[h].patch /\ Held(h)' = {} /\ \A f : ~At(h, f) /\ ~At(h, f)'
  BY ZenonT(30), <1>1, <1>2, <1>4 DEF Held, At
<1>6. /\ applied' \in [Events -> Nat]
      /\ \A f \in Events : applied'[f] = IF live /\ f \in call[h].patch THEN applied[f] + 1 ELSE applied[f]
  BY DEF Update, Applied, TypeOK
<1>7. TypeOK'
  <2>1. call' \in [Handlers -> Calls']
    BY ZenonT(30), <1>2, <1>3, CallsKept DEF bufferVars
  <2> QED
    BY <1>3, <1>6, <2>1 DEF TypeOK, bufferVars, sessionVars
<1>8. HandlersOK'
  BY ZenonT(30), <1>2, <1>4 DEF HandlersOK, HandlerOK
<1>9. \A f \in Events : Explained(f) => Explained(f)'
  <2>1. \A f \in Events : /\ applied[f] > 0 => applied'[f] > 0
                          /\ live /\ f \in call[h].patch => applied'[f] > 0
    BY <1>6 DEF TypeOK
  <2> QED
    BY ZenonT(30), <1>3, <1>4, <1>5, <2>1 DEF Explained
<1>10. ASSUME NEW f \in Events, f \notin doubtful'
       PROVE  EventOK(f)'
  <2>1. EventOK(f)
    BY Zenon, <1>3, <1>10 DEF EventsOK
  <2>2. \A g \in Handlers : /\ f \in Held(g)' => f \in Held(g) /\ g # h
                            /\ f \in call'[g].patch => f \in call[g].patch /\ g # h
                            /\ At(g, f)' <=> At(g, f)
                            /\ At(g, f) => call'[g].pc = call[g].pc /\ call'[g].patch = call[g].patch
    BY ZenonT(30), <1>2, <1>4, <1>5
  <2>3. CASE f \in call[h].patch
    <3>1. applied[f] = 0 /\ applied'[f] <= 1 /\ claims[f] # "none"
      BY <1>5, <1>6, <2>1, <2>3 DEF EventOK
    <3>2. \A g \in Handlers : g # h => f \notin Held(g) /\ f \notin call[g].patch /\ ~At(g, f)
      BY Zenon, <1>5, <2>1, <2>3 DEF EventOK, Held, At
    <3>3. \A g \in Handlers : f \notin Held(g)' /\ f \notin call'[g].patch /\ ~At(g, f)'
      BY ZenonT(30), <1>5, <2>2, <3>2
    <3> QED
      BY Zenon, <1>3, <1>9, <2>1, <2>2, <3>1, <3>3 DEF EventOK
  <2>4. CASE f \notin call[h].patch
    <3>1. applied'[f] = applied[f]
      BY ZenonT(30), <1>6, <2>4
    <3> QED
      BY ZenonT(30), <1>3, <1>9, <2>1, <2>2, <3>1 DEF EventOK
  <2> QED
    BY Zenon, <2>3, <2>4
<1>11. EventsOK'
  BY Zenon, <1>10 DEF EventsOK
<1>12. ServerOK'
  BY ZenonT(30), <1>1, <1>2, <1>3, <1>4, <1>9 DEF ServerOK, TypeOK, bufferVars
<1>13. TimerOK' /\ LossExplained'
  BY ZenonT(30), <1>3, <1>9 DEF TimerOK, LossExplained, bufferVars, TypeOK
<1> QED
  BY Zenon, <1>7, <1>8, <1>11, <1>12, <1>13

(* CutOff: all that the handler held is in doubt.                          *)
LEMMA CutOffStep ==
  ASSUME IInv, NEW h \in Handlers, CutOff(h)
  PROVE  IInv'
<1> USE DEF IInv
<1>1. call[h] \in Calls /\ Held(h) \subseteq created
  BY ZenonT(30) DEF TypeOK, Calls, Held, HandlersOK, HandlerOK
<1>2. PICK d \in Calls :
        /\ Set(h, d) /\ d.todo = {} /\ d.patch = {} /\ d.pc \in {"free", "answer"}
        /\ call[h].open => d.open /\ d.pc = "answer" /\ d.status = "retry"
  BY Zenon, RespondFacts DEF CutOff
<1>3. /\ UNCHANGED <<bufferVars, sessionVars, server, claims, applied, acked, ignored, current, token, live>>
      /\ doubtful' = doubtful \cup Held(h) /\ faults' = faults + 1
  BY ZenonT(30) DEF CutOff
<1>4. /\ call'[h] = d
      /\ \A g \in Handlers : g # h => /\ call'[g] = call[g] /\ Held(g)' = Held(g)
                                      /\ \A f : At(g, f)' <=> At(g, f)
  BY ZenonT(30), <1>2, SetFacts
<1>5. /\ Held(h)' = {} /\ call[h].patch \subseteq Held(h)
      /\ \A f : ~At(h, f)' /\ (At(h, f) => f \in Held(h))
  BY ZenonT(30), <1>2, <1>4 DEF Held, At
<1>6. TypeOK'
  <2>1. call' \in [Handlers -> Calls']
    BY Zenon, <1>2, <1>3, CallsKept DEF bufferVars
  <2> QED
    BY <1>1, <1>3, <2>1 DEF TypeOK, bufferVars, sessionVars
<1>7. HandlersOK'
  BY ZenonT(30), <1>2, <1>4 DEF HandlersOK, HandlerOK
<1>8. \A f : Explained(f) => Explained(f)'
  BY ZenonT(30), <1>3, <1>4, <1>5 DEF Explained
<1>9. ASSUME NEW f \in Events, f \notin doubtful'
      PROVE  EventOK(f)'
  <2>1. EventOK(f) /\ f \notin Held(h)
    BY Zenon, <1>3, <1>9 DEF EventsOK
  <2>2. \A g \in Handlers : /\ f \in Held(g)' <=> f \in Held(g)
                            /\ f \in call'[g].patch <=> f \in call[g].patch
                            /\ At(g, f)' <=> At(g, f)
                            /\ At(g, f) => call'[g].pc = call[g].pc
    BY ZenonT(30), <1>2, <1>4, <1>5, <2>1
  <2> QED
    BY ZenonT(30), <1>3, <1>8, <2>1, <2>2 DEF EventOK
<1>10. EventsOK'
  BY Zenon, <1>9 DEF EventsOK
<1>11. ServerOK'
  BY ZenonT(30), <1>2, <1>3, <1>4, <1>8 DEF ServerOK, TypeOK, bufferVars
<1>12. TimerOK' /\ LossExplained'
  BY ZenonT(30), <1>3, <1>8 DEF TimerOK, LossExplained, bufferVars
<1> QED
  BY Zenon, <1>6, <1>7, <1>10, <1>11, <1>12

(* ActivityRefused: the handler goes on, its event is in doubt.            *)
LEMMA RefusedStep ==
  ASSUME IInv, NEW h \in Handlers, ActivityRefused(h)
  PROVE  IInv'
<1> USE DEF IInv
<1>0. PICK e : e = call[h].event
  BY Zenon
<1>1. call[h] \in Calls /\ call[h].pc = "apply" /\ e \in call[h].todo /\ e \in created
  BY Zenon, <1>0 DEF TypeOK, ActivityRefused, HandlersOK, HandlerOK, Calls
<1> DEFINE c == [call[h] EXCEPT !.pc = "done"]
<1>2. /\ c \in Calls /\ c.pc = "done" /\ c.todo = call[h].todo /\ c.patch = call[h].patch
      /\ c.open = call[h].open /\ c.event = e
  BY Zenon, <1>0, <1>1 DEF Calls
<1>3. /\ Set(h, c) /\ doubtful' = doubtful \cup {e} /\ faults' = faults + 1
      /\ UNCHANGED <<bufferVars, sessionVars, server, claims, applied, acked, ignored, current, token, live>>
  BY Zenon, <1>0 DEF ActivityRefused
<1> HIDE DEF c
<1>4. /\ call'[h] = c
      /\ \A g \in Handlers : g # h => /\ call'[g] = call[g] /\ Held(g)' = Held(g)
                                      /\ \A f : At(g, f)' <=> At(g, f)
  BY ZenonT(30), <1>3, SetFacts
<1>5. Held(h)' = Held(h) /\ \A f : (At(h, f) <=> f = e) /\ (At(h, f)' <=> f = e)
  BY ZenonT(30), <1>0, <1>1, <1>2, <1>4 DEF Held, At
<1>6. TypeOK'
  <2>1. call' \in [Handlers -> Calls']
    BY Zenon, <1>2, <1>3, CallsKept DEF bufferVars
  <2> QED
    BY <1>1, <1>3, <2>1 DEF TypeOK, bufferVars, sessionVars
<1>7. HandlersOK'
  BY ZenonT(30), <1>1, <1>2, <1>4 DEF HandlersOK, HandlerOK
<1>8. \A f : Explained(f) => Explained(f)'
  BY ZenonT(30), <1>3, <1>4, <1>5 DEF Explained
<1>9. ASSUME NEW f \in Events, f \notin doubtful'
      PROVE  EventOK(f)'
  <2>1. EventOK(f) /\ f # e
    BY ZenonT(30), <1>3, <1>9 DEF EventsOK
  <2>2. \A g \in Handlers : /\ f \in Held(g)' <=> f \in Held(g)
                            /\ f \in call'[g].patch <=> f \in call[g].patch
                            /\ At(g, f)' <=> At(g, f)
                            /\ At(g, f) => call'[g].pc = call[g].pc
    BY ZenonT(30), <1>2, <1>4, <1>5, <2>1
  <2> QED
    BY ZenonT(30), <1>3, <1>8, <2>1, <2>2 DEF EventOK
<1>10. EventsOK'
  BY Zenon, <1>9 DEF EventsOK
<1>11. ServerOK'
  BY ZenonT(30), <1>1, <1>2, <1>3, <1>4, <1>8 DEF ServerOK, TypeOK, bufferVars
<1>12. TimerOK' /\ LossExplained'
  BY ZenonT(30), <1>3, <1>8 DEF TimerOK, LossExplained, bufferVars
<1> QED
  BY Zenon, <1>6, <1>7, <1>10, <1>11, <1>12

(* Answer: a success was answered only after each event of the request was *)
(* accounted for.                                                          *)
LEMMA AnswerStep ==
  ASSUME IInv, NEW h \in Handlers, Answer(h)
  PROVE  IInv'
<1> USE DEF IInv
<1>1. /\ pump = "sent" /\ server = h /\ call[h].pc = "answer" /\ Set(h, Free) /\ server' = Nobody
      /\ UNCHANGED <<created, turnOf, timer, sessionVars, claims, applied, ignored, doubtful, current, token, live, faults>>
  BY ZenonT(30) DEF Answer
<1>2. Free \in Calls /\ Free.pc = "free" /\ Free.todo = {} /\ Free.patch = {}
  BY ZenonT(30) DEF Free, Calls
<1>3. /\ call'[h] = Free
      /\ \A g \in Handlers : g # h => /\ call'[g] = call[g] /\ Held(g)' = Held(g)
  BY ZenonT(30), <1>1, SetFacts
<1>4. Held(h) = {} /\ Held(h)' = {} /\ call[h].todo = {} /\ call[h].patch = {}
  BY ZenonT(30), <1>1, <1>2, <1>3 DEF Held, HandlersOK, HandlerOK
<1>5. EventsOK' /\ \A e : Explained(e) => Explained(e)'
  BY ZenonT(30), <1>1, <1>2, <1>3, <1>4, HoldingFrame
<1>6. /\ queue' \subseteq queue /\ inflight' \subseteq queue' /\ fatal' \in BOOLEAN
      /\ pump' \in {"sent", "sleep", "ended"}
      /\ acked' = acked \/ (call[h].status = "ok" /\ acked' = acked \cup inflight)
  <2>1. CASE call[h].status = "ok" /\ removeBatch /\ acked' = acked \cup inflight /\ UNCHANGED fatal
    BY <2>1, FirstOf DEF removeBatch, Post, TypeOK
  <2>2. CASE call[h].status # "ok"
    BY Zenon, <2>2 DEF Answer, TypeOK
  <2> QED
    BY ZenonT(30), <2>1, <2>2 DEF Answer
<1>7. HandlersOK'
  BY ZenonT(30), <1>2, <1>3 DEF HandlersOK, HandlerOK
<1>8. Nobody \notin Handlers
  BY Zenon, ApiConstants
<1>9. ASSUME call[h].status = "ok" PROVE \A e \in inflight : Explained(e)
  BY ZenonT(30), <1>1, <1>4, <1>8, <1>9 DEF ServerOK
<1>10. LossExplained'
  BY ZenonT(30), <1>5, <1>6, <1>9 DEF LossExplained
<1>11. TypeOK'
  <2>1. call' \in [Handlers -> Calls']
    BY Zenon, <1>1, <1>2, CallsKept
  <2> QED
    BY ZenonT(30), <1>1, <1>6, <2>1 DEF TypeOK, sessionVars
<1>12. ServerOK'
  BY ZenonT(30), <1>1 DEF ServerOK
<1>13. TimerOK'
  <2>1. ~timer
    BY ZenonT(30), <1>1 DEF TimerOK
  <2> QED
    BY ZenonT(30), <1>1, <2>1 DEF TimerOK
<1> QED
  BY Zenon, <1>5, <1>7, <1>10, <1>11, <1>12, <1>13

LEMMA NextIInv == IInv /\ [Next]_vars => IInv'
<1> SUFFICES ASSUME IInv, [Next]_vars PROVE IInv'
  BY Zenon
<1>1. CASE \E e \in Events : Push(e) /\ Api
  BY Zenon, <1>1, PushStep
<1>2. CASE (TimerFires \/ Finally \/ Wake \/ FlushTurn \/ FlushReturns \/ Close) /\ Api
  BY Zenon, <1>2, RunnerStep
<1>3. CASE ProcessExit \/ PostFails
  BY Zenon, <1>3, LostRequestStep
<1>4. CASE NextTurn
  BY Zenon, <1>4, NextTurnStep
<1>5. CASE SessionEnds
  BY Zenon, <1>5, SessionEndsStep
<1>6. CASE \E h \in Handlers : Receive(h) \/ Serve(h) \/ ActivityRefused(h) \/ CutOff(h) \/ Answer(h)
  BY Zenon, <1>6, ReceiveStep, ClaimStep, ApplyStep, CompleteStep, UpdateStep, RefusedStep, CutOffStep, AnswerStep DEF Serve
<1>7. CASE UNCHANGED vars
  <2>1. RunnerOK' /\ TimerOK'
    BY Zenon, <1>7 DEF IInv, TypeOK, RunnerOK, TimerOK, vars, bufferVars, sessionVars
  <2> QED
    BY Zenon, <1>7, <2>1, ApiFrame DEF vars, bufferVars, Api
<1> QED
  BY Zenon, <1>1, <1>2, <1>3, <1>4, <1>5, <1>6, <1>7 DEF Next

LEMMA InvariantHolds == Spec => []IInv
  BY InitIInv, NextIInv, PTL DEF Spec

(* The running request and the queue are always events that were created,  *)
(* the request part of the queue although evictions go on beside it        *)
(* (event-buffer.ts evict), for every instance.                            *)
THEOREM RunnerTypeCorrect == Spec => []TypeOK
<1>1. IInv => TypeOK
  BY Zenon DEF IInv
<1> QED
  BY <1>1, InvariantHolds, PTL

(* No event that the runner dropped as delivered is lost without one of    *)
(* the named reasons, for every instance (event-buffer.ts run, events.go). *)
THEOREM NoSilentLoss == Spec => []LossExplained
<1>1. IInv => LossExplained
  BY Zenon DEF IInv
<1> QED
  BY <1>1, InvariantHolds, PTL

(* However requests are given up and repeated, no event takes effect twice *)
(* unless its handler was cut off, for every instance (events.go claims).  *)
THEOREM EffectAtMostOnce == Spec => []AtMostOnce
<1>1. IInv => AtMostOnce
  <2> SUFFICES ASSUME IInv, NEW e \in Events, e \notin doubtful
               PROVE  applied[e] + (IF e \in OnTheWay THEN 1 ELSE 0) <= 1
    BY Zenon DEF AtMostOnce, Delivery!Once
  <2>1. applied[e] \in Nat /\ applied[e] <= 1
    BY ZenonT(30) DEF IInv, TypeOK, EventsOK, EventOK
  <2>2. e \in OnTheWay => applied[e] = 0
    BY Zenon DEF OnTheWay
  <2> QED
    BY SMTT(20), <2>1, <2>2
<1> QED
  BY <1>1, InvariantHolds, PTL

-----------------------------------------------------------------------------
(* No event is left behind in the queue, for every instance: whenever no   *)
(* run is on, the timer is set or the token was rejected (event-buffer.ts  *)
(* schedule, pump and its finally, flush).                                 *)
THEOREM NeverLeftBehind == Spec => []Scheduled
<1>1. Init => Scheduled
  BY Zenon DEF Init, BufferInit, Scheduled
<1>2. Scheduled /\ [Next]_vars => Scheduled'
  <2> SUFFICES ASSUME Scheduled, [Next]_vars PROVE Scheduled'
    BY Zenon
  <2> USE DEF Scheduled
  <2>1. ASSUME NEW e \in Events, Push(e) PROVE Scheduled'
    <3>1. CASE closed \/ fatal \/ pump # "idle"
      BY ZenonT(30), <2>1, <3>1 DEF Push, push
    <3>2. CASE ~(closed \/ fatal \/ pump # "idle")
      <4>1. PICK q : queue' = q /\ schedule(q)
        BY ZenonT(30), <2>1, <3>2 DEF Push, push
      <4> QED
        BY Zenon, <4>1, ScheduleKeeps
    <3> QED
      BY Zenon, <3>1, <3>2
  <2>2. CASE TimerFires
    BY Zenon, <2>2 DEF TimerFires, Post
  <2>3. CASE Finally
    BY Zenon, <2>3, ScheduleKeeps DEF Finally
  <2>4. CASE Wake
    BY Zenon, <2>4 DEF Wake, Post
  <2>5. CASE FlushTurn
    BY ZenonT(30), <2>5 DEF FlushTurn, startFlush, Post
  <2>6. CASE Close
    BY ZenonT(30), <2>6 DEF Close, startFlush, Post
  <2>7. CASE UNCHANGED bufferVars
    BY Zenon, <2>7 DEF bufferVars
  <2>8. CASE PostFails \/ ProcessExit
    BY ZenonT(30), <2>8 DEF PostFails, ProcessExit, Exit
  <2>9. ASSUME NEW h \in Handlers, Answer(h) PROVE Scheduled'
    BY ZenonT(30), <2>9 DEF Answer, removeBatch, Post
  <2>10. ASSUME NEW h \in Handlers, Receive(h) \/ Serve(h) \/ ActivityRefused(h) \/ CutOff(h)
         PROVE  UNCHANGED bufferVars
    BY ZenonT(30), <2>10 DEF Receive, Serve, Claim, applyEvent, CompleteRunnerEvent, Update, ActivityRefused, CutOff
  <2>11. FlushReturns \/ NextTurn \/ SessionEnds \/ UNCHANGED vars => UNCHANGED bufferVars
    BY ZenonT(30) DEF FlushReturns, NextTurn, SessionEnds, vars
  <2> QED
    BY ZenonT(30), <2>1, <2>2, <2>3, <2>4, <2>5, <2>6, <2>7, <2>8, <2>9, <2>10, <2>11 DEF Next
<1> QED
  BY <1>1, <1>2, PTL DEF Spec

-----------------------------------------------------------------------------
(* The implementation of EventDelivery.                                    *)

(* A step that brings nothing new on its way gives up what it drops.       *)
LEMMA GivesUp ==
  ASSUME TypeOK, UNCHANGED <<created, applied>>, NEW D \in SUBSET Events, doubtful' = doubtful \cup D,
         queue' \subseteq queue,
         \A h \in Handlers :
           call'[h].todo \cup call'[h].patch \subseteq queue \cup call[h].todo \cup call[h].patch
  PROVE  Delivery!Next
<1> DEFINE S == OnTheWay \ OnTheWay'
<1>1. OnTheWay' \subseteq OnTheWay /\ OnTheWay \subseteq Events
  BY ZenonT(30) DEF OnTheWay, TypeOK
<1>2. S \in SUBSET Events /\ OnTheWay' = OnTheWay \ S
  BY ZenonT(30), <1>1
<1> HIDE DEF S
<1>3. Delivery!GiveUp(S, D)
  BY ZenonT(30), <1>2 DEF Delivery!GiveUp
<1> QED
  BY ZenonT(30), <1>2, <1>3 DEF Delivery!Next

LEMMA GivesUpSurely ==
  ASSUME TypeOK, UNCHANGED <<created, applied, doubtful>>, queue' \subseteq queue,
         \A h \in Handlers :
           call'[h].todo \cup call'[h].patch \subseteq queue \cup call[h].todo \cup call[h].patch
  PROVE  Delivery!Next
<1>1. {} \in SUBSET Events /\ doubtful' = doubtful \cup {}
  BY ZenonT(30)
<1> QED
  BY ZenonT(30), <1>1, GivesUp

LEMMA PushDelivers ==
  ASSUME IInv, NEW e \in Events, Push(e), Api
  PROVE  Delivery!Next
<1> DEFINE S == (OnTheWay \cup {e}) \ OnTheWay'
<1>1. /\ e \notin created /\ created' = created \cup {e} /\ queue' \subseteq queue \cup {e}
      /\ UNCHANGED <<call, applied, doubtful>>
  BY ZenonT(30) DEF Push, push, Api, apiVars
<1>2. OnTheWay' \subseteq OnTheWay \cup {e} /\ OnTheWay \subseteq Events
  <2>1. created \subseteq Events
    BY ZenonT(30) DEF IInv, TypeOK
  <2> QED
    BY ZenonT(30), <1>1, <2>1 DEF OnTheWay
<1>3. S \in SUBSET Events /\ OnTheWay' = (OnTheWay \cup {e}) \ S
  BY Zenon, <1>2
<1> HIDE DEF S
<1>4. Delivery!Accept(e, S)
  BY Zenon, <1>1, <1>3 DEF Delivery!Accept
<1> QED
  BY Zenon, <1>3, <1>4 DEF Delivery!Next

(* An event without effect that is neither in doubt nor applied is on its  *)
(* way while a handler holds it.                                           *)
LEMMA Applies ==
  ASSUME IInv, NEW h \in Handlers, NEW S \in SUBSET Events, S \subseteq call[h].todo \cup call[h].patch,
         \A e \in S : e \notin doubtful => applied[e] = 0,
         applied' = Applied(S), UNCHANGED <<created, queue, doubtful>>,
         \A g \in Handlers : g # h => call'[g] = call[g],
         \/ call'[h].todo = call[h].todo /\ call'[h].patch = call[h].patch
         \/ call'[h].todo = {} /\ call'[h].patch = {} /\ call[h].todo \cup call[h].patch = S
  PROVE  Delivery!Next
<1> USE DEF IInv, TypeOK
<1>1. S \subseteq OnTheWay \cup doubtful
  <2>1. call[h] \in Calls
    BY ZenonT(30)
  <2>2. S \subseteq created
    BY ZenonT(30), <2>1 DEF Calls
  <2> QED
    BY ZenonT(30), <2>2 DEF OnTheWay
<1>2. \A e \in Events : applied'[e] = IF e \in S THEN applied[e] + 1 ELSE applied[e]
  BY ZenonT(30) DEF Applied
<1>3. \A e \in Events : applied'[e] = 0 <=> applied[e] = 0 /\ e \notin S
  BY <1>2
<1>4. \A e \in Events : e \notin S =>
        ((\E g \in Handlers : e \in call'[g].todo \cup call'[g].patch)
           <=> \E g \in Handlers : e \in call[g].todo \cup call[g].patch)
  BY ZenonT(30)
<1>5. OnTheWay' = OnTheWay \ S
  BY ZenonT(30), <1>3, <1>4 DEF OnTheWay
<1>6. Delivery!Apply(S)
  BY ZenonT(30), <1>1, <1>5 DEF Delivery!Apply, Applied
<1> QED
  BY ZenonT(30), <1>6 DEF Delivery!Next

LEMMA ServeDelivers ==
  ASSUME IInv, NEW h \in Handlers, Serve(h)
  PROVE  Delivery!Next
<1> USE DEF IInv
<1>0. call[h] \in Calls
  BY Zenon DEF TypeOK
<1>1. ASSUME NEW c, Set(h, c), c.todo \cup c.patch \subseteq call[h].todo \cup call[h].patch,
             UNCHANGED <<created, queue, applied, doubtful>>
      PROVE  Delivery!Next
  <2>1. call'[h] = c /\ \A g \in Handlers : g # h => call'[g] = call[g]
    BY Zenon, <1>1, SetFacts
  <2> QED
    BY ZenonT(30), <1>1, <2>1, GivesUpSurely
<1>2. CASE Claim(h)
  <2>1. PICK e \in Events :
          Skip(h, e) \/ Set(h, [call[h] EXCEPT !.pc = "apply", !.event = e])
    BY ZenonT(30), <1>2 DEF Claim
  <2>2. CASE Skip(h, e)
    BY Zenon, <1>0, <1>1, <1>2, <2>2 DEF Skip, Claim, bufferVars, Calls
  <2>3. CASE Set(h, [call[h] EXCEPT !.pc = "apply", !.event = e])
    BY ZenonT(30), <1>0, <1>1, <1>2, <2>3 DEF Claim, bufferVars, Calls
  <2> QED
    BY Zenon, <2>1, <2>2, <2>3
<1>3. CASE applyEvent(h)
  <2>0. PICK e : e = call[h].event
    BY Zenon
  <2>1. call[h].pc = "apply" /\ e \in call[h].todo /\ e \in Events
    BY Zenon, <1>0, <1>3, <2>0 DEF applyEvent, HandlersOK, HandlerOK, Calls, TypeOK
  <2>2. CASE e \in Patching
    <3>1. Set(h, [call[h] EXCEPT !.pc = "done", !.patch = @ \cup {e}]) /\ UNCHANGED applied
      BY Zenon, <1>3, <2>0, <2>2 DEF applyEvent
    <3> QED
      BY Zenon, <1>0, <1>1, <1>3, <2>1, <3>1 DEF applyEvent, bufferVars, Calls
  <2>3. CASE e \notin Patching
    <3>1. Set(h, [call[h] EXCEPT !.pc = "done"]) /\ applied' = Applied({e})
      BY Zenon, <1>3, <2>0, <2>3 DEF applyEvent
    <3>2. /\ call'[h].todo = call[h].todo /\ call'[h].patch = call[h].patch
          /\ \A g \in Handlers : g # h => call'[g] = call[g]
      BY SMTT(20), <1>0, <3>1, SetFacts DEF Calls
    <3>3. e \notin doubtful => applied[e] = 0
      BY ZenonT(30), <2>0, <2>1 DEF EventsOK, EventOK, At
    <3>4. UNCHANGED <<created, queue, doubtful>>
      BY Zenon, <1>3 DEF applyEvent, bufferVars
    <3> QED
      BY SMTT(20), <2>1, <3>1, <3>2, <3>3, <3>4, Applies
  <2> QED
    BY Zenon, <2>2, <2>3
<1>4. CASE CompleteRunnerEvent(h)
  BY Zenon, <1>0, <1>1, <1>4 DEF CompleteRunnerEvent, bufferVars, Calls
<1>5. CASE Update(h)
  <2>1. PICK d \in Calls : Set(h, d) /\ d.todo = {} /\ d.patch = {}
    BY ZenonT(30), <1>5, RespondFacts DEF Update
  <2>2. /\ UNCHANGED <<created, queue, doubtful>> /\ call[h].todo = {}
        /\ applied' = IF live THEN Applied(call[h].patch) ELSE applied
    BY ZenonT(30), <1>5 DEF Update, bufferVars
  <2>3. CASE live
    <3>1. call'[h] = d /\ \A g \in Handlers : g # h => call'[g] = call[g]
      BY ZenonT(30), <2>1, SetFacts
    <3>2. call[h].patch \in SUBSET Events
      BY ZenonT(30), <1>0 DEF Calls, TypeOK
    <3>3. \A e \in call[h].patch : e \notin doubtful => applied[e] = 0
      BY ZenonT(30), <3>2 DEF EventsOK, EventOK
    <3> QED
      BY <2>1, <2>2, <2>3, <3>1, <3>2, <3>3, Applies
  <2>4. CASE ~live
    BY Zenon, <1>1, <2>1, <2>2, <2>4
  <2> QED
    BY Zenon, <2>3, <2>4
<1> QED
  BY Zenon, <1>2, <1>3, <1>4, <1>5 DEF Serve

(* The outbox with its retries and the API with its claims implement the   *)
(* promise that an event takes effect once unless its handler was cut off  *)
(* or its activity refused, for every instance.                            *)
THEOREM ImplementsDelivery == Spec => DeliveryKept
<1>1. Init => Delivery!Init
  <2> SUFFICES ASSUME Init PROVE Delivery!Init
    BY Zenon
  <2>1. OnTheWay = {}
    BY ZenonT(30) DEF Init, BufferInit, OnTheWay
  <2> QED
    BY Zenon, <2>1 DEF Init, BufferInit, Delivery!Init
<1>2. IInv /\ [Next]_vars => [Delivery!Next]_(Delivery!vars)
  <2> SUFFICES ASSUME IInv, [Next]_vars PROVE [Delivery!Next]_(Delivery!vars)
    BY Zenon
  <2>1. TypeOK
    BY Zenon DEF IInv
  <2>2. ASSUME UNCHANGED <<created, applied, doubtful, call>>, queue' \subseteq queue PROVE Delivery!Next
    BY ZenonT(30), <2>1, <2>2, GivesUpSurely
  <2>3. CASE \E e \in Events : Push(e) /\ Api
    BY Zenon, <2>3, PushDelivers
  <2>4. CASE (TimerFires \/ Finally \/ Wake \/ FlushTurn \/ FlushReturns \/ Close) /\ Api
    BY ZenonT(30), <2>2, <2>4 DEF Api, apiVars, TimerFires, Finally, Wake, FlushTurn, FlushReturns, Close, bufferVars
  <2>5. CASE NextTurn \/ SessionEnds \/ UNCHANGED vars
    BY ZenonT(30), <2>2, <2>5 DEF NextTurn, SessionEnds, vars, apiVars, bufferVars
  <2>6. CASE PostFails \/ ProcessExit
    <3>1. /\ call' = Hangup /\ UNCHANGED <<created, applied, doubtful>> /\ queue' \subseteq queue
      BY ZenonT(30), <2>6 DEF PostFails, ProcessExit, Exit
    <3>2. \A h \in Handlers : call'[h].todo \cup call'[h].patch \subseteq call[h].todo \cup call[h].patch
      BY SMTT(20), <2>1, <3>1 DEF Hangup, TypeOK, Calls, Free
    <3> QED
      BY ZenonT(30), <2>1, <3>1, <3>2, GivesUpSurely
  <2>7. ASSUME NEW h \in Handlers, Receive(h) PROVE Delivery!Next
    <3>1. PICK c \in Calls : Set(h, c) /\ c.patch = {} /\ c.todo \subseteq inflight
      BY ZenonT(30), <2>1, <2>7, ReceiveFacts
    <3>2. call'[h] = c /\ \A g \in Handlers : g # h => call'[g] = call[g]
      BY Zenon, <2>1, <3>1, SetFacts
    <3>3. UNCHANGED <<created, queue, applied, doubtful>> /\ inflight \subseteq queue
      BY Zenon, <2>1, <2>7 DEF Receive, bufferVars, TypeOK
    <3> QED
      BY ZenonT(30), <2>1, <3>1, <3>2, <3>3, GivesUpSurely
  <2>8. ASSUME NEW h \in Handlers, CutOff(h) PROVE Delivery!Next
    <3>1. PICK d \in Calls : Set(h, d) /\ d.todo = {} /\ d.patch = {}
      BY ZenonT(30), <2>1, <2>8, RespondFacts DEF CutOff
    <3>2. call'[h] = d /\ \A g \in Handlers : g # h => call'[g] = call[g]
      BY ZenonT(30), <2>1, <3>1, SetFacts
    <3>3. UNCHANGED <<created, queue, applied>> /\ doubtful' = doubtful \cup Held(h)
      BY ZenonT(30), <2>8 DEF CutOff, bufferVars
    <3>4. Held(h) \in SUBSET Events
      BY DEF IInv, TypeOK, HandlersOK, HandlerOK, Calls, Held
    <3> QED
      BY ZenonT(30), <2>1, <3>1, <3>2, <3>3, <3>4, GivesUp
  <2>8a. ASSUME NEW h \in Handlers, ActivityRefused(h) PROVE Delivery!Next
    <3>0. PICK e : e = call[h].event
      BY Zenon
    <3>1. call[h] \in Calls /\ e \in Events
      BY Zenon, <2>8a, <3>0 DEF IInv, TypeOK, ActivityRefused, HandlersOK, HandlerOK, Calls
    <3>2. /\ call'[h].todo = call[h].todo /\ call'[h].patch = call[h].patch
          /\ \A g \in Handlers : g # h => call'[g] = call[g]
      BY SMTT(20), <2>1, <2>8a, <3>1, SetFacts DEF ActivityRefused, Calls
    <3>3. UNCHANGED <<created, queue, applied>> /\ doubtful' = doubtful \cup {e}
      BY Zenon, <2>8a, <3>0 DEF ActivityRefused, bufferVars
    <3>4. {e} \in SUBSET Events
      BY Zenon, <3>1
    <3> QED
      BY Zenon, <2>1, <3>2, <3>3, <3>4, GivesUp
  <2>9. ASSUME NEW h \in Handlers, Answer(h) PROVE Delivery!Next
    <3>1. Set(h, Free) /\ Free.todo = {} /\ Free.patch = {} /\ UNCHANGED <<created, applied, doubtful>>
      BY ZenonT(30), <2>9 DEF Answer, Free
    <3>2. call'[h] = Free /\ \A g \in Handlers : g # h => call'[g] = call[g]
      BY ZenonT(30), <2>1, <3>1, SetFacts
    <3>3. queue' \subseteq queue
      BY Zenon, <2>9 DEF Answer, removeBatch
    <3> QED
      BY Zenon, <2>1, <3>1, <3>2, <3>3, GivesUpSurely
  <2> QED
    BY Zenon, <2>3, <2>4, <2>5, <2>6, <2>7, <2>8, <2>8a, <2>9, ServeDelivers DEF Next
<1> QED
  BY <1>1, <1>2, InvariantHolds, PTL DEF Spec, DeliveryKept, Delivery!Spec

-----------------------------------------------------------------------------
(* What the server passes over. *)

(* What is queued of an earlier turn, or of the turn that completes, was   *)
(* left there by a flush that timed out, and so was what a handler would   *)
(* pass over.                                                              *)
LateOK ==
  /\ current \in {0, turn}
  /\ \A e \in queue : turnOf[e] \in {0, turn} \cup late
  /\ stage = "complete" => \A e \in queue : turnOf[e] \in {0} \cup late
  /\ \A h \in Handlers : \A e \in call[h].todo : Outdated(h, e) => turnOf[e] \in late
  /\ \A e \in ignored : turnOf[e] \in late

(* A step that creates no event, adds nothing to a queue or to the work of *)
(* a handler, and goes on with the turn.                                   *)
LEMMA LateFrame ==
  ASSUME LateOK, turnOf' = turnOf, queue' \subseteq queue, late \subseteq late',
         turn' = turn, current' \in {0, current},
         stage' = "complete" => stage = "complete" \/ (\A e \in queue' : turnOf[e] \in {0} \cup late'),
         \A h \in Handlers : call'[h].todo # {} => call'[h].todo \subseteq call[h].todo /\ call'[h].cur = call[h].cur,
         ignored' = ignored
  PROVE  LateOK'
  BY Zenon DEF LateOK, Outdated

(* A new event is of the turn that runs, or of none.                       *)
LEMMA PushLate ==
  ASSUME TypeOK, LateOK, NEW e \in Events, Push(e), Api
  PROVE  LateOK'
<1>1. /\ e \notin created /\ stage = "work" /\ UNCHANGED <<stage, turn, late, call, current, ignored>>
  BY Zenon DEF Push, sessionVars, Api, apiVars
<1>2. \A f \in created : f # e
  BY Zenon, <1>1
<1>3. /\ \A f \in created : turnOf'[f] = turnOf[f]
      /\ queue' \subseteq queue \cup {e}
      /\ e \in queue' => turnOf'[e] \in {0, turn}
  <2>1. CASE closed \/ fatal
    BY Zenon, <1>1, <2>1 DEF Push, push, TypeOK
  <2>2. CASE ~(closed \/ fatal)
    BY Zenon, <1>1, <2>2 DEF Push, push, TypeOK
  <2> QED
    BY Zenon, <2>1, <2>2
<1>4. queue \subseteq created /\ ignored \subseteq created /\ \A h \in Handlers : call[h].todo \subseteq created
  BY Zenon DEF TypeOK, Calls
<1> QED
  BY Zenon, <1>1, <1>3, <1>4 DEF LateOK, Outdated

(* A handler that works on gets no more to do, and keeps its copy.         *)
LEMMA WorkShrinks ==
  ASSUME TypeOK, NEW h \in Handlers,
         \/ Claim(h) \/ applyEvent(h) \/ ActivityRefused(h) \/ CompleteRunnerEvent(h)
         \/ Update(h) \/ CutOff(h) \/ Answer(h)
  PROVE  \A g \in Handlers :
           call'[g].todo # {} => call'[g].todo \subseteq call[g].todo /\ call'[g].cur = call[g].cur
<1> DEFINE Less(d) == d.todo # {} => d.todo \subseteq call[h].todo /\ d.cur = call[h].cur
<1>1. ASSUME NEW d, Set(h, d), Less(d)
      PROVE  \A g \in Handlers :
               call'[g].todo # {} => call'[g].todo \subseteq call[g].todo /\ call'[g].cur = call[g].cur
  <2>1. call'[h] = d /\ \A g \in Handlers : g # h => call'[g] = call[g]
    BY ZenonT(30), <1>1 DEF TypeOK, Set
  <2> QED
    BY ZenonT(30), <1>1, <2>1
<1>2. call[h] \in Calls
  BY Zenon DEF TypeOK
<1>3. ASSUME NEW e
      PROVE  /\ Less([call[h] EXCEPT !.todo = @ \ {e}])
             /\ Less([call[h] EXCEPT !.pc = "apply", !.event = e])
             /\ Less([call[h] EXCEPT !.pc = "done", !.patch = @ \cup {call[h].event}])
             /\ Less([call[h] EXCEPT !.pc = "done"])
  BY Zenon, <1>2 DEF Calls
<1>4. Less([call[h] EXCEPT !.pc = "claim", !.todo = @ \ {call[h].event}, !.event = 0]) /\ Less(Free)
  BY Zenon, <1>2 DEF Calls, Free
<1>5. ASSUME NEW d, d.todo = {} PROVE Less(d)
  BY Zenon, <1>5
<1> HIDE DEF Less
<1>6. CASE Claim(h)
  <2>1. PICK e \in Events : Skip(h, e) \/ Set(h, [call[h] EXCEPT !.pc = "apply", !.event = e])
    BY ZenonT(30), <1>6 DEF Claim
  <2> QED
    BY ZenonT(30), <2>1, <1>1, <1>3 DEF Skip
<1>7. CASE applyEvent(h) \/ ActivityRefused(h)
  <2>1. \/ Set(h, [call[h] EXCEPT !.pc = "done", !.patch = @ \cup {call[h].event}])
        \/ Set(h, [call[h] EXCEPT !.pc = "done"])
    BY Zenon, <1>7 DEF applyEvent, ActivityRefused
  <2> QED
    BY Zenon, <2>1, <1>1, <1>3
<1>8. CASE CompleteRunnerEvent(h)
  BY Zenon, <1>8, <1>1, <1>4 DEF CompleteRunnerEvent
<1>9. CASE Update(h) \/ CutOff(h)
  <2>1. PICK status \in {"ok", "retry"} : Respond(h, status, call[h])
    BY ZenonT(30), <1>9 DEF Update, CutOff
  <2>2. PICK d \in Calls : Set(h, d) /\ d.todo = {}
    BY ZenonT(30), <2>1, RespondFacts
  <2> QED
    BY Zenon, <2>2, <1>1, <1>5
<1>10. CASE Answer(h)
  BY Zenon, <1>10, <1>1, <1>4 DEF Answer
<1> QED
  BY ZenonT(30), <1>6, <1>7, <1>8, <1>9, <1>10

(* So it stays for every step.                                             *)
LEMMA LateInv == Spec => []LateOK
<1>1. Init => LateOK
  BY DEF Init, BufferInit, LateOK, Free
<1>2. TypeOK /\ LateOK /\ [Next]_vars => LateOK'
  <2> SUFFICES ASSUME TypeOK, LateOK, [Next]_vars PROVE LateOK'
    BY Zenon
  <2>1. CASE \E e \in Events : Push(e) /\ Api
    BY Zenon, <2>1, PushLate
  <2>2. CASE (TimerFires \/ Finally \/ Wake \/ FlushTurn \/ Close) /\ Api
    <3>1. /\ UNCHANGED <<turnOf, queue, turn, late, call, current, ignored>>
          /\ (stage' # "complete" \/ stage' = stage)
      BY Zenon, <2>2 DEF TimerFires, Finally, Wake, FlushTurn, Close, Api, apiVars, sessionVars
    <3> QED
      BY Zenon, <2>2, <3>1, LateFrame DEF TimerFires, Finally, Wake, FlushTurn, Close, Api, apiVars, sessionVars
  <2>3. CASE FlushReturns /\ Api
    <3>1. \A e \in queue : turnOf[e] \in {0} \cup late'
      BY Zenon, <2>3 DEF FlushReturns, LateOK
    <3> QED
      BY ZenonT(30), <2>3, <3>1, LateFrame DEF FlushReturns, Api, apiVars, bufferVars
  <2>4. CASE ProcessExit \/ PostFails
    <3>1. \A h \in Handlers : call'[h].todo # {} => call'[h].todo \subseteq call[h].todo /\ call'[h].cur = call[h].cur
      BY <2>4 DEF ProcessExit, PostFails, Hangup, Free, TypeOK, Calls
    <3> QED
      BY Zenon, <2>4, <3>1, LateFrame DEF ProcessExit, Exit, PostFails, sessionVars
  <2>5. CASE NextTurn
    <3>1. CASE current' = 0 /\ UNCHANGED sessionVars
      BY Zenon, <2>5, <3>1, LateFrame DEF NextTurn, bufferVars, sessionVars
    <3>2. CASE current = 0 /\ current' = turn + 1 /\ turn' = turn + 1 /\ stage' = "work" /\ UNCHANGED late
      BY Zenon, <2>5, <3>2 DEF NextTurn, bufferVars, LateOK, Outdated
    <3> QED
      BY Zenon, <2>5, <3>1, <3>2 DEF NextTurn
  <2>6. CASE SessionEnds
    BY Zenon, <2>6, LateFrame DEF SessionEnds, bufferVars, sessionVars
  <2>7. ASSUME NEW h \in Handlers, Receive(h) PROVE LateOK'
    <3>1. UNCHANGED <<turnOf, queue, turn, late, current, ignored, stage>>
      BY Zenon, <2>7 DEF Receive, bufferVars, sessionVars
    <3>2. \A g \in Handlers \ {h} : call'[g] = call[g]
      BY Zenon, <2>7 DEF Receive, Respond, Set, TypeOK
    <3>3. call'[h].todo = {} \/ (call'[h].todo = inflight /\ call'[h].cur = current)
      BY Zenon, <2>7, ReceiveFacts DEF Set, TypeOK
    <3>4. \A e \in inflight : turnOf[e] \notin {0, turn} => turnOf[e] \in late
      BY Zenon DEF TypeOK, LateOK
    <3>5. \A e \in call'[h].todo : Outdated(h, e)' => turnOf'[e] \in late'
      BY ZenonT(30), <3>1, <3>3, <3>4 DEF Outdated, LateOK
    <3> QED
      BY <3>1, <3>2, <3>5 DEF LateOK, Outdated
  <2>8. ASSUME NEW h \in Handlers, Claim(h) PROVE LateOK'
    <3>1. UNCHANGED <<turnOf, queue, turn, late, current, stage>>
      BY Zenon, <2>8 DEF Claim, bufferVars, sessionVars
    <3>2. \A g \in Handlers : call'[g].todo # {} => call'[g].todo \subseteq call[g].todo /\ call'[g].cur = call[g].cur
      BY ZenonT(30), <2>8, WorkShrinks
    <3>3. \A e \in ignored' : turnOf[e] \in late
      BY <2>8 DEF Claim, Comes, LateOK
    <3> QED
      BY Zenon, <3>1, <3>2, <3>3 DEF LateOK, Outdated
  <2>9. ASSUME NEW h \in Handlers, applyEvent(h) \/ ActivityRefused(h) \/ CompleteRunnerEvent(h) \/ Update(h) \/ CutOff(h) \/ Answer(h)
        PROVE  LateOK'
    <3>1. \A g \in Handlers : call'[g].todo # {} => call'[g].todo \subseteq call[g].todo /\ call'[g].cur = call[g].cur
      BY Zenon, <2>9, WorkShrinks
    <3>2. UNCHANGED <<turnOf, turn, late, current, stage, ignored>> /\ queue' \subseteq queue
      BY Zenon, <2>9 DEF applyEvent, ActivityRefused, CompleteRunnerEvent, Update, CutOff, Answer, removeBatch, bufferVars, sessionVars
    <3> QED
      BY ZenonT(30), <3>1, <3>2, LateFrame
  <2>10. CASE UNCHANGED vars
    BY Zenon, <2>10, LateFrame DEF vars, bufferVars, sessionVars, apiVars
  <2> QED
    BY Zenon, <2>1, <2>2, <2>3, <2>4, <2>5, <2>6, <2>7, <2>8, <2>9, <2>10 DEF Next, Serve
<1> QED
  BY <1>1, <1>2, RunnerTypeCorrect, PTL DEF Spec

-----------------------------------------------------------------------------
(* The limit of the buffer. *)

(* A set of events that is not empty has a first one.                      *)
LEMMA Earliest ==
  ASSUME NEW S \in SUBSET Nat, S # {}
  PROVE  \E m \in S : \A f \in S : ~(f < m)
<1> DEFINE R == OpToRel(<, Nat)
<1>1. IsWellFoundedOn(R, Nat)
  BY Zenon, NatLessThanWellFounded
<1>2. \A f, m \in Nat : f < m => <<f, m>> \in R
  BY Zenon DEF OpToRel
<1> HIDE DEF R
<1>3. PICK m \in S : \A f \in S : <<f, m>> \notin R
  BY Zenon, <1>1, WFMin
<1> QED
  BY Zenon, <1>2, <1>3

(* And one that evict takes before all others.                             *)
LEMMA GoesFirst ==
  ASSUME NEW S \in SUBSET Nat, S # {}
  PROVE  \E m \in S : \A f \in S : ~GoesBefore(f, m)
<1> DEFINE C(k) == {e \in S : Class(e) = k}
<1>1. \A e : Class(e) \in 0 .. 2
  BY DEF Class
<1>2. PICK k \in 0 .. 2 : C(k) # {} /\ \A i \in 0 .. 2 : i < k => C(i) = {}
  <2>1. PICK e \in S : TRUE
    BY Zenon
  <2>2. C(0) # {} \/ C(1) # {} \/ C(2) # {}
    BY <1>1, <2>1
  <2> HIDE DEF C
  <2> QED
    BY <2>2
<1>3. PICK m \in C(k) : \A f \in C(k) : ~(f < m)
  BY Zenon, <1>2, Earliest
<1>4. ASSUME NEW f \in S, GoesBefore(f, m) PROVE FALSE
  <2>1. Class(f) < k => f \notin S
    BY Zenon, <1>1, <1>2
  <2> QED
    BY Zenon, <1>1, <1>3, <1>4, <2>1 DEF GoesBefore
<1> QED
  BY Zenon, <1>3, <1>4

(* The buffer holds no more than its limit, and finitely much.             *)
BoundOK == IsFiniteSet(queue) /\ Cardinality(queue) <= MaxBytes

(* push evicts at least one event when the limit is exceeded: the new one  *)
(* is not in flight, so there is always one to evict.                      *)
LEMMA PushBounded ==
  ASSUME TypeOK, BoundOK, NEW e \in Events, Push(e)
  PROVE  BoundOK'
<1> DEFINE q == queue \cup {e}
           idle == q \ inflight
<1>1. IsFiniteSet(q) /\ e \notin queue /\ Cardinality(q) = Cardinality(queue) + 1
  BY Zenon, FS_AddElement DEF Push, TypeOK, BoundOK
<1>2. Cardinality(q) \in Nat /\ MaxBytes \in Nat
  BY Zenon, <1>1, FS_CardinalityType, BufferConstants
<1>3. queue' = queue \/ queue' = q \ evict(q)
  BY Zenon DEF Push, push
<1>4. CASE Cardinality(q) <= MaxBytes
  <2>1. queue' \subseteq q
    BY Zenon, <1>3
  <2> QED
    BY <1>1, <1>2, <1>4, <2>1, FS_Subset, FS_CardinalityType DEF BoundOK
<1>5. CASE queue' = queue
  BY Zenon, <1>5 DEF BoundOK
<1>6. CASE MaxBytes < Cardinality(q) /\ queue' = q \ evict(q)
  <2>1. e \in idle /\ idle \subseteq Nat
    BY Zenon, <1>1, BufferConstants DEF TypeOK
  <2>2. PICK m \in idle : \A f \in idle : ~GoesBefore(f, m)
    BY Zenon, <2>1, GoesFirst
  <2>3. {f \in idle : GoesBefore(f, m)} = {}
    BY Zenon, <2>2
  <2>4. m \in evict(q)
    <3>1. Cardinality({f \in idle : GoesBefore(f, m)}) = 0
      BY Zenon, <2>3, FS_EmptySet
    <3> QED
      BY <1>2, <1>6, <2>2, <3>1 DEF evict
  <2>5. IsFiniteSet(q \ {m}) /\ Cardinality(q \ {m}) = Cardinality(q) - 1
    BY Zenon, <1>1, <2>2, FS_RemoveElement
  <2>6. queue' \subseteq q \ {m}
    BY Zenon, <1>6, <2>4
  <2>7. IsFiniteSet(queue') /\ Cardinality(queue') <= Cardinality(q \ {m})
    BY Zenon, <2>5, <2>6, FS_Subset
  <2>8. Cardinality(queue') \in Nat /\ Cardinality(queue) \in Nat
    BY Zenon, <2>7, FS_CardinalityType DEF BoundOK
  <2> QED
    BY SMTT(20), <1>1, <1>2, <2>5, <2>7, <2>8 DEF BoundOK
<1> QED
  BY SMTT(20), <1>2, <1>3, <1>4, <1>5, <1>6

(* Nothing else adds to the queue.                                         *)
LEMMA OthersTakeAway ==
  ASSUME [Next]_vars, ~\E e \in Events : Push(e)
  PROVE  queue' \subseteq queue
<1>1. CASE \E e \in Events : Push(e) /\ Api
  BY Zenon, <1>1
<1>2. CASE (TimerFires \/ Finally \/ Wake \/ FlushTurn \/ Close \/ FlushReturns) /\ Api
  BY Zenon, <1>2 DEF TimerFires, Finally, Wake, FlushTurn, Close, FlushReturns, bufferVars
<1>3. CASE ProcessExit \/ PostFails \/ NextTurn \/ SessionEnds
  BY Zenon, <1>3 DEF ProcessExit, Exit, PostFails, NextTurn, SessionEnds, bufferVars
<1>4. ASSUME NEW h \in Handlers, Receive(h) \/ Serve(h) \/ ActivityRefused(h) \/ CutOff(h)
      PROVE  queue' \subseteq queue
  BY ZenonT(30), <1>4 DEF Receive, Serve, Claim, applyEvent, CompleteRunnerEvent, Update, ActivityRefused, CutOff, bufferVars
<1>5. ASSUME NEW h \in Handlers, Answer(h) PROVE queue' \subseteq queue
  BY Zenon, <1>5 DEF Answer, removeBatch
<1>6. CASE UNCHANGED vars
  BY Zenon, <1>6 DEF vars, bufferVars
<1> QED
  BY Zenon, <1>1, <1>2, <1>3, <1>4, <1>5, <1>6 DEF Next

(* The buffer of events never holds more than its limit, whatever is in    *)
(* flight: push drops events until what is left fits.                      *)
THEOREM QueueBounded == Spec => []Bounded
<1>1. Init => BoundOK
  BY FS_EmptySet, BufferConstants DEF Init, BufferInit, BoundOK
<1>2. TypeOK /\ BoundOK /\ [Next]_vars => BoundOK'
  <2> SUFFICES ASSUME TypeOK, BoundOK, [Next]_vars PROVE BoundOK'
    BY Zenon
  <2>1. CASE \E e \in Events : Push(e)
    BY Zenon, <2>1, PushBounded
  <2>2. CASE ~\E e \in Events : Push(e)
    <3>1. queue' \subseteq queue
      BY Zenon, <2>2, OthersTakeAway
    <3>2. IsFiniteSet(queue') /\ Cardinality(queue') <= Cardinality(queue)
      BY Zenon, <3>1, FS_Subset DEF BoundOK
    <3> QED
      BY <3>2, FS_CardinalityType, BufferConstants DEF BoundOK
  <2> QED
    BY Zenon, <2>1, <2>2
<1>3. BoundOK => Bounded
  BY Zenon DEF BoundOK, Bounded
<1> QED
  BY <1>1, <1>2, <1>3, RunnerTypeCorrect, PTL DEF Spec

(* An event the server passes over because it is of another turn than the  *)
(* current one belongs to a turn whose last flush had timed out.           *)
THEOREM IgnoredOnlyAfterTimeout == Spec => []IgnoredOnlyLate
<1>1. LateOK => IgnoredOnlyLate
  BY Zenon DEF LateOK, IgnoredOnlyLate
<1> QED
  BY <1>1, LateInv, PTL
=============================================================================
