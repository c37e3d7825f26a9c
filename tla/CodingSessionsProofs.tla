------------------------ MODULE CodingSessionsProofs ------------------------
(***************************************************************************)
(* Theorems about CodingSessions, for every number of sandboxes, turns,    *)
(* reconcilers and handlers, and for every set Ops of calls and faults     *)
(* (crashes, lost answers, overlapping retries and failing actions         *)
(* included).                                                              *)
(*                                                                         *)
(* IInv is the inductive invariant.  Next to the types it says of every    *)
(* session that is stored or that a call in flight will write back: it is  *)
(* placed only in a sandbox whose row exists, and its current turn carries *)
(* the delivered stamp.  Copies need it as much as the document does, and  *)
(* it survives their going stale because rows and stamps only accumulate.  *)
(***************************************************************************)
EXTENDS SessionMachineProofs, SequenceTheorems

-----------------------------------------------------------------------------
(* What is good stays good while rows, turns and stamps accumulate. *)

LEMMA SessionMonotone ==
  ASSUME NEW s, NEW E, NEW D, NEW E2, NEW D2,
         GoodSession(s, E, D), E \subseteq E2, D \subseteq D2
  PROVE  GoodSession(s, E2, D2)
BY Zenon DEF GoodSession

LEMMA CallMonotone ==
  ASSUME NEW c, NEW E, NEW D, NEW K, NEW E2, NEW D2, NEW K2,
         GoodCall(c, E, D, K),
         E \subseteq E2, D \subseteq D2, K \subseteq K2
  PROVE  GoodCall(c, E2, D2, K2)
BY Zenon, SessionMonotone DEF GoodCall

LEMMA SameWorld ==
  ASSUME UNCHANGED <<rows, inbox>>
  PROVE  /\ Exists' = Exists /\ Delivered' = Delivered /\ Known' = Known
         /\ Grows
BY Zenon DEF Exists, Delivered, Known, Grows, InInbox

LEMMA SessionStays ==
  ASSUME SessionOK, Grows, session' = session
  PROVE  SessionOK'
BY Zenon, SessionMonotone DEF SessionOK, Grows

LEMMA CallsStay ==
  ASSUME CallsOK, Grows, op' = op
  PROVE  CallsOK'
BY Zenon, CallMonotone DEF CallsOK, Grows

(* One call moves on. *)
LEMMA CallMoves ==
  ASSUME CallsOK, Grows, NEW p \in Procs, NEW c,
         op' = [op EXCEPT ![p] = c],
         GoodCall(c, Exists', Delivered', Known')
  PROVE  CallsOK'
<1>1. c \in CallInFlight
  BY Zenon DEF GoodCall
<1>2. op' \in [Procs -> CallInFlight]
  BY Zenon, <1>1 DEF CallsOK
<1>3. \A q \in Procs : GoodCall(op'[q], Exists', Delivered', Known')
  BY Zenon, CallMonotone DEF CallsOK, Grows
<1> QED
  BY Zenon, <1>2, <1>3 DEF CallsOK

LEMMA NewSessionGood ==
  ASSUME NEW E, NEW D
  PROVE  GoodSession(NewSession, E, D)
BY Zenon, NewSessionType DEF GoodSession, Placed

LEMMA NoOpGood ==
  ASSUME NEW E, NEW D, NEW K
  PROVE  GoodCall(NoOp, E, D, K)
BY Zenon, NoOpType, NoRowsType, NewSessionGood DEF GoodCall, RunnerCalls

-----------------------------------------------------------------------------
(* Rows and inbox only accumulate. *)

LEMMA InboxItem ==
  ASSUME InboxOK, NEW i \in DOMAIN inbox
  PROVE  /\ inbox[i] \in Item /\ i \in 1 .. Len(inbox) /\ i \in Nat
         /\ inbox[i].kind = "turn" => inbox[i].id \in Turns
BY DEF InboxOK, Item

LEMMA AppendGrows ==
  ASSUME InboxOK, NEW item \in Item, inbox' = Append(inbox, item)
  PROVE  InboxOK' /\ Known \subseteq Known' /\ Delivered \subseteq Delivered'
<1>1. InboxOK'
  BY DEF InboxOK
<1>2. \A i \in DOMAIN inbox : i \in DOMAIN inbox' /\ inbox'[i] = inbox[i]
  BY DEF InboxOK
<1>3. Known \subseteq Known'
  BY Zenon, <1>2 DEF Known, InInbox
<1>4. Delivered \subseteq Delivered'
  BY Zenon, <1>2 DEF Delivered
<1> QED
  BY <1>1, <1>3, <1>4

LEMMA EnqueueGrows ==
  ASSUME InboxOK, NEW item \in Item, inbox' = Enqueue(item)
  PROVE  InboxOK' /\ Known \subseteq Known' /\ Delivered \subseteq Delivered'
<1>1. CASE inbox' = Append(inbox, item)
  BY Zenon, <1>1, AppendGrows
<1>2. CASE inbox' = inbox
  BY Zenon, <1>2 DEF InboxOK, Known, Delivered, InInbox
<1> QED
  BY <1>1, <1>2 DEF Enqueue

(* An item keeps its kind and its id, and a stamp stays. *)
LEMMA TouchGrows ==
  ASSUME InboxOK, NEW i \in DOMAIN inbox, NEW e \in Item,
         inbox' = [inbox EXCEPT ![i] = e],
         e.kind = inbox[i].kind, e.id = inbox[i].id,
         inbox[i].delivered => e.delivered
  PROVE  InboxOK' /\ Known \subseteq Known' /\ Delivered \subseteq Delivered'
<1>1. InboxOK'
  BY ExceptSeq DEF InboxOK
<1>2. /\ DOMAIN inbox' = DOMAIN inbox
      /\ \A j \in DOMAIN inbox : inbox'[j] = IF j = i THEN e ELSE inbox[j]
  BY Zenon DEF InboxOK
<1>3. Known \subseteq Known'
  BY <1>2 DEF Known, InInbox
<1>4. Delivered \subseteq Delivered'
  BY <1>2 DEF Delivered
<1> QED
  BY Zenon, <1>1, <1>3, <1>4

LEMMA ItemType ==
  /\ \A t \in Turns, b \in BOOLEAN : TurnItem(t, b) \in Item
  /\ \A b \in Sandboxes \cup {None} : StopItem(b) \in Item
BY Zenon DEF TurnItem, StopItem, Item

LEMMA AfterStopsGrows ==
  ASSUME RowsOK, NEW acts, rows' = AfterStops(acts)
  PROVE  RowsOK' /\ Exists \subseteq Exists'
<1>1. \A b \in Sandboxes :
        /\ rows'[b] \in Row
        /\ exists(rows[b]) => exists(rows'[b])
        /\ rows'[b].token = "valid" => rows[b].token = "valid"
  BY Zenon DEF AfterStops, RowsOK, Row, exists
<1>2. rows' \in [Sandboxes -> Row]
  BY Zenon, <1>1 DEF AfterStops
<1>3. RowsOK'
  BY Zenon, <1>1, <1>2 DEF RowsOK, GoodRow
<1>4. Exists \subseteq Exists'
  BY Zenon, <1>1 DEF Exists
<1> QED
  BY Zenon, <1>3, <1>4

LEMMA AfterEnqueueStopGrows ==
  ASSUME InboxOK, NEW acts, inbox' = AfterEnqueueStop(acts)
  PROVE  InboxOK' /\ Known \subseteq Known' /\ Delivered \subseteq Delivered'
<1>1. CASE \E b \in Sandboxes \cup {None} : EnqueueStop(b) \in acts
  <2> DEFINE b == CHOOSE b \in Sandboxes \cup {None} : EnqueueStop(b) \in acts
  <2>1. b \in Sandboxes \cup {None}
    BY Zenon, <1>1
  <2>2. inbox' = Enqueue(StopItem(b))
    BY Zenon, <1>1 DEF AfterEnqueueStop
  <2> HIDE DEF b
  <2>3. StopItem(b) \in Item
    BY Zenon, <2>1, ItemType
  <2> QED
    BY Zenon, <2>2, <2>3, EnqueueGrows
<1>2. CASE ~ \E b \in Sandboxes \cup {None} : EnqueueStop(b) \in acts
  BY Zenon, <1>2 DEF AfterEnqueueStop, InboxOK, Known, Delivered, InInbox
<1> QED
  BY Zenon, <1>1, <1>2

-----------------------------------------------------------------------------
(* The frames of the actions. *)

(* A step of a runner or its sandbox alone. *)
LEMMA RunnerFrame ==
  ASSUME IInv, NEW b \in Sandboxes, NEW r, GoodRunner(r),
         runner' = [runner EXCEPT ![b] = r],
         UNCHANGED <<session, rows, inbox, recorded, op, fresh>>
  PROVE  IInv'
<1>1. RunnersOK'
  BY Zenon DEF IInv, RunnersOK, GoodRunner
<1>2. Grows
  BY Zenon, SameWorld
<1>3. SessionOK' /\ CallsOK'
  BY Zenon, <1>2, SessionStays, CallsStay DEF IInv
<1> QED
  BY Zenon, <1>1, <1>3 DEF IInv, RowsOK, InboxOK, FreshOK

(* A step of a call that leaves the session alone. *)
LEMMA CallFrame ==
  ASSUME IInv, NEW p \in Procs, NEW c, op' = [op EXCEPT ![p] = c],
         GoodCall(c, Exists, Delivered, Known),
         FreshOK', RunnersOK', recorded' \in BOOLEAN,
         UNCHANGED <<session, rows, inbox>>
  PROVE  IInv'
<1>1. Grows /\ Exists' = Exists /\ Delivered' = Delivered /\ Known' = Known
  BY Zenon, SameWorld
<1>2. CallsOK'
  BY Zenon, <1>1, CallMoves DEF IInv
<1>3. SessionOK'
  BY Zenon, <1>1, SessionStays DEF IInv
<1> QED
  BY Zenon, <1>2, <1>3 DEF IInv, RowsOK, InboxOK

(* A write of the session; the call that made it returns or was atomic. *)
LEMMA WriteFrame ==
  ASSUME IInv, NEW s, Write(s), GoodSession(s, Exists, Delivered),
         op' = op \/ (\E p \in Procs : Return(p)),
         RunnersOK', recorded' \in BOOLEAN, UNCHANGED <<rows, inbox>>
  PROVE  IInv'
<1>1. Grows /\ Exists' = Exists /\ Delivered' = Delivered /\ Known' = Known
  BY Zenon, SameWorld
<1>2. CallsOK'
  <2>1. CASE op' = op
    BY Zenon, <2>1, <1>1, CallsStay DEF IInv
  <2>2. CASE \E p \in Procs : Return(p)
    BY Zenon, <2>2, <1>1, CallMoves, NoOpGood DEF IInv, Return
  <2> QED
    BY Zenon, <2>1, <2>2
<1>3. SessionOK' /\ FreshOK'
  BY Zenon, <1>1 DEF SessionOK, FreshOK, Write
<1> QED
  BY Zenon, <1>2, <1>3 DEF IInv, RowsOK, InboxOK

(* A call that ends without a write. *)
LEMMA ForgetFrame ==
  ASSUME IInv, NEW p \in Procs, Forget(p), RunnersOK', recorded' \in BOOLEAN,
         UNCHANGED <<session, rows, inbox>>
  PROVE  IInv'
<1>1. FreshOK'
  BY Zenon DEF IInv, FreshOK, Forget
<1> QED
  BY Zenon, <1>1, CallFrame, NoOpGood DEF Forget, Return

(* A call that starts with, or goes on after, reading the session. *)
LEMMA ReadFrame ==
  ASSUME IInv, NEW p \in Procs, NEW c, Read(p, c),
         GoodCall([c EXCEPT !.s = session], Exists, Delivered, Known),
         RunnersOK', recorded' \in BOOLEAN, UNCHANGED <<rows, inbox>>
  PROVE  IInv'
<1>1. FreshOK'
  BY Zenon DEF IInv, FreshOK, Read
<1> QED
  BY ZenonT(30), <1>1, CallFrame DEF Read

LEMMA RunnersStay ==
  ASSUME RunnersOK, runner' = runner
  PROVE  RunnersOK'
BY Zenon DEF RunnersOK

-----------------------------------------------------------------------------
(* The steps of the runners and of the sandboxes. *)

LEMMA GoneGood == GoodRunner(Gone) /\ GoodRunner(NoRunner)
<1>1. NoRunner \in Runner
  BY NoRowsType DEF NoRunner, Runner
<1>2. Gone \in Runner /\ Gone.req = NoReq
  BY Zenon, <1>1 DEF Gone, Runner, NoRunner
<1> QED
  BY Zenon, <1>1, <1>2 DEF GoodRunner, NoRunner

(* A runner that was asked to stop. *)
LEMMA RequestStopGood ==
  ASSUME RunnersOK, NEW b \in Sandboxes
  PROVE  GoodRunner(requestStop(b))
<1>1. GoodRunner(runner[b]) /\ runner[b] \in Runner
  BY Zenon, RunnerOf
<1>2. <<>> \in Seq(Turns)
  OBVIOUS
<1> QED
  BY Zenon, <1>1, <1>2 DEF requestStop, GoodRunner, Runner

LEMMA EndTurnGood ==
  ASSUME RunnersOK, NEW b \in Sandboxes, NEW req \in TurnEnd(runner[b]),
         runner[b].cur # None, runner[b].st = "loop"
  PROVE  GoodRunner([runner[b] EXCEPT !.req = req])
<1>1. GoodRunner(runner[b]) /\ runner[b] \in Runner
  BY Zenon, RunnerOf
<1>2. req \in Request
  BY Zenon DEF TurnEnd, Request
<1> QED
  BY Zenon, <1>1, <1>2 DEF GoodRunner, Runner

LEMMA RunnersMove ==
  ASSUME RunnersOK, NEW b \in Sandboxes, NEW r, GoodRunner(r),
         runner' = [runner EXCEPT ![b] = r]
  PROVE  RunnersOK'
BY Zenon DEF RunnersOK, GoodRunner

(* The runner after an answer, or a refusal, to its completion. *)
LEMMA AnsweredGood ==
  ASSUME RunnersOK, NEW b \in Sandboxes, NEW t, Answered(b, t) \/ Refused(b, t)
  PROVE  RunnersOK'
<1> DEFINE r == runner[b]
           n == [r EXCEPT !.cur = None, !.req = NoReq, !.asked = "no"]
<1>1. r \in Runner /\ GoodRunner(r)
  BY Zenon, RunnerOf
<1>2. GoodRunner(n)
  BY ZenonT(30), <1>1, NoRowsType DEF GoodRunner, Runner
<1>3. \/ runner' = runner \/ runner' = [runner EXCEPT ![b] = Gone]
      \/ runner' = [runner EXCEPT ![b] = n]
  BY Zenon DEF Answered, Refused, Completed
<1> HIDE DEF n
<1> QED
  BY <1>2, <1>3, RunnersStay, RunnersMove, GoneGood

LEMMA RecordedType ==
  ASSUME recorded \in BOOLEAN, NEW req, saveCommits(req)
  PROVE  recorded' \in BOOLEAN
BY Zenon DEF saveCommits

LEMMA RunnerStep ==
  ASSUME IInv, NEW b \in Sandboxes, RunnerNext(b)
  PROVE  IInv'
<1> DEFINE r == runner[b]
<1>1. RunnersOK /\ GoodRunner(r) /\ r \in Runner
  BY Zenon, RunnerOf DEF IInv
<1>exit. ASSUME Exit(b), UNCHANGED <<session, rows, inbox, recorded, op, fresh>>
         PROVE  IInv'
  BY ZenonT(30), <1>exit, RunnerFrame, GoneGood DEF Exit
<1>2. CASE BootstrapGone(b)
  BY Zenon, <1>2, <1>exit DEF BootstrapGone
<1>3. CASE Prepared(b)
  <2>1. CASE ~r.stop
    <3>1. GoodRunner([r EXCEPT !.st = "loop"])
      BY Zenon, <1>1 DEF GoodRunner, Runner
    <3>2. runner' = [runner EXCEPT ![b] = [r EXCEPT !.st = "loop"]]
      BY Zenon, <1>3, <2>1 DEF Prepared
    <3> QED
      BY Zenon, <1>3, <3>1, <3>2, RunnerFrame DEF Prepared
  <2> QED
    BY Zenon, <1>3, <2>1, <1>exit DEF Prepared
<1>4. CASE PrepareFailed(b)
  <2>1. CASE r.cur # None
    <3> DEFINE n == [r EXCEPT !.st = "last", !.req = ErrorReq]
    <3>1. ErrorReq \in Request
      BY Zenon DEF ErrorReq, Request
    <3>2. GoodRunner(n)
      BY Zenon, <1>1, <2>1, <3>1 DEF GoodRunner, Runner
    <3>3. runner' = [runner EXCEPT ![b] = n]
      BY ZenonT(30), <1>4, <2>1 DEF PrepareFailed
    <3> QED
      BY Zenon, <1>4, <3>2, <3>3, RunnerFrame DEF PrepareFailed
  <2> QED
    BY Zenon, <1>4, <2>1, <1>exit DEF PrepareFailed
<1>5. CASE TakeNext(b)
  <2>1. CASE ~r.stop
    <3> DEFINE n == [r EXCEPT !.cur = Head(r.queue), !.queue = Tail(r.queue)]
    <3>1. r.queue \in Seq(Turns) /\ r.queue # <<>>
      BY Zenon, <1>1, <1>5, <2>1 DEF TakeNext, Runner
    <3>2. Head(r.queue) \in Turns /\ Tail(r.queue) \in Seq(Turns)
      BY <3>1
    <3>3. Head(r.queue) # None
      BY Zenon, <3>2, NoneAssumption
    <3>4. GoodRunner(n)
      BY Zenon, <1>1, <3>2, <3>3 DEF GoodRunner, Runner
    <3>5. runner' = [runner EXCEPT ![b] = n]
      BY Zenon, <1>5, <2>1 DEF TakeNext
    <3> QED
      BY ZenonT(30), <1>5, <3>4, <3>5, RunnerFrame DEF TakeNext
  <2> QED
    BY Zenon, <1>5, <2>1, <1>exit DEF TakeNext
<1>6. CASE Ask(b)
  <2>1. GoodRunner([r EXCEPT !.asked = "asked"])
    BY Zenon, <1>1 DEF GoodRunner, Runner
  <2>2. runner' = [runner EXCEPT ![b] = [r EXCEPT !.asked = "asked"]]
    BY Zenon, <1>6 DEF Ask
  <2> QED
    BY Zenon, <1>6, <2>1, <2>2, RunnerFrame DEF Ask
<1>7. CASE EndTurn(b)
  <2>1. PICK req \in TurnEnd(r) : runner' = [runner EXCEPT ![b].req = req]
    BY ZenonT(30), <1>7 DEF EndTurn
  <2>2. GoodRunner([r EXCEPT !.req = req])
    BY Zenon, <1>1, <1>7, EndTurnGood DEF EndTurn
  <2> QED
    BY Zenon, <1>7, <2>1, <2>2, RunnerFrame DEF EndTurn
<1>8. CASE CompleteRefused(b)
  <2>1. Exit(b)
    BY Zenon, <1>8 DEF CompleteRefused, Refused, Completes, Exit
  <2> QED
    BY Zenon, <1>8, <2>1, <1>exit DEF CompleteRefused
<1>9. CASE HeartbeatStop(b)
  <2>1. GoodRunner(requestStop(b))
    BY Zenon, <1>1, RequestStopGood
  <2> QED
    BY ZenonT(30), <1>9, <2>1, RunnerFrame DEF HeartbeatStop
<1>10. CASE SandboxKilled(b)
  BY Zenon, <1>10, <1>exit DEF SandboxKilled
<1>11. CASE CompleteLate(b)
  <2>1. RunnersOK'
    BY Zenon, <1>1, <1>11, AnsweredGood DEF CompleteLate
  <2>2. recorded' \in BOOLEAN
    BY Zenon, <1>11, RecordedType DEF CompleteLate, IInv
  <2>3. Grows
    BY Zenon, <1>11, SameWorld DEF CompleteLate
  <2>4. SessionOK' /\ CallsOK'
    BY Zenon, <1>11, <2>3, SessionStays, CallsStay DEF CompleteLate, IInv
  <2> QED
    BY Zenon, <1>11, <2>1, <2>2, <2>4 DEF CompleteLate, IInv, RowsOK, InboxOK, FreshOK
<1>12. CASE SandboxUp(b)
  <2>1. RowsOK' /\ Exists \subseteq Exists'
    BY <1>12 DEF SandboxUp, IInv, RowsOK, GoodRow, Row, Exists, exists
  <2>2. RunnersOK'
    <3>1. r.st = "off"
      BY Zenon, <1>12 DEF SandboxUp
    <3>2. GoodRunner([r EXCEPT !.st = "boot"])
      BY Zenon, <1>1, <3>1 DEF GoodRunner, Runner
    <3>3. runner' = [runner EXCEPT ![b] = [r EXCEPT !.st = "boot"]]
      BY Zenon, <1>12 DEF SandboxUp
    <3> QED
      BY Zenon, <1>1, <3>2, <3>3, RunnersMove
  <2>3. Grows
    BY Zenon, <1>12, <2>1 DEF SandboxUp, Grows, Delivered, Known, InInbox
  <2>4. SessionOK' /\ CallsOK'
    BY Zenon, <1>12, <2>3, SessionStays, CallsStay DEF SandboxUp, IInv
  <2> QED
    BY Zenon, <1>12, <2>1, <2>2, <2>4 DEF SandboxUp, IInv, InboxOK, FreshOK
<1>13. CASE ObserveEnd(b)
  <2>1. RowsOK' /\ Exists \subseteq Exists'
    BY ZenonT(30), <1>13 DEF ObserveEnd, IInv, RowsOK, GoodRow, Row, Exists, exists
  <2>2. RunnersOK'
    BY Zenon, <1>1, <1>13, RunnersStay DEF ObserveEnd
  <2>3. Grows
    BY Zenon, <1>13, <2>1 DEF ObserveEnd, Grows, Delivered, Known, InInbox
  <2>4. SessionOK' /\ CallsOK'
    BY Zenon, <1>13, <2>3, SessionStays, CallsStay DEF ObserveEnd, IInv
  <2> QED
    BY Zenon, <1>13, <2>1, <2>2, <2>4 DEF ObserveEnd, IInv, InboxOK, FreshOK
<1>14. CASE SandboxDown(b)
  <2>0. PICK token \in {"revoked", rows[b].token} :
          rows' = [rows EXCEPT ![b].token = token]
    BY Zenon, <1>14 DEF SandboxDown
  <2>1. RowsOK' /\ Exists \subseteq Exists'
    BY <1>14, <2>0 DEF SandboxDown, IInv, RowsOK, GoodRow, Row, Exists, exists
  <2>2. RunnersOK'
    BY Zenon, <1>1, <1>14, GoneGood, RunnersMove DEF SandboxDown, Exit
  <2>3. Grows
    BY Zenon, <1>14, <2>1 DEF SandboxDown, Grows, Delivered, Known, InInbox
  <2>4. SessionOK' /\ CallsOK'
    BY Zenon, <1>14, <2>3, SessionStays, CallsStay DEF SandboxDown, IInv
  <2> QED
    BY Zenon, <1>14, <2>1, <2>2, <2>4 DEF SandboxDown, IInv, InboxOK, FreshOK
<1> QED
  BY ZenonT(30), <1>2, <1>3, <1>4, <1>5, <1>6, <1>7, <1>8, <1>9, <1>10, <1>11, <1>12, <1>13,
     <1>14 DEF RunnerNext

-----------------------------------------------------------------------------
(* Steps that calls of several kinds take. *)

LEMMA CallOf ==
  ASSUME CallsOK, NEW p \in Procs
  PROVE  /\ GoodCall(op[p], Exists, Delivered, Known) /\ op[p] \in CallInFlight
         /\ GoodSession(op[p].s, Exists, Delivered) /\ op[p].s \in Session
BY Zenon DEF CallsOK, GoodCall, GoodSession

Stages == {"read", "provision", "publish", "effects", "commit"}

(* A call that goes on with a decided session, in a stage that neither     *)
(* picks nor delivers a turn.                                              *)
LEMMA DecidedGood ==
  ASSUME NEW c, NEW E, NEW D, NEW K, GoodCall(c, E, D, K),
         NEW s, GoodSession(s, E, D), NEW acts \in SUBSET Action,
         NEW rs \in [Sandboxes -> Row],
         \A b \in Sandboxes : exists(rs[b]) => b \in E,
         NEW pc \in Stages,
         c.kind # "inbox"
  PROVE  GoodCall([c EXCEPT !.s = s, !.acts = acts, !.rows = rs, !.pc = pc],
                  E, D, K)
<1> DEFINE n == [c EXCEPT !.s = s, !.acts = acts, !.rows = rs, !.pc = pc]
<1>1. c \in CallInFlight /\ s \in Session
  BY Zenon DEF GoodCall, GoodSession
<1>2. n \in CallInFlight
  BY Zenon, <1>1 DEF CallInFlight, Stages
<1>3. /\ n.kind = c.kind /\ n.turn = c.turn /\ n.box = c.box
      /\ n.s = s /\ n.rows = rs /\ n.pc = pc
  BY Zenon, <1>1 DEF CallInFlight
<1> HIDE DEF n
<1>4. GoodCall(n, E, D, K)
  BY Zenon, <1>2, <1>3 DEF GoodCall, Stages
<1> QED
  BY Zenon, <1>4 DEF n

(* A call that has decided and will run its sandbox actions. *)
LEMMA EffectsGood ==
  ASSUME NEW c, NEW E, NEW D, NEW K, GoodCall(c, E, D, K),
         NEW s, GoodSession(s, E, D), NEW acts \in SUBSET Action,
         c.kind # "inbox"
  PROVE  GoodCall([c EXCEPT !.s = s, !.acts = acts, !.pc = "effects"], E, D, K)
<1>1. c \in CallInFlight
  BY Zenon DEF GoodCall
<1>2. c.rows \in [Sandboxes -> Row] /\ \A b \in Sandboxes : exists(c.rows[b]) => b \in E
  BY Zenon, <1>1 DEF GoodCall, CallInFlight
<1>3. [c EXCEPT !.s = s, !.acts = acts, !.pc = "effects"]
        = [c EXCEPT !.s = s, !.acts = acts, !.rows = c.rows, !.pc = "effects"]
  BY Zenon, <1>1 DEF CallInFlight
<1>4. GoodCall([c EXCEPT !.s = s, !.acts = acts, !.rows = c.rows, !.pc = "effects"],
               E, D, K)
  BY Zenon, <1>2, DecidedGood DEF Stages
<1> QED
  BY Zenon, <1>3, <1>4

LEMMA RunSandboxActionsStep ==
  ASSUME IInv, NEW p \in Procs, RunSandboxActions(p)
  PROVE  IInv'
<1>1. PICK ok : rows' = AfterStops(ok) /\ inbox' = AfterEnqueueStop(ok)
  BY Zenon DEF RunSandboxActions
<1>2. RowsOK' /\ Exists \subseteq Exists'
  BY Zenon, <1>1, AfterStopsGrows DEF IInv
<1>3. InboxOK' /\ Known \subseteq Known' /\ Delivered \subseteq Delivered'
  BY Zenon, <1>1, AfterEnqueueStopGrows DEF IInv
<1>4. Grows
  BY Zenon, <1>2, <1>3 DEF Grows
<1> DEFINE c == op[p]
           n == [c EXCEPT !.pc = "commit", !.acts = {}]
<1>5. GoodCall(c, Exists', Delivered', Known') /\ c \in CallInFlight
  BY Zenon, <1>4, CallOf, CallMonotone DEF IInv, Grows
<1>6. /\ n \in CallInFlight /\ n.kind = c.kind /\ n.turn = c.turn
      /\ n.box = c.box /\ n.s = c.s /\ n.rows = c.rows /\ n.pc = "commit"
  BY Zenon, <1>5 DEF CallInFlight
<1>7. op' = [op EXCEPT ![p] = n]
  BY ZenonT(30) DEF RunSandboxActions
<1> HIDE DEF n
<1>8. GoodCall(n, Exists', Delivered', Known')
  BY Zenon, <1>5, <1>6 DEF GoodCall
<1>9. CallsOK'
  BY Zenon, <1>4, <1>7, <1>8, CallMoves DEF IInv
<1>10. SessionOK'
  BY Zenon, <1>4, SessionStays DEF IInv, RunSandboxActions
<1> QED
  BY ZenonT(30), <1>2, <1>3, <1>9, <1>10, RunnersStay DEF RunSandboxActions, IInv, FreshOK

LEMMA CrashStep ==
  ASSUME IInv, NEW p \in Procs, Crash(p)
  PROVE  IInv'
BY Zenon, ForgetFrame, RunnersStay DEF Crash, IInv

-----------------------------------------------------------------------------
(* The reconciler. *)

(* A copy of the session, in a new call that picks no turn yet. *)
LEMMA CopyGood ==
  ASSUME SessionOK, NEW k \in {"reconcile", "fail", "restart"},
         NEW pc \in {"read", "finish", "enqueue"}, NEW t \in Turns \cup {None},
         k = "restart" => t \in Turns
  PROVE  GoodCall([[NoOp EXCEPT !.kind = k, !.pc = pc, !.turn = t] EXCEPT
                     !.s = session], Exists, Delivered, Known)
<1> DEFINE n == [[NoOp EXCEPT !.kind = k, !.pc = pc, !.turn = t] EXCEPT
                   !.s = session]
<1>1. session \in Session /\ GoodSession(session, Exists, Delivered)
  BY Zenon DEF SessionOK, GoodSession
<1>2. n \in CallInFlight
  BY Zenon, <1>1, NoOpType DEF CallInFlight
<1>3. n.kind = k /\ n.pc = pc /\ n.turn = t /\ n.s = session /\ n.rows = NoRows
  BY Zenon, NoOpType DEF CallInFlight
<1> HIDE DEF n
<1>4. GoodCall(n, Exists, Delivered, Known)
  BY ZenonT(30), <1>1, <1>2, <1>3, NoRowsType DEF GoodCall, RunnerCalls
<1> QED
  BY Zenon, <1>4 DEF n

LEMMA FollowsGood ==
  ASSUME NEW s, NEW d, NEW E, NEW D, GoodSession(s, E, D), Follows(s, d)
  PROVE  GoodSession(d.s, E, D) /\ d.acts \in SUBSET Action
BY Zenon DEF GoodSession, Follows

LEMMA NextStageType ==
  ASSUME NEW acts
  PROVE  NextStage(acts) \in Stages
BY Zenon DEF NextStage, Stages

LEMMA OutcomeNamed ==
  ASSUME NEW s, NEW seen, \A b \in Sandboxes : exists(seen[b]) => b \in Exists,
         NEW outcome \in ProvisionOutcome(s, seen), outcome.kind = "sandbox"
  PROVE  /\ outcome.box \in Sandboxes
         /\ outcome.box \in Exists \/ outcome.box \in Unused
<1>1. \A b \in Reusable(seen) : b \in Sandboxes /\ b \in Exists
  BY Zenon DEF Reusable, liveSandbox, exists
<1>2. \A b \in NextID : b \in Unused /\ b \in Sandboxes
  BY ZenonT(30) DEF NextID, Unused
<1>3. \A b \in Newest(Reusable(seen)) : b \in Reusable(seen)
  BY Zenon DEF Newest
<1>4. outcome \in {[kind |-> "sandbox", box |-> b] :
        b \in IF Reusable(seen) # {} THEN Newest(Reusable(seen)) ELSE NextID}
  BY DEF ProvisionOutcome
<1> QED
  BY SMTT(20), <1>1, <1>2, <1>3, <1>4

LEMMA ProvisionStep ==
  ASSUME IInv, NEW r \in Procs, provision(r)
  PROVE  IInv'
<1> DEFINE c    == op[r]
           s    == op[r].s
           seen == op[r].rows
           acts == op[r].acts \ {Provision}
<1>1. /\ GoodCall(c, Exists, Delivered, Known) /\ c \in CallInFlight
      /\ GoodSession(s, Exists, Delivered) /\ s \in Session
      /\ acts \in SUBSET Action
      /\ \A b \in Sandboxes : exists(seen[b]) => b \in Exists
  BY ZenonT(30), CallOf DEF IInv, CallInFlight, GoodCall
<1>2. PICK outcome \in ProvisionOutcome(s, seen), restored \in Restorable(s) :
        /\ Decided(r, AfterProvision(s, acts, seen, outcome, restored))
        /\ rows' = [b \in Sandboxes |->
                      IF b \in Unused /\ outcome.box = b THEN NewRow ELSE rows[b]]
  BY ZenonT(30) DEF provision
<1>3. restored \in BOOLEAN
  BY ZenonT(30) DEF Restorable
<1>4. NewRow \in Row /\ exists(NewRow) /\ GoodRow(NewRow)
  BY Zenon DEF NewRow, Row, exists, GoodRow
<1>5. RowsOK'
  BY Zenon, <1>2, <1>4 DEF IInv, RowsOK
<1>6. Exists \subseteq Exists' /\ \A b \in Unused : outcome.box = b => b \in Exists'
  BY ZenonT(30), <1>2, <1>4 DEF Exists, Unused
<1>7. Grows /\ InboxOK'
  BY Zenon, <1>6 DEF Grows, Delivered, Known, InInbox, provision, IInv, InboxOK
<1>8. outcome.kind = "sandbox" => outcome.box \in Sandboxes /\ outcome.box \in Exists'
  BY ZenonT(30), <1>1, <1>6, OutcomeNamed
<1>9. /\ GoodCall(c, Exists', Delivered', Known')
      /\ GoodSession(s, Exists', Delivered')
  BY ZenonT(30), <1>1, <1>7, CallMonotone, SessionMonotone DEF Grows
<1> DEFINE d == AfterProvision(s, acts, seen, outcome, restored)
           n == [c EXCEPT !.s = d.s, !.acts = d.acts, !.rows = NoRows,
                          !.pc = NextStage(d.acts)]
<1>10. Provisioned(s, d, outcome)
  <2>1. /\ s \in Session /\ acts \in SUBSET Action
        /\ outcome.kind = "sandbox" => outcome.box \in Sandboxes
    BY Zenon, <1>1, <1>8
  <2> HIDE DEF s, acts, seen
  <2> QED
    BY Zenon, <1>3, <2>1, AfterProvisionKeeps
<1>11. op' = [op EXCEPT ![r] = n]
  BY ZenonT(30), <1>2 DEF Decided
<1>12. c.kind # "inbox" /\ NextStage(d.acts) \in Stages
  BY Zenon, NextStageType DEF provision, At
<1> HIDE DEF d
<1>13. GoodSession(d.s, Exists', Delivered') /\ d.acts \in SUBSET Action
  BY ZenonT(30), <1>8, <1>9, <1>10, FollowsGood DEF GoodSession, Provisioned
<1>14. GoodCall(n, Exists', Delivered', Known')
  BY ZenonT(30), <1>9, <1>12, <1>13, NoRowsType, DecidedGood
<1> HIDE DEF n
<1>15. CallsOK'
  BY Zenon, <1>7, <1>11, <1>14, CallMoves DEF IInv
<1>16. SessionOK'
  BY Zenon, <1>7, SessionStays DEF IInv, provision
<1> QED
  BY Zenon, <1>5, <1>7, <1>15, <1>16, RunnersStay DEF provision, IInv, FreshOK

LEMMA LeaseStep ==
  ASSUME IInv, NEW r \in Procs, Lease(r)
  PROVE  IInv'
<1> DEFINE call == [NoOp EXCEPT !.kind = "reconcile", !.pc = "read"]
<1>1. call = [NoOp EXCEPT !.kind = "reconcile", !.pc = "read", !.turn = None]
  BY ZenonT(30), NoOpType DEF CallInFlight
<1>2. GoodCall([call EXCEPT !.s = session], Exists, Delivered, Known)
  BY Zenon, <1>1, CopyGood DEF IInv
<1>3. Read(r, call)
  BY Zenon DEF Lease
<1> HIDE DEF call
<1> QED
  BY SMTT(20), <1>2, <1>3, ReadFrame, RunnersStay DEF Lease, IInv

LEMMA StepOnceStep ==
  ASSUME IInv, NEW r \in Procs, \E fact \in Fact : StepOnce(r, fact)
  PROVE  IInv'
<1> DEFINE c == op[r]
           s == op[r].s
<1>1. /\ GoodCall(c, Exists, Delivered, Known) /\ c \in CallInFlight
      /\ GoodSession(s, Exists, Delivered) /\ s \in Session
  BY Zenon, CallOf DEF IInv
<1>2. PICK fact \in Fact : StepOnce(r, fact)
  BY Zenon
<1> DEFINE d  == Step(s, Observe(s, fact))
           rs == IF {Provision, Publish} \cap d.acts # {} THEN rows ELSE NoRows
           n  == [c EXCEPT !.s = d.s, !.acts = d.acts, !.rows = rs,
                           !.pc = NextStage(d.acts)]
<1>3. GoodSession(d.s, Exists, Delivered) /\ d.acts \in SUBSET Action
  BY SMTT(20), <1>1, StepFollows, FollowsGood
<1>4. CASE d = Decide(s, {})
  BY ZenonT(30), <1>2, <1>4, ForgetFrame, RunnersStay DEF StepOnce, IInv
<1>5. CASE d # Decide(s, {})
  <2>1. op' = [op EXCEPT ![r] = n]
    BY ZenonT(30), <1>2, <1>5 DEF StepOnce
  <2>2. rs \in [Sandboxes -> Row] /\ \A b \in Sandboxes : exists(rs[b]) => b \in Exists
    BY ZenonT(30), NoRowsType DEF IInv, RowsOK, Exists
  <2>3. NextStage(d.acts) \in Stages
    BY Zenon, NextStageType
  <2>4. c.kind # "inbox"
    BY ZenonT(30), <1>2 DEF StepOnce, At
  <2> HIDE DEF d, rs
  <2>5. GoodCall(n, Exists, Delivered, Known)
    BY ZenonT(30), <1>1, <1>3, <2>2, <2>3, <2>4, DecidedGood
  <2>6. UNCHANGED <<session, rows, inbox, recorded, runner, fresh>>
    BY ZenonT(30), <1>2, <1>5 DEF StepOnce, d
  <2> HIDE DEF n
  <2> QED
    BY Zenon, <2>1, <2>5, <2>6, CallFrame, RunnersStay DEF IInv, FreshOK
<1> QED
  BY Zenon, <1>4, <1>5

LEMMA PublishStep ==
  ASSUME IInv, NEW r \in Procs, publish(r)
  PROVE  IInv'
<1> DEFINE c == op[r]
           s == op[r].s
<1>1. /\ GoodCall(c, Exists, Delivered, Known) /\ c \in CallInFlight
      /\ GoodSession(s, Exists, Delivered) /\ s \in Session
  BY Zenon, CallOf DEF IInv
<1>2. PICK outcome : Decided(r, AfterPublish(s, op[r].rows, outcome))
  BY Zenon DEF publish
<1> DEFINE d == AfterPublish(s, op[r].rows, outcome)
           n == [c EXCEPT !.s = d.s, !.acts = d.acts, !.rows = NoRows,
                          !.pc = NextStage(d.acts)]
<1>3. GoodSession(d.s, Exists, Delivered) /\ d.acts \in SUBSET Action
  BY Zenon, <1>1, AfterPublishFollows, FollowsGood
<1>4. c.kind # "inbox" /\ NextStage(d.acts) \in Stages
  BY Zenon, NextStageType DEF publish, At
<1>5. op' = [op EXCEPT ![r] = n]
  BY ZenonT(30), <1>2 DEF Decided
<1> HIDE DEF d
<1>6. GoodCall(n, Exists, Delivered, Known)
  BY Zenon, <1>1, <1>3, <1>4, NoRowsType, DecidedGood
<1> HIDE DEF n
<1> QED
  BY ZenonT(30), <1>5, <1>6, CallFrame, RunnersStay DEF publish, IInv, FreshOK

LEMMA CommitPassStep ==
  ASSUME IInv, NEW r \in Procs, CommitPass(r)
  PROVE  IInv'
<1> DEFINE c == op[r]
           s == op[r].s
<1>1. /\ GoodCall(c, Exists, Delivered, Known) /\ c \in CallInFlight
      /\ GoodSession(s, Exists, Delivered) /\ s \in Session
  BY Zenon, CallOf DEF IInv
<1>2. CASE fresh[r] /\ s # session
  BY SMTT(20), <1>1, <1>2, WriteFrame, RunnersStay DEF CommitPass, IInv
<1>3. CASE ~(fresh[r] /\ s # session)
  BY Zenon, <1>3, ForgetFrame, RunnersStay DEF CommitPass, IInv
<1> QED
  BY ZenonT(30), <1>2, <1>3

LEMMA ReconcilerStep ==
  ASSUME IInv, ReconcilerNext
  PROVE  IInv'
<1>1. Reconcilers \subseteq Procs
  BY Zenon DEF Procs
<1> QED
  BY ZenonT(30), <1>1, LeaseStep, StepOnceStep, ProvisionStep, PublishStep,
     RunSandboxActionsStep, CommitPassStep DEF ReconcilerNext

-----------------------------------------------------------------------------
(* The calls of people, triggers and metering. *)

LEMMA EnterGood ==
  ASSUME NEW s, NEW E, NEW D, GoodSession(s, E, D), NEW p \in Phase,
         p \in Placed => s.sandbox \in E
  PROVE  GoodSession(Enter(s, p), E, D)
BY Zenon, EnterKeeps DEF GoodSession

LEMMA ResetGood ==
  ASSUME NEW s, NEW E, NEW D, GoodSession(s, E, D), NEW rec
  PROVE  GoodSession(resetForTurn(s, rec), E, D)
<1>1. s \in Session
  BY Zenon DEF GoodSession
<1>2. /\ resetForTurn(s, rec) \in Session /\ resetForTurn(s, rec).phase = "queued"
      /\ resetForTurn(s, rec).turn = None
  BY Zenon, <1>1, ResetKeeps
<1> QED
  BY Zenon, <1>2 DEF GoodSession, Placed

(* Archive, the webhook and a stop. *)
LEMMA EndIdleGood ==
  ASSUME NEW s, NEW E, NEW D, GoodSession(s, E, D)
  PROVE  /\ GoodSession(EndIdle(s), E, D)
         /\ GoodSession(archive(s), E, D)
         /\ GoodSession([s EXCEPT !.stop = TRUE], E, D)
<1>1. s \in Session
  BY Zenon DEF GoodSession
<1>2. \A c : GoodSession(c, E, D) =>
        GoodSession(EndIdle(c), E, D) /\ GoodSession([c EXCEPT !.stop = TRUE], E, D)
  <2> SUFFICES ASSUME NEW c, GoodSession(c, E, D)
               PROVE  /\ GoodSession(EndIdle(c), E, D)
                      /\ GoodSession([c EXCEPT !.stop = TRUE], E, D)
    BY Zenon
  <2>1. "done" \in Phase /\ "done" \notin Placed /\ "complete" \in State
    BY Zenon DEF Phase, Placed, State
  <2>2. /\ EndIdle(c) \in Session /\ EndIdle(c).phase = "done"
        /\ EndIdle(c).turn = c.turn
    BY ZenonT(30), <2>1 DEF GoodSession, EndIdle, Session
  <2>3. GoodSession([c EXCEPT !.stop = TRUE], E, D)
    <3> DEFINE n == [c EXCEPT !.stop = TRUE]
    <3>1. n \in Session /\ n.phase = c.phase /\ n.turn = c.turn /\ n.sandbox = c.sandbox
      BY ZenonT(30) DEF GoodSession, Session
    <3> HIDE DEF n
    <3>2. GoodSession(n, E, D)
      BY Zenon, <3>1 DEF GoodSession
    <3> QED
      BY Zenon, <3>2 DEF n
  <2> QED
    BY Zenon, <2>1, <2>2, <2>3 DEF GoodSession
<1>3. GoodSession([s EXCEPT !.archived = TRUE], E, D)
  BY ZenonT(30) DEF GoodSession, Session
<1>4. archive(s) \in {[s EXCEPT !.archived = TRUE],
                      EndIdle([s EXCEPT !.archived = TRUE]),
                      [[s EXCEPT !.archived = TRUE] EXCEPT !.stop = TRUE]}
  BY Zenon DEF archive
<1> QED
  BY Zenon, <1>2, <1>3, <1>4

LEMMA RecordGood ==
  ASSUME NEW s, NEW E, NEW D, GoodSession(s, E, D)
  PROVE  /\ GoodSession([s EXCEPT !.rejected = TRUE], E, D)
         /\ GoodSession([s EXCEPT !.env = TRUE], E, D)
         /\ GoodSession([s EXCEPT !.pr = TRUE], E, D)
         /\ \A st \in State : GoodSession([s EXCEPT !.error = "", !.state = st], E, D)
BY ZenonT(30) DEF GoodSession, Session, ErrorCode

(* A step that writes the session in one update. *)
LEMMA UpdateStep ==
  ASSUME IInv,
         \/ StopSession \/ Archive \/ dispatchPullRequest
         \/ \E reject \in BOOLEAN : Approve(reject)
  PROVE  IInv'
<1>1. GoodSession(session, Exists, Delivered)
  BY Zenon DEF IInv, SessionOK
<1>2. CASE StopSession
  BY ZenonT(30), <1>1, <1>2, EndIdleGood, WriteFrame, RunnersStay DEF StopSession, IInv
<1>3. CASE Archive
  BY Zenon, <1>1, <1>3, EndIdleGood, WriteFrame, RunnersStay DEF Archive, IInv
<1>4. CASE dispatchPullRequest
  <2>1. \E s \in {session, EndIdle(session), archive(session)} : Write(s)
    BY Zenon, <1>4 DEF dispatchPullRequest
  <2> QED
    BY ZenonT(30), <1>1, <1>4, <2>1, EndIdleGood, WriteFrame, RunnersStay
       DEF dispatchPullRequest, IInv
<1>5. ASSUME NEW reject \in BOOLEAN, Approve(reject)
      PROVE  IInv'
  <2>1. /\ GoodSession(Enter([session EXCEPT !.rejected = TRUE], "done"),
                       Exists, Delivered)
        /\ GoodSession(Enter(session, "queued"), Exists, Delivered)
    BY Zenon, <1>1, RecordGood, EnterGood DEF Phase, Placed
  <2>2. \/ Write(Enter([session EXCEPT !.rejected = TRUE], "done"))
        \/ Write(Enter(session, "queued"))
    BY Zenon, <1>5 DEF Approve
  <2> QED
    BY ZenonT(30), <1>5, <2>1, <2>2, WriteFrame, RunnersStay DEF Approve, IInv
<1> QED
  BY Zenon, <1>2, <1>3, <1>4, <1>5

(* A new call that picks no turn. *)
LEMMA NewCallGood ==
  ASSUME NEW k \in {"prompt", "answer", "restart", "createPR", "heartbeat", "events"},
         NEW pc \in {"enqueue", "update"}, NEW t \in Turns \cup {None},
         NEW b \in Sandboxes \cup {None},
         k \in {"heartbeat", "events"} => b \in Sandboxes,
         k \in {"prompt", "restart"} => t \in Turns,
         NEW E, NEW D, NEW K
  PROVE  GoodCall([NoOp EXCEPT !.kind = k, !.pc = pc, !.turn = t, !.box = b],
                  E, D, K)
<1> DEFINE n == [NoOp EXCEPT !.kind = k, !.pc = pc, !.turn = t, !.box = b]
<1>1. n \in CallInFlight
  BY ZenonT(30), NoOpType DEF CallInFlight
<1>2. /\ n.kind = k /\ n.pc = pc /\ n.box = b /\ n.turn = t
      /\ n.s = NewSession /\ n.rows = NoRows
  BY Zenon, NoOpType DEF CallInFlight
<1> HIDE DEF n
<1>3. GoodCall(n, E, D, K)
  BY ZenonT(30), <1>1, <1>2, NoRowsType, NewSessionGood DEF GoodCall, RunnerCalls
<1> QED
  BY Zenon, <1>3 DEF n

(* A call that moves on while it enqueues or stamps a turn. *)
LEMMA InboxFrame ==
  ASSUME IInv, NEW p \in Procs, NEW c, op' = [op EXCEPT ![p] = c],
         InboxOK', Known \subseteq Known', Delivered \subseteq Delivered',
         GoodCall(c, Exists, Delivered', Known'),
         UNCHANGED <<session, rows, recorded, runner, fresh>>
  PROVE  IInv'
<1>1. Exists' = Exists
  BY Zenon DEF Exists
<1>2. Grows
  BY Zenon, <1>1 DEF Grows
<1>3. CallsOK' /\ SessionOK'
  BY ZenonT(30), <1>1, <1>2, CallMoves, SessionStays DEF IInv
<1> QED
  BY Zenon, <1>3, RunnersStay DEF IInv, RowsOK, FreshOK

LEMMA EnqueueTurnGrows ==
  ASSUME InboxOK, NEW t \in Turns, NEW pending \in BOOLEAN,
         inbox' = EnqueueTurn(t, pending) \/ inbox' = inbox
  PROVE  InboxOK' /\ Known \subseteq Known' /\ Delivered \subseteq Delivered'
<1>1. CASE inbox' = inbox
  BY Zenon, <1>1 DEF InboxOK, Known, Delivered, InInbox
<1>2. CASE inbox' = Enqueue(TurnItem(t, pending))
  BY Zenon, <1>2, ItemType, EnqueueGrows
<1> QED
  BY Zenon, <1>1, <1>2 DEF EnqueueTurn

(* Only the stage and the record flag of a call that picks no turn move. *)
LEMMA StageGood ==
  ASSUME NEW c, NEW E, NEW D, NEW K, GoodCall(c, E, D, K),
         c.kind \in {"prompt", "restart"}, NEW rec \in BOOLEAN
  PROVE  GoodCall([c EXCEPT !.pc = "update", !.rec = rec], E, D, K)
<1> DEFINE n == [c EXCEPT !.pc = "update", !.rec = rec]
<1>1. c \in CallInFlight
  BY Zenon DEF GoodCall
<1>2. n \in CallInFlight
  BY Zenon, <1>1 DEF CallInFlight
<1>3. /\ n.kind = c.kind /\ n.pc = "update" /\ n.box = c.box
      /\ n.s = c.s /\ n.rows = c.rows /\ n.turn = c.turn
  BY Zenon, <1>1 DEF CallInFlight
<1> HIDE DEF n
<1>4. GoodCall(n, E, D, K)
  BY Zenon, <1>2, <1>3 DEF GoodCall
<1> QED
  BY Zenon, <1>4 DEF n

LEMMA PromptCallStep ==
  ASSUME IInv, NEW h \in Procs, NEW t \in Turns, Prompt(h, t)
  PROVE  IInv'
<1> DEFINE n == [NoOp EXCEPT !.kind = "prompt", !.pc = "enqueue", !.turn = t]
<1>1. n = [NoOp EXCEPT !.kind = "prompt", !.pc = "enqueue", !.turn = t, !.box = None]
  BY Zenon, NoOpType DEF CallInFlight
<1>2. GoodCall(n, Exists, Delivered, Known)
  BY ZenonT(30), <1>1, NewCallGood
<1>3. op' = [op EXCEPT ![h] = n]
  BY Zenon DEF Prompt
<1> HIDE DEF n
<1> QED
  BY ZenonT(30), <1>2, <1>3, CallFrame, RunnersStay DEF Prompt, IInv, FreshOK

LEMMA AnswerStep ==
  ASSUME IInv, NEW h \in Procs, Answer(h)
  PROVE  IInv'
<1> DEFINE n == [NoOp EXCEPT !.kind = "answer", !.pc = "update"]
<1>1. n = [NoOp EXCEPT !.kind = "answer", !.pc = "update", !.turn = None, !.box = None]
  BY ZenonT(30), NoOpType DEF CallInFlight
<1>2. GoodCall(n, Exists, Delivered, Known)
  BY Zenon, <1>1, NewCallGood
<1>3. op' = [op EXCEPT ![h] = n]
  BY Zenon DEF Answer
<1> HIDE DEF n
<1> QED
  BY Zenon, <1>2, <1>3, CallFrame, RunnersStay DEF Answer, IInv, FreshOK

LEMMA CreatePullRequestStep ==
  ASSUME IInv, NEW h \in Procs, CreatePullRequest(h)
  PROVE  IInv'
<1> DEFINE n == [NoOp EXCEPT !.kind = "createPR", !.pc = "update"]
<1>1. n = [NoOp EXCEPT !.kind = "createPR", !.pc = "update", !.turn = None, !.box = None]
  BY Zenon, NoOpType DEF CallInFlight
<1>2. GoodCall(n, Exists, Delivered, Known)
  BY ZenonT(30), <1>1, NewCallGood
<1>3. op' = [op EXCEPT ![h] = n]
  BY Zenon DEF CreatePullRequest
<1> HIDE DEF n
<1> QED
  BY Zenon, <1>2, <1>3, CallFrame, RunnersStay DEF CreatePullRequest, IInv, FreshOK

LEMMA PromptUpdateStep ==
  ASSUME IInv, NEW h \in Procs, PromptUpdate(h)
  PROVE  IInv'
<1>1. GoodSession(session, Exists, Delivered)
  BY Zenon DEF IInv, SessionOK
<1>2. \/ Write(resetForTurn(session, op[h].rec)) \/ Write(session)
  BY Zenon DEF PromptUpdate
<1> QED
  BY ZenonT(30), <1>1, <1>2, ResetGood, WriteFrame, RunnersStay DEF PromptUpdate, IInv

LEMMA AnswerUpdateStep ==
  ASSUME IInv, NEW h \in Procs, AnswerUpdate(h)
  PROVE  IInv'
<1>1. GoodSession(session, Exists, Delivered)
  BY Zenon DEF IInv, SessionOK
<1>2. GoodSession(Enter([session EXCEPT !.env = TRUE], "queued"), Exists, Delivered)
  BY Zenon, <1>1, RecordGood, EnterGood DEF Phase, Placed
<1>3. CASE session.phase = "awaitingUser"
  BY ZenonT(30), <1>2, <1>3, WriteFrame, RunnersStay DEF AnswerUpdate, IInv
<1>4. CASE session.phase # "awaitingUser"
  BY <1>4, ForgetFrame, RunnersStay DEF AnswerUpdate, IInv
<1> QED
  BY Zenon, <1>3, <1>4

LEMMA CreatePullRequestUpdateStep ==
  ASSUME IInv, NEW h \in Procs, CreatePullRequestUpdate(h)
  PROVE  IInv'
<1>1. GoodSession(session, Exists, Delivered)
  BY Zenon DEF IInv, SessionOK
<1> DEFINE s == [session EXCEPT !.pr = TRUE]
           c == [s EXCEPT !.error = "", !.state = TerminalState("", s.stop)]
<1>2. TerminalState("", s.stop) \in State
  BY Zenon DEF TerminalState, State
<1>3. GoodSession(s, Exists, Delivered)
  BY ZenonT(30), <1>1, RecordGood
<1>4. GoodSession(c, Exists, Delivered)
  <2> HIDE DEF s
  <2> QED
    BY Zenon, <1>2, <1>3, RecordGood
<1>5. Write(s) \/ Write(c)
  BY Zenon DEF CreatePullRequestUpdate
<1> HIDE DEF s, c
<1> QED
  BY ZenonT(30), <1>3, <1>4, <1>5, WriteFrame, RunnersStay DEF CreatePullRequestUpdate, IInv

LEMMA PromptEnqueueStep ==
  ASSUME IInv, NEW h \in Procs, PromptEnqueue(h)
  PROVE  IInv'
<1>1. /\ GoodCall(op[h], Exists, Delivered, Known) /\ op[h] \in CallInFlight
      /\ op[h].kind = "prompt"
  BY Zenon, CallOf DEF IInv, PromptEnqueue, At
<1>2. CASE InInbox(op[h].turn) \/ Len(inbox) < MaxInbox
  <2>1. PICK pending \in BOOLEAN : inbox' = EnqueueTurn(op[h].turn, pending)
    BY ZenonT(30), <1>2 DEF PromptEnqueue
  <2>2. op[h].turn \in Turns
    BY Zenon, <1>1 DEF GoodCall
  <2>3. InboxOK' /\ Known \subseteq Known' /\ Delivered \subseteq Delivered'
    BY Zenon, <2>1, <2>2, EnqueueTurnGrows DEF IInv
  <2> DEFINE n == [op[h] EXCEPT !.pc = "update", !.rec = recorded]
  <2>4. GoodCall(n, Exists, Delivered', Known')
    BY ZenonT(30), <1>1, <2>3, CallMonotone, StageGood DEF IInv
  <2>5. op' = [op EXCEPT ![h] = n]
    BY Zenon, <1>2 DEF PromptEnqueue
  <2> HIDE DEF n
  <2> QED
    BY Zenon, <2>3, <2>4, <2>5, InboxFrame DEF PromptEnqueue
<1>3. CASE ~(InInbox(op[h].turn) \/ Len(inbox) < MaxInbox)
  BY <1>3, NoOpGood, CallFrame, RunnersStay
     DEF PromptEnqueue, Return, IInv, FreshOK
<1> QED
  BY Zenon, <1>2, <1>3

LEMMA RestartCallStep ==
  ASSUME IInv, NEW h \in Procs, NEW t \in Turns, Restart(h, t)
  PROVE  IInv'
<1> DEFINE n == [NoOp EXCEPT !.kind = "restart", !.pc = "enqueue", !.turn = t]
<1>1. n = [NoOp EXCEPT !.kind = "restart", !.pc = "enqueue", !.turn = t, !.box = None]
  BY Zenon, NoOpType DEF CallInFlight
<1>2. GoodCall(n, Exists, Delivered, Known)
  BY ZenonT(30), <1>1, NewCallGood
<1>3. op' = [op EXCEPT ![h] = n]
  BY Zenon DEF Restart
<1> HIDE DEF n
<1> QED
  BY Zenon, <1>2, <1>3, CallFrame, RunnersStay DEF Restart, IInv, FreshOK

LEMMA StartOverStep ==
  ASSUME IInv, NEW h \in Procs, NEW t \in Turns, StartOver(h, t)
  PROVE  IInv'
<1> DEFINE pc == IF session.phase = "idle" THEN "finish" ELSE "enqueue"
           n  == [NoOp EXCEPT !.kind = "restart", !.turn = t, !.pc = pc]
<1>1. n = [NoOp EXCEPT !.kind = "restart", !.pc = pc, !.turn = t]
  BY ZenonT(30), NoOpType DEF CallInFlight
<1>2. Read(h, n)
  BY Zenon DEF StartOver
<1>3. pc \in {"read", "finish", "enqueue"}
  BY Zenon
<1> HIDE DEF pc
<1>4. GoodCall([n EXCEPT !.s = session], Exists, Delivered, Known)
  BY Zenon, <1>1, <1>3, CopyGood DEF IInv
<1> HIDE DEF n
<1> QED
  BY ZenonT(30), <1>2, <1>4, ReadFrame, RunnersStay DEF StartOver, IInv

LEMMA StartOverFinishStep ==
  ASSUME IInv, NEW h \in Procs, StartOverFinish(h)
  PROVE  IInv'
<1>1. /\ GoodCall(op[h], Exists, Delivered, Known) /\ op[h] \in CallInFlight
      /\ GoodSession(op[h].s, Exists, Delivered) /\ op[h].s \in Session
  BY Zenon, CallOf DEF IInv
<1> DEFINE d == finish(op[h].s, {}, rows)
           n == [op[h] EXCEPT !.s = d.s, !.acts = d.acts, !.pc = "effects"]
<1>2. Follows(op[h].s, d)
  BY Zenon, <1>1, FinishFollows
<1>3. GoodSession(d.s, Exists, Delivered) /\ d.acts \in SUBSET Action
  BY Zenon, <1>1, <1>2, FollowsGood
<1>4. op' = [op EXCEPT ![h] = n] /\ op[h].kind = "restart"
  BY ZenonT(30) DEF StartOverFinish, At
<1> HIDE DEF d
<1>5. GoodCall(n, Exists, Delivered, Known)
  BY Zenon, <1>1, <1>3, <1>4, EffectsGood
<1> HIDE DEF n
<1> QED
  BY ZenonT(30), <1>4, <1>5, CallFrame, RunnersStay DEF StartOverFinish, IInv, FreshOK

LEMMA StartOverCommitStep ==
  ASSUME IInv, NEW h \in Procs, StartOverCommit(h)
  PROVE  IInv'
<1>1. /\ GoodCall(op[h], Exists, Delivered, Known) /\ op[h] \in CallInFlight
      /\ GoodSession(op[h].s, Exists, Delivered) /\ op[h].s \in Session
  BY Zenon, CallOf DEF IInv
<1>2. CASE fresh[h]
  <2> DEFINE n == [op[h] EXCEPT !.pc = "enqueue", !.s = NewSession]
  <2>1. n \in CallInFlight
    BY Zenon, <1>1, NewSessionType DEF CallInFlight
  <2>2. /\ n.kind = op[h].kind /\ n.pc = "enqueue" /\ n.box = op[h].box
        /\ n.s = NewSession /\ n.rows = op[h].rows /\ n.turn = op[h].turn
    BY Zenon, <1>1 DEF CallInFlight
  <2>3. op' = [op EXCEPT ![h] = n] /\ op[h].kind = "restart"
    BY ZenonT(30), <1>2 DEF StartOverCommit, At
  <2> HIDE DEF n
  <2>4. GoodCall(n, Exists, Delivered, Known)
    BY Zenon, <1>1, <2>1, <2>2, <2>3, NewSessionGood DEF GoodCall
  <2>5. session' = op[h].s /\ FreshOK'
    BY ZenonT(30), <1>2 DEF StartOverCommit, Write, FreshOK
  <2>6. UNCHANGED <<rows, inbox, recorded, runner>>
    BY Zenon DEF StartOverCommit
  <2>7. /\ Exists' = Exists /\ Delivered' = Delivered /\ Known' = Known
        /\ Grows
    BY Zenon, <2>6, SameWorld
  <2>8. SessionOK' /\ CallsOK'
    BY ZenonT(30), <1>1, <2>3, <2>4, <2>5, <2>7, CallMoves DEF SessionOK, IInv
  <2> QED
    BY ZenonT(30), <2>5, <2>6, <2>8, RunnersStay DEF IInv, RowsOK, InboxOK
<1>3. CASE ~fresh[h]
  BY Zenon, <1>3, ForgetFrame, RunnersStay DEF StartOverCommit, IInv
<1> QED
  BY ZenonT(30), <1>2, <1>3

LEMMA RestartEnqueueStep ==
  ASSUME IInv, NEW h \in Procs, RestartEnqueue(h)
  PROVE  IInv'
<1>1. /\ GoodCall(op[h], Exists, Delivered, Known) /\ op[h] \in CallInFlight
      /\ GoodSession(op[h].s, Exists, Delivered) /\ op[h].s \in Session
  BY Zenon, CallOf DEF IInv
<1>2. op[h].kind = "restart" /\ op[h].turn \in Turns
  BY Zenon, <1>1 DEF RestartEnqueue, At, GoodCall
<1>3. inbox' = EnqueueTurn(op[h].turn, FALSE) \/ inbox' = inbox
  BY Zenon DEF RestartEnqueue
<1>4. InboxOK' /\ Known \subseteq Known' /\ Delivered \subseteq Delivered'
  BY ZenonT(30), <1>2, <1>3, EnqueueTurnGrows DEF IInv
<1> DEFINE n == [op[h] EXCEPT !.pc = "update", !.rec = recorded]
<1>5. GoodCall(n, Exists, Delivered', Known')
  BY ZenonT(30), <1>1, <1>2, <1>4, CallMonotone, StageGood DEF IInv
<1>6. op' = [op EXCEPT ![h] = n]
  BY ZenonT(30) DEF RestartEnqueue
<1> HIDE DEF n
<1> QED
  BY Zenon, <1>4, <1>5, <1>6, InboxFrame DEF RestartEnqueue

LEMMA RestartUpdateStep ==
  ASSUME IInv, NEW h \in Procs, RestartUpdate(h)
  PROVE  IInv'
<1>1. GoodSession(session, Exists, Delivered)
  BY Zenon DEF IInv, SessionOK
<1>2. CASE session.phase = "done"
  BY ZenonT(30), <1>1, <1>2, ResetGood, WriteFrame, RunnersStay DEF RestartUpdate, IInv
<1>3. CASE session.phase # "done"
  BY ZenonT(30), <1>3, ForgetFrame, RunnersStay DEF RestartUpdate, IInv
<1> QED
  BY <1>2, <1>3

LEMMA FailSessionStep ==
  ASSUME IInv, NEW h \in Procs, FailSession(h)
  PROVE  IInv'
<1> DEFINE call == [NoOp EXCEPT !.kind = "fail", !.pc = "read"]
<1>1. GoodCall([call EXCEPT !.s = session], Exists, Delivered, Known)
  <2>1. call = [NoOp EXCEPT !.kind = "fail", !.pc = "read", !.turn = None]
    BY Zenon, NoOpType DEF CallInFlight
  <2> QED
    BY Zenon, <2>1, CopyGood DEF IInv
<1>2. Read(h, call)
  BY Zenon DEF FailSession
<1> HIDE DEF call
<1> QED
  BY ZenonT(30), <1>1, <1>2, ReadFrame, RunnersStay DEF FailSession, IInv

LEMMA FailDecideStep ==
  ASSUME IInv, NEW h \in Procs, FailDecide(h)
  PROVE  IInv'
<1>1. /\ GoodCall(op[h], Exists, Delivered, Known) /\ op[h] \in CallInFlight
      /\ GoodSession(op[h].s, Exists, Delivered) /\ op[h].s \in Session
  BY Zenon, CallOf DEF IInv
<1> DEFINE d == Fail(op[h].s, {}, rows, "failed")
           n == [op[h] EXCEPT !.s = d.s, !.acts = d.acts, !.pc = "effects"]
<1>2. Follows(op[h].s, d)
  BY ZenonT(30), <1>1, FailFollows DEF ErrorCode
<1>3. GoodSession(d.s, Exists, Delivered) /\ d.acts \in SUBSET Action
  BY ZenonT(30), <1>1, <1>2, FollowsGood
<1>4. op' = [op EXCEPT ![h] = n] /\ op[h].kind = "fail"
  BY ZenonT(30) DEF FailDecide, At
<1> HIDE DEF d
<1>5. GoodCall(n, Exists, Delivered, Known)
  BY Zenon, <1>1, <1>3, <1>4, EffectsGood
<1> HIDE DEF n
<1> QED
  BY ZenonT(30), <1>4, <1>5, CallFrame, RunnersStay DEF FailDecide, IInv, FreshOK

LEMMA FailCommitStep ==
  ASSUME IInv, NEW h \in Procs, FailCommit(h)
  PROVE  IInv'
<1>1. /\ GoodCall(op[h], Exists, Delivered, Known) /\ op[h] \in CallInFlight
      /\ GoodSession(op[h].s, Exists, Delivered) /\ op[h].s \in Session
  BY Zenon, CallOf DEF IInv
<1> DEFINE call == [NoOp EXCEPT !.kind = "fail", !.pc = "read"]
<1>2. GoodCall([call EXCEPT !.s = session], Exists, Delivered, Known)
  <2>1. call = [NoOp EXCEPT !.kind = "fail", !.pc = "read", !.turn = None]
    BY Zenon, NoOpType DEF CallInFlight
  <2> QED
    BY Zenon, <2>1, CopyGood DEF IInv
<1>3. CASE fresh[h]
  BY ZenonT(30), <1>1, <1>3, WriteFrame, RunnersStay DEF FailCommit, IInv
<1>4. CASE Forget(h) /\ UNCHANGED session
  BY ZenonT(30), <1>4, ForgetFrame, RunnersStay DEF FailCommit, IInv
<1>5. CASE Read(h, call)
  <2> HIDE DEF call
  <2> QED
    BY <1>2, <1>5, ReadFrame, RunnersStay DEF FailCommit, IInv
<1> QED
  BY ZenonT(30), <1>3, <1>4, <1>5 DEF FailCommit

(* settleTurnScope and turnReady drop the mark of a turn. *)
LEMMA UnmarkGrows ==
  ASSUME InboxOK, NEW i \in DOMAIN inbox,
         inbox' = inbox \/ inbox' = [inbox EXCEPT ![i].pending = FALSE]
  PROVE  InboxOK' /\ Known \subseteq Known' /\ Delivered \subseteq Delivered'
<1>1. CASE inbox' = inbox
  BY Zenon, <1>1 DEF InboxOK, Known, Delivered, InInbox
<1>2. CASE inbox' = [inbox EXCEPT ![i].pending = FALSE]
  <2> DEFINE e == [inbox[i] EXCEPT !.pending = FALSE]
  <2>1. inbox[i] \in Item
    BY Zenon, InboxItem
  <2>2. /\ e \in Item /\ e.kind = inbox[i].kind /\ e.id = inbox[i].id
        /\ e.delivered = inbox[i].delivered
    BY Zenon, <2>1 DEF Item
  <2>3. inbox' = [inbox EXCEPT ![i] = e]
    BY Zenon, <1>2
  <2> HIDE DEF e
  <2> QED
    BY Zenon, <2>2, <2>3, TouchGrows
<1> QED
  BY <1>1, <1>2

LEMMA ServiceStep ==
  ASSUME IInv, ServiceNext
  PROVE  IInv'
<1>1. CASE \/ StopSession \/ Archive \/ dispatchPullRequest
           \/ \E reject \in BOOLEAN : Approve(reject)
  BY Zenon, <1>1, UpdateStep
<1>2. ASSUME NEW i \in DOMAIN inbox, settleTurnScope(i)
      PROVE  IInv'
  <2>1. inbox' = [inbox EXCEPT ![i].pending = FALSE]
    BY Zenon, <1>2 DEF settleTurnScope
  <2>2. InboxOK' /\ Known \subseteq Known' /\ Delivered \subseteq Delivered'
    BY Zenon, <2>1, UnmarkGrows DEF IInv
  <2>3. Exists' = Exists
    BY Zenon, <1>2 DEF settleTurnScope, Exists
  <2>4. Grows
    BY Zenon, <2>2, <2>3 DEF Grows
  <2>5. SessionOK' /\ CallsOK'
    BY ZenonT(30), <1>2, <2>4, SessionStays, CallsStay DEF IInv, settleTurnScope
  <2> QED
    BY ZenonT(30), <1>2, <2>2, <2>5, RunnersStay DEF settleTurnScope, IInv, RowsOK, FreshOK
<1>3. ASSUME NEW h \in Handlers, NEW t \in Turns,
             Prompt(h, t) \/ Restart(h, t) \/ StartOver(h, t)
      PROVE  IInv'
  BY ZenonT(30), <1>3, PromptCallStep, RestartCallStep, StartOverStep DEF Procs
<1>4. ASSUME NEW h \in Handlers,
             \/ PromptEnqueue(h) \/ PromptUpdate(h)
             \/ Answer(h) \/ AnswerUpdate(h)
             \/ StartOverFinish(h) \/ StartOverCommit(h)
             \/ RestartEnqueue(h) \/ RestartUpdate(h)
             \/ FailSession(h) \/ FailDecide(h) \/ FailCommit(h)
             \/ CreatePullRequest(h) \/ CreatePullRequestUpdate(h)
      PROVE  IInv'
  <2>1. h \in Procs
    BY Zenon DEF Procs
  <2> QED
    BY ZenonT(30), <1>4, <2>1, PromptEnqueueStep, PromptUpdateStep, AnswerStep, AnswerUpdateStep,
       StartOverFinishStep, StartOverCommitStep, RestartEnqueueStep,
       RestartUpdateStep, FailSessionStep, FailDecideStep, FailCommitStep,
       CreatePullRequestStep, CreatePullRequestUpdateStep
<1>5. ASSUME NEW h \in Handlers, RunSandboxActions(h)
      PROVE  IInv'
  BY Zenon, <1>5, RunSandboxActionsStep DEF Procs
<1> QED
  BY ZenonT(30), <1>1, <1>2, <1>3, <1>4, <1>5 DEF ServiceNext

-----------------------------------------------------------------------------
(* The runner-facing API. *)

(* A new call of a runner that has read the session. *)
LEMMA RunnerCallGood ==
  ASSUME SessionOK, NEW b \in Sandboxes,
         NEW k \in {"bootstrap", "inbox", "complete"}, NEW pc \in {"read", "pick"},
         NEW t \in Turns \cup {None}, NEW req \in Request,
         k = "complete" => t \in Turns /\ pc = "read",
         k = "bootstrap" => t = None,
         k = "inbox" => session.sandbox \in Exists
  PROVE  GoodCall([[NoOp EXCEPT !.kind = k, !.pc = pc, !.box = b, !.turn = t,
                               !.req = req] EXCEPT !.s = session],
                  Exists, Delivered, Known)
<1> DEFINE n == [[NoOp EXCEPT !.kind = k, !.pc = pc, !.box = b, !.turn = t,
                              !.req = req] EXCEPT !.s = session]
<1>1. session \in Session /\ GoodSession(session, Exists, Delivered)
  BY Zenon DEF SessionOK, GoodSession
<1>2. n \in CallInFlight
  BY Zenon, <1>1, NoOpType DEF CallInFlight
<1>3. /\ n.kind = k /\ n.pc = pc /\ n.turn = t /\ n.s = session
      /\ n.rows = NoRows /\ n.box = b
  BY Zenon, NoOpType DEF CallInFlight
<1> HIDE DEF n
<1>4. GoodCall(n, Exists, Delivered, Known)
  BY Zenon, <1>1, <1>2, <1>3, NoRowsType DEF GoodCall, RunnerCalls
<1> QED
  BY Zenon, <1>4 DEF n

LEMMA BootstrapStep ==
  ASSUME IInv, NEW h \in Procs, NEW b \in Sandboxes, Bootstrap(h, b)
  PROVE  IInv'
<1> DEFINE n == Call(b, "bootstrap", "pick")
<1>1. n = [NoOp EXCEPT !.kind = "bootstrap", !.pc = "pick", !.box = b,
                       !.turn = None, !.req = NoReq]
  BY ZenonT(30), NoOpType DEF CallInFlight, Call
<1>2. Read(h, n)
  BY Zenon DEF Bootstrap
<1>3. GoodCall([n EXCEPT !.s = session], Exists, Delivered, Known)
  BY ZenonT(30), <1>1, NoRowsType, RunnerCallGood DEF IInv
<1> HIDE DEF n
<1> QED
  BY ZenonT(30), <1>2, <1>3, ReadFrame, RunnersStay DEF Bootstrap, IInv

LEMMA InboxCallStep ==
  ASSUME IInv, NEW h \in Procs, NEW b \in Sandboxes, Inbox(h, b)
  PROVE  IInv'
<1> DEFINE n == Call(b, "inbox", "pick")
<1>1. n = [NoOp EXCEPT !.kind = "inbox", !.pc = "pick", !.box = b,
                       !.turn = None, !.req = NoReq]
  BY Zenon, NoOpType DEF CallInFlight, Call
<1>2. Read(h, n)
  BY Zenon DEF Inbox
<1>3. session.sandbox \in Exists
  BY Zenon DEF Inbox, Serves, Authentic, IInv, RowsOK, GoodRow, Exists
<1>4. GoodCall([n EXCEPT !.s = session], Exists, Delivered, Known)
  BY ZenonT(30), <1>1, <1>3, NoRowsType, RunnerCallGood DEF IInv
<1> HIDE DEF n
<1> QED
  BY ZenonT(30), <1>2, <1>4, ReadFrame, RunnersStay DEF Inbox, IInv

LEMMA CompleteTurnStep ==
  ASSUME IInv, NEW h \in Procs, NEW b \in Sandboxes, CompleteTurn(h, b)
  PROVE  IInv'
<1> DEFINE t   == runner[b].cur
           req == runner[b].req
           n   == [Call(b, "complete", "read") EXCEPT !.turn = t, !.req = req]
<1>1. t \in Turns /\ req \in Request
  BY Zenon, RunnerOf DEF IInv, CompleteTurn, Completes, GoodRunner, Runner
<1>2. n = [NoOp EXCEPT !.kind = "complete", !.pc = "read", !.box = b,
                       !.turn = t, !.req = req]
  BY Zenon, NoOpType DEF CallInFlight, Call
<1>3. Read(h, n) /\ recorded' \in BOOLEAN
  BY Zenon, RecordedType DEF CompleteTurn, IInv
<1> HIDE DEF t, req
<1>4. GoodCall([n EXCEPT !.s = session], Exists, Delivered, Known)
  BY ZenonT(30), <1>1, <1>2, RunnerCallGood DEF IInv
<1> HIDE DEF n
<1> QED
  BY SMTT(20), <1>3, <1>4, ReadFrame, RunnersStay DEF CompleteTurn, IInv

LEMMA HeartbeatStep ==
  ASSUME IInv, NEW h \in Procs, NEW b \in Sandboxes, HeartbeatRunning(h, b)
  PROVE  IInv'
<1> DEFINE n == Call(b, "heartbeat", "update")
<1>1. n = [NoOp EXCEPT !.kind = "heartbeat", !.pc = "update", !.turn = None, !.box = b]
  BY Zenon, NoOpType DEF CallInFlight, Call
<1>2. GoodCall(n, Exists, Delivered, Known)
  <2>1. b \in Sandboxes \cup {None} /\ None \in Turns \cup {None}
    BY Zenon
  <2>2. GoodCall([NoOp EXCEPT !.kind = "heartbeat", !.pc = "update", !.turn = None,
                              !.box = b], Exists, Delivered, Known)
    BY ZenonT(30), <2>1, NewCallGood
  <2> QED
    BY Zenon, <1>1, <2>2
<1>3. op' = [op EXCEPT ![h] = n]
  BY Zenon DEF HeartbeatRunning
<1> HIDE DEF n
<1> QED
  BY Zenon, <1>2, <1>3, CallFrame, RunnersStay DEF HeartbeatRunning, IInv, FreshOK

LEMMA EventsStep ==
  ASSUME IInv, NEW h \in Procs, NEW b \in Sandboxes, Events(h, b)
  PROVE  IInv'
<1> DEFINE n == Call(b, "events", "update")
           r == [runner[b] EXCEPT !.asked = "posted"]
<1>1. n = [NoOp EXCEPT !.kind = "events", !.pc = "update", !.turn = None, !.box = b]
  BY ZenonT(30), NoOpType DEF CallInFlight, Call
<1>2. GoodCall(n, Exists, Delivered, Known)
  <2>1. b \in Sandboxes \cup {None} /\ None \in Turns \cup {None}
    BY Zenon
  <2>2. GoodCall([NoOp EXCEPT !.kind = "events", !.pc = "update", !.turn = None,
                              !.box = b], Exists, Delivered, Known)
    BY Zenon, <2>1, NewCallGood
  <2> QED
    BY Zenon, <1>1, <2>2
<1>3. GoodRunner(r)
  BY RunnerOf DEF IInv, GoodRunner, Runner
<1>4. runner' = [runner EXCEPT ![b] = r]
  BY Zenon DEF Events
<1>5. CASE op' = op
  <2> HIDE DEF r
  <2> QED
    BY ZenonT(30), <1>3, <1>4, <1>5, RunnerFrame DEF Events
<1>6. CASE op' = [op EXCEPT ![h] = n]
  <2> HIDE DEF r, n
  <2> QED
    BY ZenonT(30), <1>2, <1>3, <1>4, <1>6, CallFrame, RunnersMove DEF Events, IInv, FreshOK
<1> QED
  BY Zenon, <1>5, <1>6 DEF Events

(* A call picks a turn of the inbox. *)
LEMMA PickStep ==
  ASSUME IInv, NEW h \in Procs, op[h].kind \in {"bootstrap", "inbox"},
         NEW i \in UndeliveredCodingInbox, Pick(h, i),
         UNCHANGED <<session, rows, recorded, runner, fresh>>
  PROVE  IInv'
<1>1. i \in DOMAIN inbox /\ inbox[i].kind = "turn"
  BY Zenon DEF UndeliveredCodingInbox, undelivered
<1>2. inbox[i].id \in Turns /\ inbox[i].id \in Known
  BY Zenon, <1>1, InboxItem DEF IInv, Known, InInbox
<1>3. InboxOK' /\ Known \subseteq Known' /\ Delivered \subseteq Delivered'
  BY Zenon, <1>1, UnmarkGrows DEF IInv, Pick, turnReady
<1>4. GoodCall(op[h], Exists, Delivered', Known') /\ op[h] \in CallInFlight
  BY Zenon, <1>3, CallOf, CallMonotone DEF IInv
<1> DEFINE t == inbox[i].id
           n == [op[h] EXCEPT !.turn = t, !.pc = "mark"]
<1>5. op' = [op EXCEPT ![h] = n] /\ t \in Turns /\ t \in Known'
  BY Zenon, <1>2, <1>3 DEF Pick
<1> HIDE DEF t
<1>6. /\ n \in CallInFlight /\ n.kind = op[h].kind /\ n.pc = "mark" /\ n.turn = t
      /\ n.box = op[h].box /\ n.s = op[h].s /\ n.rows = op[h].rows
  BY ZenonT(30), <1>4, <1>5 DEF CallInFlight
<1> HIDE DEF n
<1>7. GoodCall(n, Exists, Delivered', Known')
  BY Zenon, <1>4, <1>5, <1>6 DEF GoodCall
<1> QED
  BY ZenonT(30), <1>3, <1>5, <1>7, InboxFrame

LEMMA BootstrapPickStep ==
  ASSUME IInv, NEW h \in Procs, BootstrapPick(h)
  PROVE  IInv'
<1>1. /\ GoodCall(op[h], Exists, Delivered, Known) /\ op[h] \in CallInFlight
      /\ op[h].kind = "bootstrap" /\ op[h].pc = "pick"
      /\ GoodSession(op[h].s, Exists, Delivered)
  BY Zenon, CallOf DEF IInv, BootstrapPick, At
<1>2. UNCHANGED <<session, rows, recorded, runner, fresh>>
  BY Zenon DEF BootstrapPick
<1>3. ASSUME NEW t \in Delivered \cup {None}, UNCHANGED inbox,
             op' = [op EXCEPT ![h] = [op[h] EXCEPT !.turn = t, !.pc = "update"]]
      PROVE  IInv'
  <2> DEFINE n == [op[h] EXCEPT !.turn = t, !.pc = "update"]
  <2>1. t \in Turns \cup {None}
    BY Zenon DEF Delivered
  <2>2. /\ n \in CallInFlight /\ n.kind = "bootstrap" /\ n.pc = "update"
        /\ n.turn = t /\ n.box = op[h].box /\ n.s = op[h].s /\ n.rows = op[h].rows
    BY ZenonT(30), <1>1, <2>1 DEF CallInFlight
  <2> HIDE DEF n
  <2>3. GoodCall(n, Exists, Delivered, Known)
    BY Zenon, <1>1, <2>2 DEF GoodCall
  <2>4. op' = [op EXCEPT ![h] = n]
    BY Zenon, <1>3 DEF n
  <2> QED
    BY Zenon, <1>2, <1>3, <2>3, <2>4, CallFrame, RunnersStay DEF IInv, FreshOK
<1>4. CASE /\ op' = [op EXCEPT ![h].turn = op[h].s.turn, ![h].pc = "update"]
           /\ UNCHANGED inbox
  BY ZenonT(30), <1>1, <1>3, <1>4 DEF GoodSession
<1>5. CASE Goto(h, "update") /\ UNCHANGED inbox
  <2>1. op[h].turn \in Delivered \cup {None}
    BY Zenon, <1>1 DEF GoodCall
  <2>2. [op[h] EXCEPT !.pc = "update"] = [op[h] EXCEPT !.turn = op[h].turn, !.pc = "update"]
    BY ZenonT(30), <1>1 DEF CallInFlight
  <2> QED
    BY ZenonT(30), <1>3, <1>5, <2>1, <2>2 DEF Goto
<1>6. ASSUME NEW i \in Oldest(UndeliveredCodingInbox), Pick(h, i)
      PROVE  IInv'
  BY Zenon, <1>1, <1>2, <1>6, PickStep DEF Oldest
<1> QED
  BY Zenon, <1>4, <1>5, <1>6 DEF BootstrapPick

(* The stamp: the turn of the call is delivered from here on. *)
LEMMA MarkStep ==
  ASSUME IInv, NEW h \in Procs, MarkPicked(h)
  PROVE  IInv'
<1> DEFINE t == op[h].turn
           i == SeqOf(t)
           e == [inbox[i] EXCEPT !.delivered = TRUE]
           n == [op[h] EXCEPT !.pc = "update"]
<1>1. /\ GoodCall(op[h], Exists, Delivered, Known) /\ op[h] \in CallInFlight
      /\ t \in Known /\ op[h].kind \in {"bootstrap", "inbox"}
  BY Zenon, CallOf DEF IInv, MarkPicked, GoodCall
<1>2. i \in DOMAIN inbox /\ inbox[i].kind = "turn" /\ inbox[i].id = t
  BY Zenon, <1>1 DEF Known, InInbox, SeqOf
<1>3. inbox' = [inbox EXCEPT ![i] = e] /\ op' = [op EXCEPT ![h] = n]
  BY Zenon DEF MarkPicked, MarkCodingInboxDelivered, Goto
<1> HIDE DEF i
<1>4. inbox[i] \in Item
  BY SMTT(20), <1>2, InboxItem DEF IInv
<1>5. /\ e \in Item /\ e.kind = inbox[i].kind /\ e.id = inbox[i].id /\ e.delivered = TRUE
  BY Zenon, <1>4 DEF Item
<1> HIDE DEF e
<1>6. InboxOK' /\ Known \subseteq Known' /\ Delivered \subseteq Delivered'
  BY ZenonT(30), <1>2, <1>3, <1>5, TouchGrows DEF IInv
<1>7. t \in Delivered'
  <2>1. i \in DOMAIN inbox' /\ inbox'[i] = e
    BY SMTT(20), <1>2, <1>3 DEF IInv, InboxOK
  <2>2. t \in Turns
    BY Zenon, <1>1 DEF Known
  <2> QED
    BY ZenonT(30), <1>2, <1>5, <2>1, <2>2 DEF Delivered
<1>8. GoodCall(op[h], Exists, Delivered', Known')
  BY SMTT(20), <1>1, <1>6, CallMonotone
<1>9. /\ n \in CallInFlight /\ n.kind = op[h].kind /\ n.pc = "update" /\ n.turn = t
      /\ n.box = op[h].box /\ n.s = op[h].s /\ n.rows = op[h].rows
  BY Zenon, <1>1 DEF CallInFlight
<1> HIDE DEF n, t
<1>10. GoodCall(n, Exists, Delivered', Known')
  BY Zenon, <1>7, <1>8, <1>9, <1>1 DEF GoodCall
<1> QED
  BY ZenonT(30), <1>3, <1>6, <1>10, InboxFrame DEF MarkPicked

(* The session that a bootstrap writes. *)
LEMMA BootstrapGood ==
  ASSUME NEW s, NEW E, NEW D, GoodSession(s, E, D), NEW t \in D \cup {None},
         D \subseteq Turns
  PROVE  GoodSession(Started(s, t), E, D) /\ Started(s, t).sandbox = s.sandbox
<1> DEFINE u == IF t # None THEN t ELSE s.turn
           c == [s EXCEPT !.starts = 0, !.turn = u]
<1>1. s \in Session /\ u \in D \cup {None}
  BY Zenon DEF GoodSession
<1>2. 0 \in 0 .. StartRetries /\ u \in Turns \cup {None}
  BY <1>1, RetriesAssumption
<1> HIDE DEF u
<1>3. /\ c \in Session /\ c.phase = s.phase /\ c.sandbox = s.sandbox /\ c.turn = u
  BY Zenon, <1>1, <1>2 DEF Session
<1> HIDE DEF c
<1>4. GoodSession(c, E, D) /\ c.sandbox = s.sandbox
  BY <1>1, <1>3 DEF GoodSession
<1> QED
  BY Zenon, <1>4 DEF c, u, Started

LEMMA BootstrappedGood ==
  ASSUME RunnersOK, NEW b \in Sandboxes, NEW t \in Turns \cup {None},
         \/ runner' = runner
         \/ runner' = Bootstrapped(b, t)
         \/ runner' = [runner EXCEPT ![b] = Gone]
  PROVE  RunnersOK'
<1>1. CASE runner' = runner
  BY SMTT(20), <1>1, RunnersStay
<1>2. CASE runner' = [runner EXCEPT ![b] = Gone]
  BY Zenon, <1>2, GoneGood, RunnersMove
<1>3. CASE runner[b].st = "boot" /\ runner' = Bootstrapped(b, t)
  <2> DEFINE r == [runner[b] EXCEPT !.st = "prep", !.cur = t, !.seen = {t} \ {None}]
  <2>1. GoodRunner(runner[b]) /\ runner[b] \in Runner
    BY Zenon, RunnerOf
  <2>2. runner[b].req = NoReq
    BY SMTT(20), <1>3, <2>1 DEF GoodRunner
  <2>3. {t} \ {None} \in SUBSET Turns
    BY Zenon
  <2>4. r \in Runner /\ r.req = NoReq /\ r.st = "prep"
    BY Zenon, <2>1, <2>2, <2>3 DEF Runner
  <2>5. runner' = [runner EXCEPT ![b] = r]
    BY ZenonT(30), <1>3 DEF Bootstrapped
  <2> HIDE DEF r
  <2>6. GoodRunner(r)
    BY Zenon, <2>4 DEF GoodRunner
  <2> QED
    BY ZenonT(30), <2>5, <2>6, RunnersMove
<1> QED
  BY SMTT(20), <1>1, <1>2, <1>3 DEF Bootstrapped

LEMMA BootstrapUpdateStep ==
  ASSUME IInv, NEW h \in Procs, BootstrapUpdate(h)
  PROVE  IInv'
<1> DEFINE b == op[h].box
           t == op[h].turn
           s == Started(session, t)
<1>1. /\ b \in Sandboxes /\ t \in Delivered \cup {None}
      /\ GoodSession(session, Exists, Delivered)
  BY ZenonT(30), CallOf DEF IInv, SessionOK, BootstrapUpdate, At, GoodCall, RunnerCalls
<1>2. Delivered \subseteq Turns
  BY Zenon DEF Delivered
<1>3. GoodSession(s, Exists, Delivered) /\ s.sandbox = session.sandbox
  <2> HIDE DEF t
  <2> QED
    BY SMTT(20), <1>1, <1>2, BootstrapGood
<1>4. RunnersOK'
  <2>1. \/ runner' = runner \/ runner' = Bootstrapped(b, t)
        \/ runner' = [runner EXCEPT ![b] = Gone]
    <3>1. CASE \E lost \in Lost : runner' = IF lost THEN runner ELSE Bootstrapped(b, t)
      BY Zenon, <3>1 DEF Lost
    <3>2. CASE runner' = IF runner[b].st = "boot"
                         THEN [runner EXCEPT ![b] = Gone] ELSE runner
      BY Zenon, <3>2
    <3> QED
      BY ZenonT(30), <3>1, <3>2, Zenon DEF BootstrapUpdate
  <2>2. t \in Turns \cup {None}
    BY SMTT(20), <1>1, <1>2
  <2> HIDE DEF b, t
  <2> QED
    BY ZenonT(30), <1>1, <2>1, <2>2, BootstrappedGood DEF IInv
<1>5. CASE session.phase = "starting" /\ Return(h)
           /\ \E p \in {"running", "setup"} : Write(Enter(s, p))
  <2>1. session.sandbox \in Exists
    BY Zenon, <1>1, <1>5 DEF GoodSession, Placed
  <2>2. \A p \in {"running", "setup"} : GoodSession(Enter(s, p), Exists, Delivered)
    <3> HIDE DEF s
    <3> QED
      BY SMTT(20), <1>3, <2>1, EnterGood DEF Phase
  <2> HIDE DEF s
  <2> QED
    BY ZenonT(30), <1>4, <1>5, <2>2, WriteFrame DEF BootstrapUpdate, IInv
<1>6. CASE Forget(h) /\ UNCHANGED session
  BY ZenonT(30), <1>4, <1>6, ForgetFrame DEF BootstrapUpdate, IInv
<1> QED
  BY ZenonT(30), <1>5, <1>6 DEF BootstrapUpdate

(* The end of a setup, and a question. *)
LEMMA PhaseUpdateStep ==
  ASSUME IInv, NEW h \in Procs, FinishSetup(h) \/ EventsUpdate(h)
  PROVE  IInv'
<1>1. GoodSession(session, Exists, Delivered)
  BY Zenon DEF IInv, SessionOK
<1>2. CASE FinishSetup(h)
  <2>1. CASE session.phase = "setup"
    <3>1. GoodSession(Enter(session, "running"), Exists, Delivered)
      BY ZenonT(30), <1>1, <2>1, EnterGood DEF GoodSession, Phase, Placed
    <3> QED
      BY ZenonT(30), <1>2, <2>1, <3>1, WriteFrame, RunnersStay DEF FinishSetup, IInv
  <2>2. CASE session.phase # "setup"
    BY ZenonT(30), <1>2, <2>2, ForgetFrame, RunnersStay DEF FinishSetup, IInv
  <2> QED
    BY Zenon, <2>1, <2>2
<1>3. CASE EventsUpdate(h)
  <2>1. GoodSession(Enter(session, "awaitingUser"), Exists, Delivered)
    BY Zenon, <1>1, EnterGood DEF Phase, Placed
  <2> QED
    BY ZenonT(30), <1>3, <2>1, WriteFrame, ForgetFrame, RunnersStay DEF EventsUpdate, IInv
<1> QED
  BY <1>2, <1>3

(* A completion that looks again after a version conflict. *)
LEMMA AgainStep ==
  ASSUME IInv, NEW h \in Procs, op[h].kind = "complete",
         Read(h, [op[h] EXCEPT !.pc = "read"]), RunnersOK',
         UNCHANGED <<rows, inbox, recorded>>
  PROVE  IInv'
<1> DEFINE c == [op[h] EXCEPT !.pc = "read"]
           n == [c EXCEPT !.s = session]
<1>1. /\ GoodCall(op[h], Exists, Delivered, Known) /\ op[h] \in CallInFlight
      /\ GoodSession(session, Exists, Delivered) /\ session \in Session
  BY Zenon, CallOf DEF IInv, SessionOK, GoodSession
<1>2. /\ n \in CallInFlight /\ n.kind = "complete" /\ n.pc = "read"
      /\ n.turn = op[h].turn /\ n.box = op[h].box /\ n.s = session
      /\ n.rows = op[h].rows
  BY Zenon, <1>1 DEF CallInFlight
<1> HIDE DEF n
<1>3. GoodCall(n, Exists, Delivered, Known)
  BY Zenon, <1>1, <1>2 DEF GoodCall
<1>4. Read(h, c) /\ GoodCall([c EXCEPT !.s = session], Exists, Delivered, Known)
  BY Zenon, <1>3 DEF n
<1> HIDE DEF c
<1> QED
  BY <1>4, ReadFrame DEF IInv

LEMMA CompleteDecideStep ==
  ASSUME IInv, NEW h \in Procs, CompleteDecide(h)
  PROVE  IInv'
<1>1. /\ GoodCall(op[h], Exists, Delivered, Known) /\ op[h] \in CallInFlight
      /\ GoodSession(op[h].s, Exists, Delivered) /\ op[h].s \in Session
      /\ op[h].kind = "complete" /\ op[h].turn \in Turns /\ op[h].box \in Sandboxes
  BY ZenonT(30), CallOf DEF IInv, CompleteDecide, CompleteCommit, At, GoodCall, RunnerCalls
<1> DEFINE s    == op[h].s
           seen == IF op[h].rows = NoRows THEN rows ELSE op[h].rows
           d    == completeDecision(s, seen, op[h].turn, op[h].req)
           n    == [op[h] EXCEPT !.s = d.s, !.acts = d.acts, !.rows = seen,
                                 !.pc = "effects"]
<1>2. /\ seen \in [Sandboxes -> Row]
      /\ \A b \in Sandboxes : exists(seen[b]) => b \in Exists
  BY ZenonT(30), <1>1 DEF GoodCall, CallInFlight, IInv, RowsOK, Exists
<1> HIDE DEF seen, s, d, n
<1>3. /\ s \in Session /\ op[h].turn \in Turns
      /\ op[h].req.pushed \in BOOLEAN
  BY ZenonT(30), <1>1 DEF CallInFlight, Request, s
<1>4. /\ d.s \in Session /\ d.acts \subseteq Action /\ d.s.turn = None
      /\ d.s.phase \in Placed => s.phase \in Placed /\ d.s.sandbox = s.sandbox
  <2>1. TurnCompleted(s, op[h].turn, d)
    BY SMTT(20), <1>3, CompleteKeeps DEF d
  <2> QED
    BY Zenon, <2>1 DEF TurnCompleted
<1>5. op' = [op EXCEPT ![h] = n]
  BY ZenonT(30) DEF CompleteDecide, seen, s, d, n
<1>6. GoodSession(d.s, Exists, Delivered)
  BY Zenon, <1>1, <1>4 DEF GoodSession, s
<1>7. GoodCall(n, Exists, Delivered, Known)
  BY ZenonT(30), <1>1, <1>2, <1>4, <1>6, DecidedGood DEF Stages, n
<1> QED
  BY ZenonT(30), <1>5, <1>7, CallFrame, RunnersStay DEF CompleteDecide, IInv, FreshOK

LEMMA CompleteCommitStep ==
  ASSUME IInv, NEW h \in Procs, CompleteCommit(h)
  PROVE  IInv'
<1>1. /\ GoodCall(op[h], Exists, Delivered, Known) /\ op[h] \in CallInFlight
      /\ GoodSession(op[h].s, Exists, Delivered) /\ op[h].s \in Session
      /\ op[h].kind = "complete" /\ op[h].turn \in Turns /\ op[h].box \in Sandboxes
  BY ZenonT(30), CallOf DEF IInv, CompleteDecide, CompleteCommit, At, GoodCall, RunnerCalls
<1>2. UNCHANGED <<rows, inbox, recorded>>
  BY Zenon DEF CompleteCommit
<1>3. CASE Answered(op[h].box, op[h].turn) \/ Refused(op[h].box, op[h].turn)
  <2>1. RunnersOK'
    BY ZenonT(30), <1>1, <1>3, AnsweredGood DEF IInv
  <2>2. CASE Write(op[h].s) /\ Return(h)
    BY ZenonT(30), <1>1, <1>2, <2>1, <2>2, WriteFrame DEF IInv
  <2>3. CASE Forget(h) /\ UNCHANGED session
    BY ZenonT(30), <1>2, <2>1, <2>3, ForgetFrame DEF IInv
  <2>4. CASE Read(h, [op[h] EXCEPT !.pc = "read"])
    BY ZenonT(30), <1>1, <1>2, <2>1, <2>4, AgainStep DEF IInv
  <2> QED
    BY <2>2, <2>3, <2>4 DEF CompleteCommit
<1>4. CASE Read(h, [op[h] EXCEPT !.pc = "read"]) /\ UNCHANGED runner
  BY ZenonT(30), <1>1, <1>2, <1>4, AgainStep, RunnersStay DEF IInv
<1> QED
  BY SMTT(20), <1>3, <1>4 DEF CompleteCommit

(* The session that an inbox call writes. *)
LEMMA DeliverGood ==
  ASSUME NEW s, NEW E, NEW D, GoodSession(s, E, D), NEW t \in D, D \subseteq Turns,
         s.sandbox \in E
  PROVE  GoodSession(Deliver(s, t), E, D)
<1> DEFINE u == IF s.turn = None THEN t ELSE s.turn
           c == [s EXCEPT !.turn = u]
<1>1. s \in Session /\ u \in D \cup {None}
  BY Zenon DEF GoodSession
<1>2. u \in Turns \cup {None}
  BY Zenon, <1>1
<1>3. Deliver(s, t) \in {c, Enter(c, "running")}
  BY Zenon DEF Deliver
<1> HIDE DEF u
<1>4. c \in Session /\ c.phase = s.phase /\ c.sandbox = s.sandbox /\ c.turn = u
  BY SMTT(20), <1>1, <1>2 DEF Session
<1> HIDE DEF c
<1>5. GoodSession(c, E, D)
  BY Zenon, <1>1, <1>4 DEF GoodSession
<1>6. GoodSession(Enter(c, "running"), E, D)
  BY ZenonT(30), <1>4, <1>5, EnterGood DEF Phase
<1> QED
  BY <1>3, <1>5, <1>6

LEMMA HandledGood ==
  ASSUME IInv, NEW b \in Sandboxes, NEW t \in Known,
         \/ runner' = runner \/ runner' = HandleStops(b)
         \/ Up(b) /\ runner' = HandleTurn(b, t)
  PROVE  RunnersOK'
<1>1. RunnersOK
  BY Zenon DEF IInv
<1>2. CASE runner' = runner
  BY ZenonT(30), <1>1, <1>2, RunnersStay
<1>3. CASE runner' = [runner EXCEPT ![b] = requestStop(b)]
  BY Zenon, <1>1, <1>3, RequestStopGood, RunnersMove
<1>4. CASE Up(b) /\ runner' = HandleTurn(b, t)
  <2> DEFINE i == SeqOf(t)
             q == IF t \in runner[b].seen \/ runner[b].stop
                  THEN runner[b].queue ELSE Append(runner[b].queue, t)
             v == runner[b].seen \cup {t}
             r == [runner[b] EXCEPT !.after = i, !.seen = v, !.queue = q]
  <2>1. GoodRunner(runner[b]) /\ runner[b] \in Runner /\ Up(b)
    BY ZenonT(30), <1>1, <1>4, RunnerOf
  <2>2. i \in DOMAIN inbox
    BY Zenon DEF Known, InInbox, SeqOf
  <2>3. i \in Nat
    <3> HIDE DEF i
    <3> QED
      BY ZenonT(30), <2>2, InboxItem DEF IInv
  <2>4. t \in Turns
    BY Zenon DEF Known
  <2>5. q \in Seq(Turns) /\ v \in SUBSET Turns
    BY SMTT(20), <2>1, <2>4 DEF Runner
  <2>6. runner' = [runner EXCEPT ![b] = r]
    BY Zenon, <1>4 DEF HandleTurn
  <2> HIDE DEF i, q, v
  <2>7. r \in Runner /\ r.st = runner[b].st /\ r.req = runner[b].req /\ r.cur = runner[b].cur
    BY ZenonT(30), <2>1, <2>3, <2>5 DEF Runner
  <2> HIDE DEF r
  <2>8. GoodRunner(r)
    BY ZenonT(30), <2>1, <2>7 DEF GoodRunner
  <2> QED
    BY ZenonT(30), <1>1, <2>6, <2>8, RunnersMove
<1> QED
  BY <1>2, <1>3, <1>4 DEF HandleStops

LEMMA InboxPickStep ==
  ASSUME IInv, NEW h \in Procs, InboxPick(h)
  PROVE  IInv'
<1> DEFINE b == op[h].box
<1>1. /\ GoodCall(op[h], Exists, Delivered, Known) /\ op[h] \in CallInFlight
      /\ op[h].kind = "inbox" /\ b \in Sandboxes /\ op[h].s.sandbox \in Exists
  BY ZenonT(30), CallOf DEF IInv, InboxPick, At, GoodCall, RunnerCalls
<1> DEFINE s     == op[h].s
           turns == IF acceptTurn(s) /\ ~s.stop THEN NextTurns(b) ELSE {}
<1>2. ASSUME NEW i \in Oldest(turns), Pick(h, i), UNCHANGED <<runner, fresh>>
      PROVE  IInv'
  <2>1. i \in UndeliveredCodingInbox
    BY Zenon DEF Oldest, NextTurns
  <2> QED
    BY ZenonT(30), <1>1, <1>2, <2>1, PickStep DEF InboxPick
<1>3. CASE runner' = HandleStops(b) /\ Forget(h) /\ UNCHANGED inbox
  <2>1. RunnersOK'
    <3>1. CASE runner' = runner
      BY SMTT(20), <3>1, RunnersStay DEF IInv
    <3>2. CASE runner' = [runner EXCEPT ![b] = requestStop(b)]
      <4> HIDE DEF b
      <4> QED
        BY ZenonT(30), <1>1, <3>2, RequestStopGood, RunnersMove DEF IInv
    <3> QED
      BY <1>3, <3>1, <3>2 DEF HandleStops
  <2> QED
    BY ZenonT(30), <1>3, <2>1, ForgetFrame DEF InboxPick, IInv
<1> QED
  BY ZenonT(30), <1>2, <1>3 DEF InboxPick

LEMMA InboxUpdateStep ==
  ASSUME IInv, NEW h \in Procs, InboxUpdate(h)
  PROVE  IInv'
<1> DEFINE b == op[h].box
           t == op[h].turn
<1>1. /\ GoodCall(op[h], Exists, Delivered, Known) /\ op[h] \in CallInFlight
      /\ op[h].kind = "inbox" /\ b \in Sandboxes /\ op[h].s.sandbox \in Exists
  BY ZenonT(30), CallOf DEF IInv, InboxUpdate, At, GoodCall, RunnerCalls
<1>2. t \in Delivered /\ Delivered \subseteq Turns /\ Delivered \subseteq Known
  BY ZenonT(30), <1>1 DEF InboxUpdate, At, GoodCall, Delivered, Known, InInbox
<1>3. GoodSession(session, Exists, Delivered)
  BY Zenon DEF IInv, SessionOK
<1>4. RunnersOK'
  <2>1. \/ runner' = runner \/ runner' = HandleStops(b)
        \/ Up(b) /\ runner' = HandleTurn(b, t)
    <3>1. CASE \E lost \in Lost :
                 runner' = IF lost \/ ~Up(b) THEN runner
                           ELSE IF StopsFor(b) # {} THEN HandleStops(b)
                           ELSE HandleTurn(b, t)
      BY Zenon, <3>1 DEF Lost
    <3> QED
      BY ZenonT(30), <3>1, Zenon DEF InboxUpdate
  <2> HIDE DEF b, t
  <2> QED
    BY ZenonT(30), <1>1, <1>2, <2>1, HandledGood
<1>5. CASE session.sandbox = op[h].s.sandbox /\ Write(Deliver(session, t)) /\ Return(h)
  <2> HIDE DEF t
  <2>1. GoodSession(Deliver(session, t), Exists, Delivered)
    BY ZenonT(30), <1>1, <1>2, <1>3, <1>5, DeliverGood
  <2> QED
    BY ZenonT(30), <1>4, <1>5, <2>1, WriteFrame DEF InboxUpdate, IInv
<1>6. CASE Forget(h) /\ UNCHANGED session
  BY ZenonT(30), <1>4, <1>6, ForgetFrame DEF InboxUpdate, IInv
<1> QED
  BY <1>5, <1>6, Zenon DEF InboxUpdate

LEMMA HandlerStep ==
  ASSUME IInv, NEW h \in Handlers, HandlerNext(h)
  PROVE  IInv'
<1>1. h \in Procs
  BY Zenon DEF Procs
<1> QED
  BY ZenonT(30), <1>1, BootstrapStep, BootstrapPickStep, MarkStep, BootstrapUpdateStep,
     CompleteTurnStep, CompleteDecideStep, CompleteCommitStep,
     RunSandboxActionsStep, HeartbeatStep, EventsStep, PhaseUpdateStep,
     InboxCallStep, InboxPickStep, InboxUpdateStep
     DEF HandlerNext

-----------------------------------------------------------------------------
(* IInv is inductive. *)

LEMMA InitIInv == Init => IInv
<1> SUFFICES ASSUME Init PROVE IInv
  BY Zenon
<1>1. GoodSession(session, Exists, Delivered)
  <2>1. GoodSession(NewSession, Exists, Delivered)
    BY SMTT(20), NewSessionGood
  <2>2. GoodSession(Enter(NewSession, "awaitingApproval"), Exists, Delivered)
    BY Zenon, <2>1, EnterGood DEF Phase, Placed
  <2> QED
    BY <2>1, <2>2 DEF Init, Starts
<1>2. RowsOK
  <2>1. NoRow \in Row /\ NoRow.token # "valid"
    BY Zenon, NoRowsType DEF NoRow
  <2>2. rows = [b \in Sandboxes |-> NoRow]
    BY Zenon DEF Init, NoRows
  <2> QED
    BY Zenon, <2>1, <2>2 DEF RowsOK, GoodRow
<1>3. InboxOK
  <2>1. PICK t \in Turns : inbox = <<TurnItem(t, FALSE)>>
    BY Zenon DEF Init
  <2> DEFINE x == TurnItem(t, FALSE)
  <2>2. x \in Item /\ inbox = <<x>>
    BY ZenonT(30), <2>1, ItemType
  <2> HIDE DEF x
  <2> QED
    BY <2>2 DEF InboxOK
<1>4. RunnersOK
  BY Zenon, GoneGood DEF Init, RunnersOK, GoodRunner
<1>5. CallsOK
  BY SMTT(20), NoOpType, NoOpGood DEF Init, CallsOK
<1> QED
  BY Zenon, <1>1, <1>2, <1>3, <1>4, <1>5 DEF IInv, Init, SessionOK, FreshOK

LEMMA NextIInv == IInv /\ [Next]_vars => IInv'
<1> SUFFICES ASSUME IInv, [Next]_vars PROVE IInv'
  BY Zenon
<1>1. CASE ReconcilerNext
  BY <1>1, ReconcilerStep
<1>2. CASE ServiceNext
  BY <1>2, ServiceStep
<1>3. CASE RuntimeNext
  BY SMTT(20), <1>3, HandlerStep, RunnerStep DEF RuntimeNext
<1>4. CASE \E p \in Procs : Crash(p)
  BY SMTT(20), <1>4, CrashStep
<1>5. CASE UNCHANGED vars
  <2>1. UNCHANGED <<session, rows, inbox, recorded, runner, op, fresh>>
    BY Zenon, <1>5 DEF vars
  <2>2. SessionOK' /\ CallsOK'
    BY ZenonT(30), <2>1, SameWorld, SessionStays, CallsStay DEF IInv
  <2> QED
    BY ZenonT(30), <2>1, <2>2, RunnersStay DEF IInv, RowsOK, InboxOK, FreshOK
<1> QED
  BY ZenonT(30), <1>1, <1>2, <1>3, <1>4, <1>5 DEF Next

(* The inductive invariant holds in every behaviour: with any number of    *)
(* reconcilers, handlers, sandboxes and turns, every session that is       *)
(* stored or held by a call in flight names an existing sandbox row while  *)
(* it is placed and only a delivered turn.                                 *)
THEOREM Invariant == Spec => []IInv
<1> QED
  BY InitIInv, NextIInv, PTL DEF Spec

(* Every variable keeps its type: no interleaving of passes, runner calls, *)
(* retries and crashes starts a session more than StartRetries times       *)
(* (startFailed, BootstrapUpdate) or makes a document of another shape.    *)
THEOREM TypeCorrect == Spec => []TypeOK
<1>1. IInv => TypeOK
  BY ZenonT(30) DEF IInv, TypeOK, RowsOK, InboxOK, RunnersOK, SessionOK, CallsOK, FreshOK,
         GoodSession
<1> QED
  BY <1>1, Invariant, PTL

(* A session that starts, prepares or runs names a sandbox row that        *)
(* exists, although provision creates the row before the pass writes the   *)
(* session, and the write may be lost or come from a stale copy.           *)
THEOREM SandboxAlwaysNamed == Spec => []SandboxNamed
<1>1. IInv => SandboxNamed
  BY Zenon DEF IInv, SessionOK, GoodSession, SandboxNamed, Placed, Exists
<1> QED
  BY <1>1, Invariant, PTL

(* The current turn carries its delivered stamp, whichever bootstrap or    *)
(* inbox call, retried or crashed, made it current.                        *)
THEOREM CurrentTurnAlwaysDelivered == Spec => []CurrentTurnDelivered
<1>1. IInv => CurrentTurnDelivered
  BY Zenon DEF IInv, SessionOK, GoodSession, CurrentTurnDelivered, Delivered
<1> QED
  BY <1>1, Invariant, PTL


-----------------------------------------------------------------------------
(* Stale copies.  Two action properties, a stop request is kept and the    *)
(* last completed turn was the current one, rest on the version CAS.  The  *)
(* copy of a call may hold what the call decided, but as long as the copy  *)
(* is fresh the decision agrees with the document on what matters here: it *)
(* has the stop request if the document has it, and its last turn is the   *)
(* document's one, or, for a completion, the current turn of the document. *)
(* A write makes every copy stale, and a stale copy is not written.        *)

(* Frames: what a step does to the document, the calls and the versions.   *)

LEMMA StillKept ==
  ASSUME FreshTracks, UNCHANGED <<session, op, fresh>>
  PROVE  StepKeeps
BY Zenon DEF FreshTracks, StepKeeps, Keeps

LEMMA CallKept ==
  ASSUME IInv, FreshTracks, NEW p \in Procs, NEW c, NEW f,
         op' = [op EXCEPT ![p] = c], fresh' = [fresh EXCEPT ![p] = f],
         session' = session, f => DecidedFrom(c, session)
  PROVE  StepKeeps
<1>1. \A q \in Procs : q # p => op'[q] = op[q] /\ fresh'[q] = fresh[q]
  BY Zenon DEF IInv, CallsOK, FreshOK
<1>2. op'[p] = c /\ fresh'[p] = f
  BY Zenon DEF IInv, CallsOK, FreshOK
<1>3. \A q \in Procs : fresh'[q] => DecidedFrom(op'[q], session')
  BY <1>1, <1>2 DEF FreshTracks
<1> QED
  BY <1>3 DEF FreshTracks, StepKeeps, Keeps

LEMMA WriteKept ==
  ASSUME NEW s, Write(s), Keeps(session, s)
  PROVE  StepKeeps
BY Zenon DEF Write, FreshTracks, StepKeeps

LEMMA ForgetKept ==
  ASSUME IInv, FreshTracks, NEW p \in Procs, Forget(p), session' = session
  PROVE  StepKeeps
BY Zenon, CallKept DEF Forget, Return

LEMMA ReadKept ==
  ASSUME IInv, FreshTracks, NEW p \in Procs, NEW c \in CallInFlight, Read(p, c),
         c.pc # "idle", c.kind \in CopyingCalls,
         c.kind = "complete" => c.turn = session.turn
  PROVE  StepKeeps
<1> DEFINE n == [c EXCEPT !.s = session]
<1>1. n.pc = c.pc /\ n.kind = c.kind /\ n.turn = c.turn /\ n.s = session
  BY Zenon DEF CallInFlight
<1> HIDE DEF n
<1>2. DecidedFrom(n, session)
  BY Zenon, <1>1 DEF DecidedFrom
<1>3. op' = [op EXCEPT ![p] = n] /\ fresh' = [fresh EXCEPT ![p] = TRUE] /\ session' = session
  BY Zenon DEF Read, n
<1> QED
  BY Zenon, <1>2, <1>3, CallKept

(* A call without a fresh copy goes on. *)
LEMMA StaleKept ==
  ASSUME IInv, FreshTracks, NEW p \in Procs, NEW c, ~fresh[p],
         op' = [op EXCEPT ![p] = c], UNCHANGED <<session, fresh>>
  PROVE  StepKeeps
<1>1. fresh' = [fresh EXCEPT ![p] = FALSE]
  BY Zenon DEF IInv, FreshOK
<1> QED
  BY Zenon, <1>1, CallKept

(* A call with a copy goes on: it keeps a stop request and the last turn,  *)
(* or completes its turn.                                                  *)
GoesOn(c, n) ==
  /\ n.pc # "idle" /\ n.kind = c.kind
  /\ c.kind = "complete" => n.turn = c.turn
  /\ c.s.stop => n.s.stop
  /\ n.s.last = c.s.last \/ (c.kind = "complete" /\ n.s.last = n.turn)

LEMMA MovedKept ==
  ASSUME IInv, FreshTracks, NEW p \in Procs, NEW n, GoesOn(op[p], n),
         op' = [op EXCEPT ![p] = n], UNCHANGED <<session, fresh>>
  PROVE  StepKeeps
<1>1. fresh' = [fresh EXCEPT ![p] = fresh[p]]
  BY Zenon DEF IInv, FreshOK
<1>2. fresh[p] => DecidedFrom(n, session)
  BY Zenon DEF FreshTracks, DecidedFrom, GoesOn
<1> QED
  BY Zenon, <1>1, <1>2, CallKept

(* Only the stage of the call changes. *)
LEMMA StageKept ==
  ASSUME IInv, FreshTracks, NEW p \in Procs, NEW pc, Goto(p, pc), pc # "idle",
         UNCHANGED <<session, fresh>>
  PROVE  StepKeeps
<1> DEFINE n == [op[p] EXCEPT !.pc = pc]
<1>1. op[p] \in CallInFlight
  BY Zenon DEF IInv, CallsOK
<1>2. GoesOn(op[p], n)
  BY Zenon, <1>1 DEF CallInFlight, GoesOn
<1>3. op' = [op EXCEPT ![p] = n]
  BY Zenon DEF Goto
<1> HIDE DEF n
<1> QED
  BY Zenon, <1>2, <1>3, MovedKept

LEMMA EffectsKept ==
  ASSUME IInv, FreshTracks, NEW p \in Procs, RunSandboxActions(p)
  PROVE  StepKeeps
<1> DEFINE n == [op[p] EXCEPT !.pc = "commit", !.acts = {}]
<1>1. op[p] \in CallInFlight
  BY Zenon DEF IInv, CallsOK
<1>2. GoesOn(op[p], n)
  BY Zenon, <1>1 DEF CallInFlight, GoesOn
<1>3. op' = [op EXCEPT ![p] = n] /\ UNCHANGED <<session, fresh>>
  BY Zenon DEF RunSandboxActions
<1> HIDE DEF n
<1> QED
  BY Zenon, <1>2, <1>3, MovedKept

(* The call that a decision leaves. *)
LEMMA DecisionGoesOn ==
  ASSUME NEW c \in CallInFlight, NEW s, NEW acts, NEW seen, NEW pc, pc # "idle",
         c.s.stop => s.stop,
         s.last = c.s.last \/ (c.kind = "complete" /\ s.last = c.turn)
  PROVE  GoesOn(c, [c EXCEPT !.s = s, !.acts = acts, !.rows = seen, !.pc = pc])
BY Zenon DEF GoesOn, CallInFlight

LEMMA NextStageMoves == \A acts : NextStage(acts) # "idle"
BY Zenon DEF NextStage

-----------------------------------------------------------------------------
(* The reconciler. *)

LEMMA LeaseKept ==
  ASSUME IInv, FreshTracks, NEW r \in Procs, Lease(r)
  PROVE  StepKeeps
<1> DEFINE c == [NoOp EXCEPT !.kind = "reconcile", !.pc = "read"]
<1>1. c \in CallInFlight /\ c.kind = "reconcile" /\ c.pc = "read"
  BY Zenon, NoOpType DEF CallInFlight, NoOp
<1>2. Read(r, c)
  BY Zenon DEF Lease
<1> HIDE DEF c
<1> QED
  BY <1>1, <1>2, ReadKept DEF CopyingCalls

LEMMA StepOnceKept ==
  ASSUME IInv, FreshTracks, NEW r \in Procs, NEW fact, StepOnce(r, fact)
  PROVE  StepKeeps
<1> DEFINE d    == Step(op[r].s, Observe(op[r].s, fact))
           seen == IF {Provision, Publish} \cap d.acts # {} THEN rows ELSE NoRows
           n    == [op[r] EXCEPT !.s = d.s, !.acts = d.acts, !.rows = seen,
                                 !.pc = NextStage(d.acts)]
<1>1. Follows(op[r].s, d)
  BY SMTT(20), CallHeld, StepFollows
<1>2. Forget(r) \/ (op' = [op EXCEPT ![r] = n] /\ UNCHANGED fresh)
  BY ZenonT(30) DEF StepOnce
<1>3. session' = session
  BY ZenonT(30) DEF StepOnce
<1> HIDE DEF d, seen
<1>4. GoesOn(op[r], n)
  BY ZenonT(30), <1>1, CallHeld, NextStageMoves, DecisionGoesOn DEF Follows
<1> HIDE DEF n
<1> QED
  BY ZenonT(30), <1>2, <1>3, <1>4, ForgetKept, MovedKept

LEMMA DecidedKept ==
  ASSUME IInv, FreshTracks, NEW r \in Procs, NEW d, Decided(r, d),
         op[r].s.stop => d.s.stop, d.s.last = op[r].s.last,
         UNCHANGED <<session, fresh>>
  PROVE  StepKeeps
<1> DEFINE n == [op[r] EXCEPT !.s = d.s, !.acts = d.acts, !.rows = NoRows,
                              !.pc = NextStage(d.acts)]
<1>1. op' = [op EXCEPT ![r] = n]
  BY ZenonT(30) DEF Decided
<1>2. GoesOn(op[r], n)
  BY Zenon, CallHeld, NextStageMoves, DecisionGoesOn
<1> HIDE DEF n
<1> QED
  BY Zenon, <1>1, <1>2, MovedKept

LEMMA ProvisionKept ==
  ASSUME IInv, FreshTracks, NEW r \in Procs, provision(r)
  PROVE  StepKeeps
<1> DEFINE s    == op[r].s
           acts == op[r].acts \ {Provision}
           seen == op[r].rows
<1>1. PICK outcome \in ProvisionOutcome(s, seen), restored \in Restorable(s) :
        Decided(r, AfterProvision(s, acts, seen, outcome, restored))
  BY Zenon DEF provision
<1>2. outcome.kind = "sandbox" => outcome.box \in Sandboxes
  <2>1. \A b \in Sandboxes : exists(seen[b]) => b \in Exists
    BY Zenon DEF IInv, CallsOK, GoodCall
  <2> QED
    BY Zenon, <2>1, OutcomeNamed
<1>3. restored \in BOOLEAN /\ acts \in SUBSET Action /\ s \in Session
  BY ZenonT(30), CallHeld DEF Restorable, CallInFlight
<1>4. Provisioned(s, AfterProvision(s, acts, seen, outcome, restored), outcome)
  BY <1>2, <1>3, AfterProvisionKeeps
<1>5. UNCHANGED <<session, fresh>>
  BY Zenon DEF provision
<1> QED
  BY ZenonT(30), <1>1, <1>4, <1>5, DecidedKept DEF Provisioned, Follows

LEMMA PublishKept ==
  ASSUME IInv, FreshTracks, NEW r \in Procs, publish(r)
  PROVE  StepKeeps
<1>1. PICK outcome : Decided(r, AfterPublish(op[r].s, op[r].rows, outcome))
  BY Zenon DEF publish
<1>2. Follows(op[r].s, AfterPublish(op[r].s, op[r].rows, outcome))
  BY SMTT(20), CallHeld, AfterPublishFollows
<1>3. UNCHANGED <<session, fresh>>
  BY Zenon DEF publish
<1> QED
  BY ZenonT(30), <1>1, <1>2, <1>3, DecidedKept DEF Follows

(* A fresh copy may be written. *)
LEMMA CopyKeeps ==
  ASSUME FreshTracks, NEW p \in Procs, fresh[p]
  PROVE  Keeps(session, op[p].s)
BY Zenon DEF FreshTracks, DecidedFrom, Keeps

LEMMA CommitPassKept ==
  ASSUME IInv, FreshTracks, NEW r \in Procs, CommitPass(r)
  PROVE  StepKeeps
BY ZenonT(30), CopyKeeps, WriteKept, ForgetKept DEF CommitPass

-----------------------------------------------------------------------------
(* People, triggers and metering. *)

(* A write on the current document that keeps the stop request and the     *)
(* last turn. *)
LEMMA KeepsBoth ==
  ASSUME NEW s, NEW n, s.stop => n.stop \/ Released(s), n.last = s.last
  PROVE  Keeps(s, n)
BY Zenon DEF Keeps

LEMMA EnterKept ==
  ASSUME NEW s \in Session, NEW p \in Phase
  PROVE  Keeps(s, Enter(s, p))
BY SMTT(20), EnterKeeps, KeepsBoth

LEMMA ArchiveKeeps ==
  ASSUME NEW s \in Session
  PROVE  Keeps(s, archive(s)) /\ Keeps(s, EndIdle(s))
<1>1. /\ archive(s).stop = s.stop \/ archive(s).stop = TRUE
      /\ archive(s).last = s.last
  BY DEF archive, EndIdle, Session
<1>2. EndIdle(s).stop = s.stop /\ EndIdle(s).last = s.last
  BY Zenon DEF EndIdle, Session
<1> QED
  BY Zenon, <1>1, <1>2, KeepsBoth

LEMMA StopSessionKept ==
  ASSUME IInv, StopSession
  PROVE  StepKeeps
<1> DEFINE n == [session EXCEPT !.stop = TRUE]
<1>1. n.stop = TRUE /\ n.last = session.last
  BY Zenon DEF IInv, SessionOK, GoodSession, Session
<1>2. Write(n)
  BY Zenon DEF StopSession
<1> HIDE DEF n
<1> QED
  BY ZenonT(30), <1>1, <1>2, KeepsBoth, WriteKept

LEMMA ApproveKept ==
  ASSUME IInv, NEW reject, Approve(reject)
  PROVE  StepKeeps
<1> DEFINE c == [session EXCEPT !.rejected = TRUE]
<1>1. session \in Session /\ c \in Session /\ c.stop = session.stop
      /\ c.last = session.last
  BY ZenonT(30) DEF IInv, SessionOK, GoodSession, Session
<1>2. Write(Enter(c, "done")) \/ Write(Enter(session, "queued"))
  BY Zenon DEF Approve
<1> HIDE DEF c
<1>3. Keeps(session, Enter(c, "done")) /\ Keeps(session, Enter(session, "queued"))
  <2>1. "done" \in Phase /\ "queued" \in Phase
    BY Zenon DEF Phase
  <2>2. /\ Enter(c, "done").stop = c.stop /\ Enter(c, "done").last = c.last
        /\ Enter(session, "queued").stop = session.stop /\ Enter(session, "queued").last = session.last
    BY Zenon, <1>1, <2>1, EnterKeeps
  <2> QED
    BY Zenon, <1>1, <2>2 DEF Keeps
<1> QED
  BY ZenonT(30), <1>2, <1>3, WriteKept

LEMMA ArchiveKept ==
  ASSUME IInv, Archive \/ dispatchPullRequest
  PROVE  StepKeeps
<1>1. session \in Session
  BY Zenon DEF IInv, SessionOK, GoodSession
<1>2. /\ Keeps(session, archive(session)) /\ Keeps(session, EndIdle(session))
      /\ Keeps(session, session)
  BY ZenonT(30), <1>1, ArchiveKeeps, KeepsBoth
<1>3. \/ Write(archive(session)) \/ Write(session) \/ Write(EndIdle(session))
  BY Zenon DEF Archive, dispatchPullRequest
<1> QED
  BY Zenon, <1>2, <1>3, WriteKept

(* resetForTurn is written for a released session only. *)
LEMMA ResetKept ==
  ASSUME NEW s \in Session, NEW rec, Released(s)
  PROVE  Keeps(s, resetForTurn(s, rec))
BY SMTT(20), ResetKeeps, KeepsBoth

LEMMA PromptKept ==
  ASSUME IInv, FreshTracks, NEW h \in Procs,
         \/ \E t \in Turns : Prompt(h, t) \/ Restart(h, t)
         \/ Answer(h) \/ CreatePullRequest(h) \/ PromptEnqueue(h)
  PROVE  StepKeeps
<1>1. /\ \E c : op' = [op EXCEPT ![h] = c]
      /\ UNCHANGED <<session, fresh>>
  BY ZenonT(30) DEF Prompt, Restart, Answer, CreatePullRequest, PromptEnqueue, Return
<1>2. ~fresh[h]
  BY ZenonT(30), NotCopied DEF Prompt, Restart, Answer, CreatePullRequest, PromptEnqueue, At,
                   CopyingCalls
<1> QED
  BY Zenon, <1>1, <1>2, StaleKept

LEMMA PromptUpdateKept ==
  ASSUME IInv, FreshTracks, NEW h \in Procs, PromptUpdate(h) \/ RestartUpdate(h)
  PROVE  StepKeeps
<1>1. session \in Session
  BY Zenon, CallHeld
<1>2. \/ Write(session)
      \/ Released(session) /\ Write(resetForTurn(session, op[h].rec))
      \/ Forget(h) /\ session' = session
  BY Zenon DEF PromptUpdate, RestartUpdate, Released
<1>3. Keeps(session, session)
  BY Zenon DEF Keeps
<1> QED
  BY ZenonT(30), <1>1, <1>2, <1>3, ResetKept, WriteKept, ForgetKept

LEMMA AnswerUpdateKept ==
  ASSUME IInv, FreshTracks, NEW h \in Procs, AnswerUpdate(h)
  PROVE  StepKeeps
<1> DEFINE c == [session EXCEPT !.env = TRUE]
<1>1. session \in Session /\ c \in Session /\ c.stop = session.stop
      /\ c.last = session.last
  BY Zenon DEF IInv, SessionOK, GoodSession, Session
<1>2. Write(Enter(c, "queued")) \/ (Forget(h) /\ session' = session)
  BY Zenon DEF AnswerUpdate
<1> HIDE DEF c
<1>3. Keeps(session, Enter(c, "queued"))
  BY <1>1, EnterKeeps, KeepsBoth DEF Phase
<1> QED
  BY ZenonT(30), <1>2, <1>3, WriteKept, ForgetKept

LEMMA CreatePullRequestUpdateKept ==
  ASSUME IInv, NEW h \in Procs, CreatePullRequestUpdate(h)
  PROVE  StepKeeps
<1> DEFINE c == [session EXCEPT !.pr = TRUE]
           e == [c EXCEPT !.error = "", !.state = TerminalState("", c.stop)]
<1>1. /\ c.stop = session.stop /\ c.last = session.last
      /\ e.stop = session.stop /\ e.last = session.last
  BY DEF IInv, SessionOK, GoodSession, Session
<1>2. Write(c) \/ Write(e)
  BY Zenon DEF CreatePullRequestUpdate
<1> HIDE DEF c, e
<1> QED
  BY Zenon, <1>1, <1>2, KeepsBoth, WriteKept

(* StartOver and FailSession, which decide on a copy. *)
LEMMA CopyingCallKept ==
  ASSUME IInv, FreshTracks, NEW h \in Procs,
         (\E t \in Turns : StartOver(h, t)) \/ FailSession(h)
  PROVE  StepKeeps
<1>1. CASE FailSession(h)
  <2> DEFINE c == [NoOp EXCEPT !.kind = "fail", !.pc = "read"]
  <2>1. c \in CallInFlight /\ c.kind = "fail" /\ c.pc = "read"
    BY ZenonT(30), NoOpType DEF CallInFlight, NoOp
  <2>2. Read(h, c)
    BY <1>1 DEF FailSession
  <2> HIDE DEF c
  <2> QED
    BY ZenonT(30), <2>1, <2>2, ReadKept DEF CopyingCalls
<1>2. ASSUME NEW t \in Turns, StartOver(h, t) PROVE StepKeeps
  <2> DEFINE pc == IF session.phase = "idle" THEN "finish" ELSE "enqueue"
             c  == [NoOp EXCEPT !.kind = "restart", !.turn = t, !.pc = pc]
  <2>1. pc \in {"finish", "enqueue"}
    BY Zenon
  <2>2. Read(h, c)
    BY Zenon, <1>2 DEF StartOver
  <2> HIDE DEF pc
  <2>3. c \in CallInFlight /\ c.kind = "restart" /\ c.pc = pc
    BY Zenon, <2>1, NoOpType DEF CallInFlight, NoOp
  <2> HIDE DEF c
  <2> QED
    BY ZenonT(30), <2>1, <2>2, <2>3, ReadKept DEF CopyingCalls
<1> QED
  BY <1>1, <1>2

LEMMA EndDecidedKept ==
  ASSUME IInv, FreshTracks, NEW h \in Procs, StartOverFinish(h) \/ FailDecide(h)
  PROVE  StepKeeps
<1>1. PICK d \in {finish(op[h].s, {}, rows), Fail(op[h].s, {}, rows, "failed")} :
        op' = [op EXCEPT ![h] = [op[h] EXCEPT !.s = d.s, !.acts = d.acts,
                                              !.pc = "effects"]]
  BY ZenonT(30) DEF StartOverFinish, FailDecide
<1>2. Follows(op[h].s, d)
  BY Zenon, <1>1, CallHeld, FinishFollows, FailFollows DEF ErrorCode
<1>3. UNCHANGED <<session, fresh>>
  BY Zenon DEF StartOverFinish, FailDecide
<1> DEFINE n == [op[h] EXCEPT !.s = d.s, !.acts = d.acts, !.pc = "effects"]
<1>4. GoesOn(op[h], n)
  BY SMTT(20), <1>2, CallHeld DEF Follows, GoesOn, CallInFlight
<1> HIDE DEF n
<1> QED
  BY ZenonT(30), <1>1, <1>3, <1>4, MovedKept DEF n

LEMMA StartOverCommitKept ==
  ASSUME IInv, FreshTracks, NEW h \in Procs, StartOverCommit(h)
  PROVE  StepKeeps
BY Zenon, CopyKeeps, WriteKept, ForgetKept DEF StartOverCommit

LEMMA RestartEnqueueKept ==
  ASSUME IInv, FreshTracks, NEW h \in Procs, RestartEnqueue(h)
  PROVE  StepKeeps
<1> DEFINE n == [op[h] EXCEPT !.pc = "update", !.rec = recorded]
<1>1. GoesOn(op[h], n)
  BY Zenon, CallHeld DEF GoesOn, CallInFlight
<1>2. op' = [op EXCEPT ![h] = n] /\ UNCHANGED <<session, fresh>>
  BY ZenonT(30) DEF RestartEnqueue
<1> HIDE DEF n
<1> QED
  BY Zenon, <1>1, <1>2, MovedKept

LEMMA FailCommitKept ==
  ASSUME IInv, FreshTracks, NEW h \in Procs, FailCommit(h)
  PROVE  StepKeeps
<1> DEFINE c == [NoOp EXCEPT !.kind = "fail", !.pc = "read"]
<1>1. c \in CallInFlight /\ c.kind = "fail" /\ c.pc = "read"
  BY ZenonT(30), NoOpType DEF CallInFlight, NoOp
<1>2. \/ fresh[h] /\ Write(op[h].s)
      \/ Forget(h) /\ session' = session
      \/ Read(h, c)
  BY Zenon DEF FailCommit
<1> HIDE DEF c
<1> QED
  BY ZenonT(30), <1>1, <1>2, CopyKeeps, WriteKept, ForgetKept, ReadKept DEF CopyingCalls

LEMMA ServiceKept ==
  ASSUME IInv, FreshTracks, ServiceNext
  PROVE  StepKeeps
<1>1. CASE StopSession \/ Archive \/ dispatchPullRequest
  BY ZenonT(30), <1>1, StopSessionKept, ArchiveKept
<1>2. CASE \E reject \in BOOLEAN : Approve(reject)
  BY <1>2, ApproveKept
<1>3. CASE \E i \in DOMAIN inbox : settleTurnScope(i)
  BY ZenonT(30), <1>3, StillKept DEF settleTurnScope
<1>4. ASSUME NEW h \in Handlers,
             \/ \E t \in Turns : Prompt(h, t) \/ Restart(h, t) \/ StartOver(h, t)
             \/ PromptEnqueue(h) \/ PromptUpdate(h)
             \/ Answer(h) \/ AnswerUpdate(h)
             \/ StartOverFinish(h) \/ StartOverCommit(h)
             \/ RestartEnqueue(h) \/ RestartUpdate(h)
             \/ FailSession(h) \/ FailDecide(h) \/ FailCommit(h)
             \/ CreatePullRequest(h) \/ CreatePullRequestUpdate(h)
             \/ RunSandboxActions(h)
      PROVE  StepKeeps
  <2>1. h \in Procs
    BY Zenon DEF Procs
  <2> QED
    BY ZenonT(30), <1>4, <2>1, PromptKept, CopyingCallKept, PromptUpdateKept,
       AnswerUpdateKept, EndDecidedKept, StartOverCommitKept, RestartEnqueueKept,
       FailCommitKept, CreatePullRequestUpdateKept, EffectsKept
<1> QED
  BY ZenonT(30), <1>1, <1>2, <1>3, <1>4 DEF ServiceNext

LEMMA ReconcilerKept ==
  ASSUME IInv, FreshTracks, ReconcilerNext
  PROVE  StepKeeps
<1>1. PICK r \in Reconcilers :
        \/ Lease(r) \/ (\E fact \in Fact : StepOnce(r, fact))
        \/ provision(r) \/ publish(r) \/ RunSandboxActions(r) \/ CommitPass(r)
  BY Zenon DEF ReconcilerNext
<1>2. r \in Procs
  BY Zenon DEF Procs
<1> QED
  BY ZenonT(30), <1>1, <1>2, LeaseKept, StepOnceKept, ProvisionKept, PublishKept, EffectsKept,
     CommitPassKept

-----------------------------------------------------------------------------
(* The runner API. *)

LEMMA RunnerCallKept ==
  ASSUME IInv, FreshTracks, NEW h \in Procs, NEW b \in Sandboxes,
         Bootstrap(h, b) \/ Inbox(h, b)
  PROVE  StepKeeps
<1>1. PICK kind \in {"bootstrap", "inbox"} : Read(h, Call(b, kind, "pick"))
  BY Zenon DEF Bootstrap, Inbox
<1> DEFINE c == Call(b, kind, "pick")
<1>2. c \in CallInFlight /\ c.kind = kind /\ c.pc = "pick"
  BY ZenonT(30), NoOpType DEF CallInFlight, NoOp, Call
<1> HIDE DEF c
<1> QED
  BY ZenonT(30), <1>1, <1>2, ReadKept DEF CopyingCalls, c

(* A call that only updates the current document. *)
LEMMA UpdatingCallKept ==
  ASSUME IInv, FreshTracks, NEW h \in Procs, NEW b \in Sandboxes,
         HeartbeatRunning(h, b) \/ Events(h, b)
  PROVE  StepKeeps
<1>1. ~fresh[h]
  BY Zenon, NotCopied DEF HeartbeatRunning, Events
<1>2. UNCHANGED <<session, fresh>>
  BY Zenon DEF HeartbeatRunning, Events
<1>3. (\E c : op' = [op EXCEPT ![h] = c]) \/ op' = op
  BY Zenon DEF HeartbeatRunning, Events
<1> QED
  BY ZenonT(30), <1>1, <1>2, <1>3, StaleKept, StillKept

(* A bootstrap or an inbox call picks a turn. *)
LEMMA PickedKept ==
  ASSUME IInv, FreshTracks, NEW h \in Procs, op[h].kind # "complete",
         NEW t, NEW pc, pc # "idle",
         op' = [op EXCEPT ![h] = [op[h] EXCEPT !.turn = t, !.pc = pc]],
         UNCHANGED <<session, fresh>>
  PROVE  StepKeeps
<1> DEFINE n == [op[h] EXCEPT !.turn = t, !.pc = pc]
<1>1. GoesOn(op[h], n)
  BY Zenon, CallHeld DEF GoesOn, CallInFlight
<1> HIDE DEF n
<1> QED
  BY ZenonT(30), <1>1, MovedKept DEF n

LEMMA BootstrapPickKept ==
  ASSUME IInv, FreshTracks, NEW h \in Procs, BootstrapPick(h)
  PROVE  StepKeeps
<1>1. UNCHANGED <<session, fresh>> /\ op[h].kind # "complete"
  BY Zenon DEF BootstrapPick, At
<1>2. \/ Goto(h, "update")
      \/ \E t : op' = [op EXCEPT ![h] = [op[h] EXCEPT !.turn = t, !.pc = "update"]]
      \/ \E t : op' = [op EXCEPT ![h] = [op[h] EXCEPT !.turn = t, !.pc = "mark"]]
  BY ZenonT(30) DEF BootstrapPick, Pick
<1> QED
  BY Zenon, <1>1, <1>2, StageKept, PickedKept

LEMMA InboxPickKept ==
  ASSUME IInv, FreshTracks, NEW h \in Procs, InboxPick(h)
  PROVE  StepKeeps
<1>1. session' = session /\ op[h].kind # "complete"
  BY Zenon DEF InboxPick, At
<1>2. \/ Forget(h)
      \/ /\ \E t : op' = [op EXCEPT ![h] = [op[h] EXCEPT !.turn = t, !.pc = "mark"]]
         /\ UNCHANGED fresh
  BY ZenonT(30) DEF InboxPick, Pick
<1> QED
  BY ZenonT(30), <1>1, <1>2, ForgetKept, PickedKept

LEMMA MarkPickedKept ==
  ASSUME IInv, FreshTracks, NEW h \in Procs, MarkPicked(h)
  PROVE  StepKeeps
BY StageKept DEF MarkPicked

LEMMA StartedKeeps ==
  ASSUME NEW s \in Session, NEW t \in Turns \cup {None}
  PROVE  /\ Started(s, t) \in Session
         /\ Started(s, t).stop = s.stop /\ Started(s, t).last = s.last
<1> DEFINE u == IF t # None THEN t ELSE s.turn
           c == [s EXCEPT !.starts = 0, !.turn = u]
<1>1. 0 \in 0 .. StartRetries /\ u \in Turns \cup {None}
  BY RetriesAssumption DEF Session
<1> HIDE DEF u
<1>2. c \in Session /\ c.stop = s.stop /\ c.last = s.last
  BY Zenon, <1>1 DEF Session
<1> QED
  BY <1>2 DEF u, Started

LEMMA BootstrapUpdateKept ==
  ASSUME IInv, FreshTracks, NEW h \in Procs, BootstrapUpdate(h)
  PROVE  StepKeeps
<1> DEFINE s == Started(session, op[h].turn)
<1>1. op[h].turn \in Turns \cup {None} /\ session \in Session
  BY Zenon, CallHeld DEF CallInFlight
<1>2. s \in Session /\ s.stop = session.stop /\ s.last = session.last
  BY ZenonT(30), <1>1, StartedKeeps
<1>3. \/ Forget(h) /\ session' = session
      \/ Write(Enter(s, "running")) \/ Write(Enter(s, "setup"))
  BY Zenon DEF BootstrapUpdate
<1> HIDE DEF s
<1>4. Keeps(session, Enter(s, "running")) /\ Keeps(session, Enter(s, "setup"))
  <2>1. "running" \in Phase /\ "setup" \in Phase
    BY Zenon DEF Phase
  <2>2. /\ Enter(s, "running").stop = s.stop /\ Enter(s, "running").last = s.last
        /\ Enter(s, "setup").stop = s.stop /\ Enter(s, "setup").last = s.last
    BY Zenon, <1>2, <2>1, EnterKeeps
  <2> QED
    BY Zenon, <1>2, <2>2 DEF Keeps
<1> QED
  BY Zenon, <1>3, <1>4, WriteKept, ForgetKept

LEMMA PhaseUpdateKept ==
  ASSUME IInv, FreshTracks, NEW h \in Procs, FinishSetup(h) \/ EventsUpdate(h)
  PROVE  StepKeeps
<1>1. \/ Forget(h) /\ session' = session
      \/ \E p \in Phase : Write(Enter(session, p))
  BY Zenon DEF FinishSetup, EventsUpdate, Phase
<1> QED
  BY Zenon, <1>1, CallHeld, EnterKept, WriteKept, ForgetKept

LEMMA InboxUpdateKept ==
  ASSUME IInv, FreshTracks, NEW h \in Procs, InboxUpdate(h)
  PROVE  StepKeeps
<1> DEFINE t == op[h].turn
           u == IF session.turn = None THEN t ELSE session.turn
           c == [session EXCEPT !.turn = u]
<1>1. t \in Turns \cup {None} /\ session \in Session
  BY CallHeld DEF CallInFlight
<1>2. u \in Turns \cup {None}
  BY Zenon, <1>1 DEF Session
<1>3. Deliver(session, t) \in {c, Enter(c, "running")}
  BY Zenon, <1>1 DEF Deliver, Session
<1> HIDE DEF u
<1>4. c \in Session /\ c.stop = session.stop /\ c.last = session.last
  BY ZenonT(30), <1>1, <1>2 DEF Session
<1>5. (Forget(h) /\ session' = session) \/ Write(Deliver(session, t))
  BY Zenon DEF InboxUpdate
<1> HIDE DEF c
<1>6. Keeps(session, c) /\ Keeps(session, Enter(c, "running"))
  <2>1. "running" \in Phase
    BY Zenon DEF Phase
  <2>2. Enter(c, "running").stop = c.stop /\ Enter(c, "running").last = c.last
    BY Zenon, <1>4, <2>1, EnterKeeps
  <2> QED
    BY Zenon, <1>4, <2>2 DEF Keeps
<1> QED
  BY ZenonT(30), <1>3, <1>5, <1>6, WriteKept, ForgetKept

(* A completion is decided for the current turn only. *)
LEMMA CompleteTurnKept ==
  ASSUME IInv, FreshTracks, NEW h \in Procs, NEW b \in Sandboxes, CompleteTurn(h, b)
  PROVE  StepKeeps
<1> DEFINE t   == runner[b].cur
           req == runner[b].req
           c   == [Call(b, "complete", "read") EXCEPT !.turn = t, !.req = req]
<1>1. t \in Turns /\ req \in Request
  BY Zenon, RunnerOf DEF IInv, CompleteTurn, Completes, GoodRunner, Runner
<1>2. t = session.turn
  BY Zenon DEF CompleteTurn, CompleteCheck
<1>3. Read(h, c)
  BY Zenon DEF CompleteTurn
<1> HIDE DEF t, req
<1>4. c \in CallInFlight /\ c.kind = "complete" /\ c.pc = "read" /\ c.turn = t
  BY Zenon, <1>1, NoOpType DEF CallInFlight, NoOp, Call
<1> HIDE DEF c
<1> QED
  BY Zenon, <1>2, <1>3, <1>4, ReadKept DEF CopyingCalls

LEMMA CompleteDecideKept ==
  ASSUME IInv, FreshTracks, NEW h \in Procs, CompleteDecide(h)
  PROVE  StepKeeps
<1> DEFINE seen == IF op[h].rows = NoRows THEN rows ELSE op[h].rows
           d    == completeDecision(op[h].s, seen, op[h].turn, op[h].req)
           n    == [op[h] EXCEPT !.s = d.s, !.acts = d.acts, !.rows = seen,
                                 !.pc = "effects"]
<1>1. /\ op[h].kind = "complete" /\ op[h].turn \in Turns
      /\ op[h].req.pushed \in BOOLEAN
  BY ZenonT(30), CallHeld DEF CompleteDecide, At, IInv, CallsOK, GoodCall, CallInFlight, Request
<1>2. op' = [op EXCEPT ![h] = n] /\ UNCHANGED <<session, fresh>>
  BY Zenon DEF CompleteDecide
<1> HIDE DEF seen
<1>3. TurnCompleted(op[h].s, op[h].turn, d)
  BY SMTT(20), <1>1, CallHeld, CompleteKeeps
<1> HIDE DEF d
<1>4. GoesOn(op[h], n)
  BY ZenonT(30), <1>1, <1>3, CallHeld, DecisionGoesOn DEF TurnCompleted
<1> HIDE DEF n
<1> QED
  BY ZenonT(30), <1>2, <1>4, MovedKept

LEMMA CompleteCommitKept ==
  ASSUME IInv, FreshTracks, NEW h \in Procs, CompleteCommit(h)
  PROVE  StepKeeps
<1> DEFINE c == [op[h] EXCEPT !.pc = "read"]
<1>1. op[h].kind = "complete"
  BY Zenon DEF CompleteCommit, At
<1>2. \/ fresh[h] /\ Write(op[h].s)
      \/ Forget(h) /\ session' = session
      \/ session.turn = op[h].turn /\ Read(h, c)
  BY Zenon DEF CompleteCommit
<1>3. c \in CallInFlight /\ c.kind = "complete" /\ c.pc = "read" /\ c.turn = op[h].turn
  BY <1>1, CallHeld DEF CallInFlight
<1> HIDE DEF c
<1> QED
  BY ZenonT(30), <1>2, <1>3, CopyKeeps, WriteKept, ForgetKept, ReadKept DEF CopyingCalls

LEMMA RuntimeKept ==
  ASSUME IInv, FreshTracks, RuntimeNext
  PROVE  StepKeeps
<1>1. ASSUME NEW h \in Handlers, HandlerNext(h) PROVE StepKeeps
  <2>1. h \in Procs
    BY Zenon DEF Procs
  <2> QED
    BY Zenon, <1>1, <2>1, RunnerCallKept, UpdatingCallKept, BootstrapPickKept,
       InboxPickKept, MarkPickedKept, BootstrapUpdateKept, PhaseUpdateKept,
       InboxUpdateKept, CompleteTurnKept, CompleteDecideKept, CompleteCommitKept,
       EffectsKept
       DEF HandlerNext
<1>2. ASSUME NEW b \in Sandboxes, RunnerNext(b) PROVE StepKeeps
  <2>1. UNCHANGED <<session, op, fresh>>
    BY Zenon, <1>2 DEF RunnerNext, BootstrapGone, Prepared, PrepareFailed, TakeNext, Ask,
       EndTurn, CompleteRefused, CompleteLate, HeartbeatStop, SandboxUp,
       SandboxDown, SandboxKilled, ObserveEnd
  <2> QED
    BY ZenonT(30), <2>1, StillKept
<1> QED
  BY Zenon, <1>1, <1>2 DEF RuntimeNext

-----------------------------------------------------------------------------
LEMMA InitFresh == Init => FreshTracks
BY Zenon DEF Init, FreshTracks

LEMMA NextKept == IInv /\ FreshTracks /\ [Next]_vars => StepKeeps
<1> SUFFICES ASSUME IInv, FreshTracks, [Next]_vars PROVE StepKeeps
  BY Zenon
<1>1. CASE ReconcilerNext
  BY ZenonT(30), <1>1, ReconcilerKept
<1>2. CASE ServiceNext
  BY <1>2, ServiceKept
<1>3. CASE RuntimeNext
  BY Zenon, <1>3, RuntimeKept
<1>4. CASE \E p \in Procs : Crash(p)
  BY SMTT(20), <1>4, ForgetKept DEF Crash
<1>5. CASE UNCHANGED vars
  BY <1>5, StillKept DEF vars
<1> QED
  BY ZenonT(30), <1>1, <1>2, <1>3, <1>4, <1>5 DEF Next

(* A copy that is still the current version was decided from the document: *)
(* no pass, completion, FailSession or StartOver that will win its CAS has *)
(* forgotten a stop request or completes another turn than the current.    *)
THEOREM FreshCopiesTrack == Spec => []FreshTracks
<1>1. IInv /\ FreshTracks /\ [Next]_vars => FreshTracks'
  BY Zenon, NextKept DEF StepKeeps
<1> QED
  BY <1>1, InitFresh, Invariant, PTL DEF Spec

(* A stop request is kept until the session has ended or is released by a  *)
(* new turn, with any number of overlapping passes (a pass that outlived   *)
(* its lease), requests, retries, crashes and failing actions.             *)
THEOREM StopAlwaysKept == Spec => StopKept
<1>1. IInv /\ FreshTracks /\ [Next]_vars =>
        [session.stop /\ ~session'.stop =>
           \/ session.phase = "done"
           \/ session.phase = "awaitingUser" /\ session.sandbox = None]_session
  BY Zenon, NextKept DEF StepKeeps, Keeps, Released
<1> QED
  BY <1>1, Invariant, FreshCopiesTrack, PTL DEF Spec, StopKept

(* Only the current turn is completed, however often completions are       *)
(* repeated, overlap or look again after a version conflict.               *)
THEOREM OnlyCurrentCompletes == Spec => CompletionOfCurrent
<1>1. IInv /\ FreshTracks /\ [Next]_vars =>
        [session'.last # session.last => session'.last = session.turn]_session
  BY Zenon, NextKept DEF StepKeeps, Keeps
<1> QED
  BY <1>1, Invariant, FreshCopiesTrack, PTL DEF Spec, CompletionOfCurrent

=============================================================================
