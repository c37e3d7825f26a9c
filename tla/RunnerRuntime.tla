---------------------------- MODULE RunnerRuntime ----------------------------
(***************************************************************************)
(* The runner-facing API of a session (api/internal/coding/runtime.go,     *)
(* events.go) together with its client, the runner process in the sandbox  *)
(* (sandbox-runner/src/session.ts), and what the sandbox provider does to  *)
(* that process.                                                           *)
(*                                                                         *)
(* A runner makes its calls from three loops: the turn loop (bootstrap,    *)
(* complete), the inbox loop and the heartbeat loop.  A call is served by  *)
(* a Handler; the response of a call may be lost, then the client calls    *)
(* again.                                                                  *)
(***************************************************************************)
EXTENDS SessionStore

(* Authenticate: only a valid token of an existing row is accepted.        *)
Authentic(b) == rows[b].token = "valid"

(* sessionFor: the live session that the sandbox serves, otherwise ErrGone. *)
Serves(b) == session.phase # "done" /\ session.sandbox = b

(* Whether the response of a call may be lost.                             *)
Lost == IF "lost" \in Ops THEN BOOLEAN ELSE {FALSE}

(* No handler is serving this call for b (a client does not overlap its    *)
(* own calls unless it gave one up).                                       *)
NotServed(kind, b) ==
  "retry" \in Ops \/ \A h \in Handlers : ~(op[h].kind = kind /\ op[h].box = b)

Call(b, kind, pc) == [NoOp EXCEPT !.kind = kind, !.pc = pc, !.box = b]

Up(b) == runner[b].st \in {"prep", "loop", "last"}

Gone == [NoRunner EXCEPT !.st = "gone"]

Exit(b) == runner' = [runner EXCEPT ![b] = Gone]

-----------------------------------------------------------------------------
(* GET /bootstrap *)

Bootstrap(h, b) ==
  /\ Idle(h) /\ runner[b].st = "boot" /\ Authentic(b)
  /\ NotServed("bootstrap", b)
  /\ Serves(b)
  /\ Read(h, Call(b, "bootstrap", "pick"))
  /\ UNCHANGED <<rows, inbox, recorded, runner>>

(* A token that was revoked, or a session that ended or moved on, ends the *)
(* runner; before the sandbox is bound it waits.                           *)
BootstrapGone(b) ==
  /\ runner[b].st = "boot"
  /\ \/ ~Authentic(b)
     \/ ~Serves(b) /\ session.phase \notin {"provisioning", "queued"}
  /\ Exit(b)
  /\ UNCHANGED <<session, rows, inbox, recorded, op, fresh>>

(* A slip: the newest turn first.                                          *)
Latest(S) == {i \in S : \A j \in S : i >= j}

(* currentOrNextTurn: the turn of the copy, or the oldest undelivered one, *)
(* which is stamped delivered before the session knows of it.              *)
Oldest(S) == {i \in S : \A j \in S : i <= j}

(* turnReady: a turn whose scope is pending is held back, until the mark   *)
(* is stale and dropped.                                                   *)
turnReady(i) ==
  \/ ~inbox[i].pending /\ UNCHANGED inbox
  \/ inbox[i].pending /\ inbox' = [inbox EXCEPT ![i].pending = FALSE]

Pick(h, i) ==
  /\ turnReady(i)
  /\ op' = [op EXCEPT ![h].turn = inbox[i].id, ![h].pc = "mark"]

BootstrapPick(h) ==
  /\ At(h, "bootstrap", "pick")
  /\ LET pending == UndeliveredCodingInbox
     IN IF op[h].s.turn # None \/ pending = {}
        THEN /\ op' = [op EXCEPT ![h].turn = op[h].s.turn, ![h].pc = "update"]
             /\ UNCHANGED inbox
        ELSE \E i \in Oldest(pending) :
               \/ Pick(h, i)
               \/ /\ inbox[i].pending
                  /\ Goto(h, "update") /\ UNCHANGED inbox
  /\ UNCHANGED <<session, rows, recorded, runner, fresh>>

(* The stamp of the turn that a bootstrap or an inbox call picked.         *)
SeqOf(t) == CHOOSE i \in DOMAIN inbox : inbox[i].kind = "turn" /\ inbox[i].id = t

(* A slip: the stamp is left to a later call.                              *)
MarkSkipped(h) ==
  /\ op[h].pc = "mark"
  /\ Goto(h, "update")
  /\ UNCHANGED <<session, rows, inbox, recorded, runner, fresh>>

MarkPicked(h) ==
  /\ op[h].pc = "mark"
  /\ MarkCodingInboxDelivered(SeqOf(op[h].turn))
  /\ Goto(h, "update")
  /\ UNCHANGED <<session, rows, recorded, runner, fresh>>

(* The runner takes the bootstrap response and prepares the workspace.     *)
Bootstrapped(b, t) ==
  IF runner[b].st # "boot" THEN runner
  ELSE [runner EXCEPT ![b].st = "prep", ![b].cur = t,
                      ![b].seen = {t} \ {None}]

(* The start succeeded, with the turn it hands out.                        *)
Started(s, t) ==
  [s EXCEPT !.starts = 0, !.turn = IF t # None THEN t ELSE @]

BootstrapUpdate(h) ==
  /\ At(h, "bootstrap", "update")
  /\ LET b == op[h].box
         t == op[h].turn
         s == Started(session, t)
     IN IF op[h].s.phase = "starting" /\ session.sandbox # b
        THEN /\ Forget(h) /\ UNCHANGED session
             /\ runner' = IF runner[b].st = "boot"
                          THEN [runner EXCEPT ![b] = Gone] ELSE runner
        ELSE /\ IF op[h].s.phase = "starting" /\ session.phase = "starting"
                THEN /\ Write(Enter(s, IF op[h].s.snapshot
                                       THEN "running" ELSE "setup"))
                     /\ Return(h)
                ELSE Forget(h) /\ UNCHANGED session
             /\ \E lost \in Lost :
                  runner' = IF lost THEN runner ELSE Bootstrapped(b, t)
  /\ UNCHANGED <<rows, inbox, recorded>>

-----------------------------------------------------------------------------
(* The turn loop of the runner. *)

(* prepare succeeded; a runner that was asked to stop meanwhile exits      *)
(* without completing its turn.                                            *)
Prepared(b) ==
  /\ runner[b].st = "prep"
  /\ IF runner[b].stop THEN Exit(b)
     ELSE runner' = [runner EXCEPT ![b].st = "loop"]
  /\ UNCHANGED <<session, rows, inbox, recorded, op, fresh>>

ErrorReq == [status |-> "error", pushed |-> FALSE, publishes |-> TRUE]

PrepareFailed(b) ==
  /\ "turnError" \in Ops
  /\ runner[b].st = "prep"
  /\ IF runner[b].cur = None THEN Exit(b)
     ELSE runner' = [runner EXCEPT ![b].st = "last", ![b].req = ErrorReq]
  /\ UNCHANGED <<session, rows, inbox, recorded, op, fresh>>

(* The next turn of the queue; without one a stopped runner exits.         *)
TakeNext(b) ==
  /\ runner[b].st = "loop" /\ runner[b].cur = None
  /\ IF runner[b].stop THEN Exit(b)
     ELSE /\ runner[b].queue # <<>>
          /\ runner' = [runner EXCEPT ![b].cur = Head(runner[b].queue),
                                      ![b].queue = Tail(@)]
  /\ UNCHANGED <<session, rows, inbox, recorded, op, fresh>>

(* The agent asks the user a question in the turn.                         *)
Ask(b) ==
  /\ "elicit" \in Ops
  /\ runner[b].st = "loop" /\ runner[b].cur # None
  /\ runner[b].req = NoReq /\ runner[b].asked = "no"
  /\ runner' = [runner EXCEPT ![b].asked = "asked"]
  /\ UNCHANGED <<session, rows, inbox, recorded, op, fresh>>

(* The harness ended and publish committed and pushed: the request that    *)
(* complete sends until it is answered.                                    *)
TurnEnd(r) ==
  [ status : IF r.stop THEN {"stopped"}
             ELSE {IF r.asked = "no" THEN "success" ELSE "awaitingInput"}
                  \cup (IF "turnError" \in Ops THEN {"error", "pushFailed"}
                                                ELSE {}),
    pushed : IF "push" \in Ops THEN BOOLEAN ELSE {FALSE},
    publishes : IF "readOnly" \in Ops THEN BOOLEAN ELSE {TRUE} ]

EndTurn(b) ==
  /\ runner[b].st = "loop" /\ runner[b].cur # None /\ runner[b].req = NoReq
  /\ \E req \in TurnEnd(runner[b]) :
       /\ req.pushed => req.publishes /\ req.status # "pushFailed"
       /\ req.status = "pushFailed" => req.publishes
       /\ runner' = [runner EXCEPT ![b].req = req]
  /\ UNCHANGED <<session, rows, inbox, recorded, op, fresh>>

-----------------------------------------------------------------------------
(* POST /turns/{turnId}/complete *)

commits(req) == req.pushed \/ req.status = "pushFailed"

saveCommits(req) == recorded' = (recorded \/ commits(req))

(* The answer 2xx reaches the runner that waits for it.                    *)
Completed(b, t) ==
  LET r == runner[b]
  IN IF ~Up(b) \/ r.cur # t \/ r.req = NoReq THEN runner
     ELSE [runner EXCEPT ![b] =
             IF r.st = "last" THEN Gone
             ELSE [r EXCEPT !.cur = None, !.req = NoReq, !.asked = "no"]]

Answered(b, t) ==
  \E lost \in Lost : runner' = IF lost THEN runner ELSE Completed(b, t)

(* Any other answer ends the runner.                                       *)
Refused(b, t) ==
  runner' = IF Up(b) /\ runner[b].cur = t /\ runner[b].req # NoReq
            THEN [runner EXCEPT ![b] = Gone] ELSE runner

(* A slip: any turn of the sandbox may be completed.                       *)
CompleteCheckAny(b) ==
  IF ~Authentic(b) \/ (session.sandbox # b /\ session.phase # "done")
  THEN "refused"
  ELSE IF session.phase = "done" THEN "ended" ELSE "decide"

(* What the checks of CompleteTurn say of the turn that b completes.       *)
CompleteCheck(b) ==
  LET t == runner[b].cur
  IN IF ~Authentic(b) \/ (session.sandbox # b /\ session.phase # "done")
     THEN "refused"
     ELSE IF t = session.last /\ session.turn # t THEN "again"
     ELSE IF session.phase = "done" THEN "ended"
     ELSE IF t # session.turn THEN "refused" ELSE "decide"

Completes(b) == Up(b) /\ runner[b].req # NoReq /\ NotServed("complete", b)

CompleteRefused(b) ==
  /\ Completes(b) /\ CompleteCheck(b) = "refused"
  /\ Refused(b, runner[b].cur)
  /\ UNCHANGED <<session, rows, inbox, recorded, op, fresh>>

(* A repeated call, and one for a session that ended meanwhile, which      *)
(* keeps the commits.                                                      *)
CompleteLate(b) ==
  /\ Completes(b) /\ CompleteCheck(b) \in {"again", "ended"}
  /\ IF CompleteCheck(b) = "ended" THEN saveCommits(runner[b].req)
                                   ELSE UNCHANGED recorded
  /\ Answered(b, runner[b].cur)
  /\ UNCHANGED <<session, rows, inbox, op, fresh>>

CompleteTurn(h, b) ==
  /\ Idle(h) /\ Completes(b) /\ CompleteCheck(b) = "decide"
  /\ saveCommits(runner[b].req)
  /\ Read(h, [Call(b, "complete", "read") EXCEPT
                !.turn = runner[b].cur, !.req = runner[b].req])
  /\ UNCHANGED <<rows, inbox, runner>>

(* The rows are read once, before the attempts.                            *)
CompleteDecide(h) ==
  /\ At(h, "complete", "read")
  /\ LET seen == IF op[h].rows = NoRows THEN rows ELSE op[h].rows
         d    == completeDecision(op[h].s, seen, op[h].turn, op[h].req)
     IN op' = [op EXCEPT ![h].s = d.s, ![h].acts = d.acts, ![h].rows = seen,
                         ![h].pc = "effects"]
  /\ UNCHANGED <<session, rows, inbox, recorded, runner, fresh>>

(* After a version conflict the call looks again; the fifth is answered    *)
(* with a conflict (any may be, here).                                     *)
CompleteCommit(h) ==
  /\ At(h, "complete", "commit")
  /\ LET b == op[h].box
         t == op[h].turn
     IN IF fresh[h]
        THEN Write(op[h].s) /\ Return(h) /\ Answered(b, t)
        ELSE IF session.turn # t
        THEN Forget(h) /\ UNCHANGED session /\ Answered(b, t)
        ELSE \/ /\ Read(h, [op[h] EXCEPT !.pc = "read"])
                /\ UNCHANGED runner
             \/ Forget(h) /\ UNCHANGED session /\ Refused(b, t)
  /\ UNCHANGED <<rows, inbox, recorded>>

-----------------------------------------------------------------------------
(* POST /heartbeat: the runner learns that it should stop; one that runs a *)
(* turn ends the setup phase.  GET /inbox of a session that ended or moved *)
(* on, and a revoked token, say stop as well.                              *)

(* A slip: only the session's wishes stop a runner, not ErrGone.           *)
StopFlagAsked(b) ==
  \/ session.stop \/ session.phase = "stopping"
  \/ rows[b].desired = "stopped"

StopFlag(b) ==
  \/ ~Authentic(b) \/ ~Serves(b)
  \/ session.stop \/ session.phase = "stopping"
  \/ rows[b].desired = "stopped"

requestStop(b) == [runner[b] EXCEPT !.stop = TRUE, !.queue = <<>>]

HeartbeatStop(b) ==
  /\ Up(b) /\ ~runner[b].stop
  /\ StopFlag(b)
  /\ runner' = [runner EXCEPT ![b] = requestStop(b)]
  /\ UNCHANGED <<session, rows, inbox, recorded, op, fresh>>

(* finishSetup, called for a copy that was in setup and served b.          *)
HeartbeatRunning(h, b) ==
  /\ Idle(h) /\ runner[b].st = "loop" /\ runner[b].cur # None
  /\ Authentic(b) /\ Serves(b) /\ session.phase = "setup"
  /\ NotServed("heartbeat", b)
  /\ op' = [op EXCEPT ![h] = Call(b, "heartbeat", "update")]
  /\ UNCHANGED <<session, rows, inbox, recorded, runner, fresh>>

FinishSetup(h) ==
  /\ At(h, "heartbeat", "update")
  /\ IF session.phase = "setup"
     THEN Write(Enter(session, "running")) /\ Return(h)
     ELSE Forget(h) /\ UNCHANGED session
  /\ UNCHANGED <<rows, inbox, recorded, runner>>

-----------------------------------------------------------------------------
(* POST /events, as far as it changes the phase: the question of the turn. *)
(* The event is claimed, so it is applied once; an event of an earlier     *)
(* turn is ignored.                                                        *)
Events(h, b) ==
  /\ Idle(h) /\ Up(b) /\ runner[b].asked = "asked" /\ Authentic(b)
  /\ runner' = [runner EXCEPT ![b].asked = "posted"]
  /\ IF Serves(b) /\ session.turn \in {None, runner[b].cur}
     THEN op' = [op EXCEPT ![h] = Call(b, "events", "update")]
     ELSE UNCHANGED op
  /\ UNCHANGED <<session, rows, inbox, recorded, fresh>>

EventsUpdate(h) ==
  /\ At(h, "events", "update")
  /\ IF session.sandbox = op[h].box /\ session.phase = "running"
     THEN Write(Enter(session, "awaitingUser")) /\ Return(h)
     ELSE Forget(h) /\ UNCHANGED session
  /\ UNCHANGED <<rows, inbox, recorded, runner>>

-----------------------------------------------------------------------------
(* GET /inbox: what is after the runner's cursor. *)

Inbox(h, b) ==
  /\ Idle(h) /\ Up(b) /\ Authentic(b) /\ Serves(b)
  /\ NotServed("inbox", b)
  /\ Read(h, Call(b, "inbox", "pick"))
  /\ UNCHANGED <<rows, inbox, recorded, runner>>

(* A slip: a turn is taken while another one is open.                      *)
acceptAlways(s) == s.phase \in {"idle", "awaitingUser", "running"}

acceptTurn(s) ==
  \/ s.turn = None /\ s.phase \in {"idle", "awaitingUser", "running"}
  \/ s.phase = "awaitingUser"

(* inboxItems: the stops for this sandbox up to the first turn that was    *)
(* not delivered, and that turn if the copy may take one.                  *)
NextTurns(b) == {i \in UndeliveredCodingInbox : i > runner[b].after}

StopsFor(b) ==
  {i \in DOMAIN inbox : /\ i > runner[b].after
                        /\ inbox[i].kind = "stop"
                        /\ inbox[i].id \in {None, b}
                        /\ \A j \in NextTurns(b) : i < j}

(* The runner handles the items: stops, then a turn it has not seen.       *)
HandleStops(b) ==
  IF StopsFor(b) = {} \/ ~Up(b) THEN runner
  ELSE [runner EXCEPT ![b] = requestStop(b)]

HandleTurn(b, t) ==
  [runner EXCEPT ![b].after = SeqOf(t),
                 ![b].seen  = @ \cup {t},
                 ![b].queue = IF t \in runner[b].seen \/ runner[b].stop
                              THEN @ ELSE Append(@, t)]

InboxPick(h) ==
  /\ At(h, "inbox", "pick")
  /\ LET b     == op[h].box
         s     == op[h].s
         turns == IF acceptTurn(s) /\ ~s.stop THEN NextTurns(b) ELSE {}
     IN \/ /\ \E i \in Oldest(turns) : Pick(h, i)
           /\ UNCHANGED <<runner, fresh>>
        \/ /\ \A i \in Oldest(turns) : inbox[i].pending
           /\ runner' = HandleStops(b)
           /\ Forget(h) /\ UNCHANGED inbox
  /\ UNCHANGED <<session, rows, recorded>>

(* The delivered turn becomes current unless one is open.  An ErrGone here *)
(* loses the items, not the delivered stamp.                               *)
Deliver(s, t) ==
  LET c == [s EXCEPT !.turn = IF @ = None THEN t ELSE @]
  IN IF s.phase \in {"idle", "awaitingUser"} THEN Enter(c, "running") ELSE c

InboxUpdate(h) ==
  /\ At(h, "inbox", "update")
  /\ LET b == op[h].box
         t == op[h].turn
         s == Deliver(session, t)
     IN IF session.sandbox # op[h].s.sandbox \/ session.stop
        THEN Forget(h) /\ UNCHANGED <<session, runner>>
        ELSE /\ IF s # session THEN Write(s) /\ Return(h)
                               ELSE Forget(h) /\ UNCHANGED session
             /\ \E lost \in Lost :
                  runner' = IF lost \/ ~Up(b) THEN runner
                            ELSE IF StopsFor(b) # {} THEN HandleStops(b)
                            ELSE HandleTurn(b, t)
  /\ UNCHANGED <<rows, inbox, recorded>>

-----------------------------------------------------------------------------
(* The sandbox reconciler and provider, as the session sees them.          *)

(* The provider runs the sandbox with a new token.                         *)
SandboxUp(b) ==
  /\ rows[b].desired = "running" /\ rows[b].live /\ rows[b].token = "none"
  /\ runner[b].st = "off"
  /\ rows' = [rows EXCEPT ![b].token = "valid"]
  /\ runner' = [runner EXCEPT ![b].st = "boot"]
  /\ UNCHANGED <<session, inbox, recorded, op, fresh>>

(* The provider stops the unwanted sandbox, then its tokens are revoked.   *)
SandboxDown(b) ==
  /\ runner[b].st \notin {"off", "gone"}
  /\ rows[b].desired = "stopped"
  /\ Exit(b)
  /\ \E token \in {"revoked"} \cup
                   (IF "faults" \in Ops THEN {rows[b].token} ELSE {}) :
       rows' = [rows EXCEPT ![b].token = token]
  /\ UNCHANGED <<session, inbox, recorded, op, fresh>>

(* The process dies: evicted, out of memory, past its deadline.            *)
SandboxKilled(b) ==
  /\ "kill" \in Ops
  /\ runner[b].st \notin {"off", "gone"}
  /\ Exit(b)
  /\ UNCHANGED <<session, rows, inbox, recorded, op, fresh>>

(* Its end, or that it never starts, is observed.                          *)
ObserveEnd(b) ==
  /\ rows[b].live
  /\ \/ runner[b].st = "gone"
     \/ runner[b].st = "off" /\ (rows[b].desired = "stopped" \/ "kill" \in Ops)
  /\ rows' = [rows EXCEPT ![b].live = FALSE]
  /\ UNCHANGED <<session, inbox, recorded, runner, op, fresh>>

-----------------------------------------------------------------------------
HandlerNext(h) ==
  \/ \E b \in Sandboxes : \/ Bootstrap(h, b) \/ CompleteTurn(h, b)
                          \/ HeartbeatRunning(h, b) \/ Events(h, b)
                          \/ Inbox(h, b)
  \/ BootstrapPick(h) \/ MarkPicked(h) \/ BootstrapUpdate(h)
  \/ CompleteDecide(h) \/ CompleteCommit(h)
  \/ At(h, "complete", "effects") /\ RunSandboxActions(h)
  \/ FinishSetup(h) \/ EventsUpdate(h)
  \/ InboxPick(h) \/ InboxUpdate(h)

RunnerNext(b) ==
  \/ BootstrapGone(b) \/ Prepared(b) \/ PrepareFailed(b) \/ TakeNext(b)
  \/ Ask(b) \/ EndTurn(b) \/ CompleteRefused(b) \/ CompleteLate(b)
  \/ HeartbeatStop(b)
  \/ SandboxUp(b) \/ SandboxDown(b) \/ SandboxKilled(b) \/ ObserveEnd(b)

RuntimeNext ==
  \/ \E h \in Handlers : HandlerNext(h)
  \/ \E b \in Sandboxes : RunnerNext(b)

=============================================================================
