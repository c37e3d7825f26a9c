-------------------------- MODULE SessionInvariant --------------------------
(***************************************************************************)
(* The invariants of a coding session that the proofs use, without the     *)
(* proofs.                                                                 *)
(***************************************************************************)
EXTENDS CodingSessions

(* The phases in which a session must name its sandbox.                    *)
Placed == {"starting", "setup", "running"}

(* What accumulates: rows, turns of the inbox, delivered stamps.           *)
Exists == {b \in Sandboxes : exists(rows[b])}

Known == {t \in Turns : InInbox(t)}

Delivered ==
  {t \in Turns : \E i \in DOMAIN inbox :
     inbox[i].kind = "turn" /\ inbox[i].id = t /\ inbox[i].delivered}

(* A session that may be stored while the rows E exist and the turns D are *)
(* delivered.                                                              *)
GoodSession(s, E, D) ==
  /\ s \in Session
  /\ s.phase \in Placed => s.sandbox \in E
  /\ s.turn \in D \cup {None}

(* A call that may be in flight; K are the turns of the inbox.             *)
RunnerCalls == {"bootstrap", "complete", "heartbeat", "events", "inbox"}

GoodCall(c, E, D, K) ==
  /\ c \in CallInFlight
  /\ GoodSession(c.s, E, D)
  /\ \A b \in Sandboxes : exists(c.rows[b]) => b \in E
  /\ c.kind \in RunnerCalls => c.box \in Sandboxes
  /\ c.kind \in {"complete", "prompt", "restart"} => c.turn \in Turns
  /\ c.kind = "inbox" => c.s.sandbox \in E
  /\ c.pc = "mark" => c.turn \in K /\ c.kind \in {"bootstrap", "inbox"}
  /\ c.kind = "bootstrap" /\ c.pc \in {"pick", "update"} =>
       c.turn \in D \cup {None}
  /\ c.kind = "inbox" /\ c.pc = "update" => c.turn \in D

GoodRow(row) == row \in Row /\ (row.token = "valid" => exists(row))

GoodRunner(r) ==
  /\ r \in Runner
  /\ r.st \in {"off", "boot"} => r.req = NoReq
  /\ r.req # NoReq => r.cur # None

RowsOK    == rows \in [Sandboxes -> Row] /\ \A b \in Sandboxes : GoodRow(rows[b])
InboxOK   == inbox \in Seq(Item)
RunnersOK == /\ runner \in [Sandboxes -> Runner]
             /\ \A b \in Sandboxes : GoodRunner(runner[b])
SessionOK == GoodSession(session, Exists, Delivered)
CallsOK   == /\ op \in [Procs -> CallInFlight]
             /\ \A p \in Procs : GoodCall(op[p], Exists, Delivered, Known)
FreshOK   == fresh \in [Procs -> BOOLEAN]

IInv == /\ RowsOK /\ InboxOK /\ RunnersOK /\ SessionOK /\ CallsOK /\ FreshOK
        /\ recorded \in BOOLEAN

(* What a step does to the rows and the inbox: nothing is taken away.      *)
Grows == Exists \subseteq Exists' /\ Delivered \subseteq Delivered' /\ Known \subseteq Known'

-----------------------------------------------------------------------------
(* The calls that read the document before they write it.                  *)
CopyingCalls == {"reconcile", "restart", "fail", "bootstrap", "complete", "inbox"}

(* Call c was decided from the document d.                                 *)
DecidedFrom(c, d) ==
  /\ c.pc # "idle" /\ c.kind \in CopyingCalls
  /\ d.stop => c.s.stop
  /\ c.s.last = d.last \/ (c.kind = "complete" /\ c.s.last = c.turn)
  /\ c.kind = "complete" => c.turn = d.turn

FreshTracks == \A p \in Procs : fresh[p] => DecidedFrom(op[p], session)

(* What no write may do: drop a stop request that nobody released, or name *)
(* another turn than the current one as completed.                         *)
Released(s) ==
  s.phase = "done" \/ (s.phase = "awaitingUser" /\ s.sandbox = None)

Keeps(s, n) ==
  /\ s.stop /\ ~n.stop => Released(s)
  /\ n.last # s.last => n.last = s.turn

(* What a step has to show.                                                *)
StepKeeps == FreshTracks' /\ Keeps(session, session')

-----------------------------------------------------------------------------
(* The form of a step.  p is the call that moves, n what it then is, f     *)
(* whether its copy of the session is then fresh.                          *)

(* A call that starts with a copy of the session.                          *)
BeginsWithCopy(p, n) ==
  /\ n.s = session
  /\ \/ /\ p \in Reconcilers /\ n.kind = "reconcile" /\ n.pc = "read"
        /\ session.phase # "done"
     \/ /\ p \in Handlers /\ n.kind = "fail" /\ n.pc = "read"
        /\ session.phase # "done" /\ "fail" \in Ops
     \/ /\ p \in Handlers /\ n.kind = "restart" /\ "startOver" \in Ops
        /\ n.pc = IF session.phase = "idle" THEN "finish" ELSE "enqueue"
     \/ /\ p \in Handlers /\ n.kind \in {"bootstrap", "inbox"} /\ n.pc = "pick"
        /\ session.phase # "done" /\ session.sandbox = n.box /\ n.turn = None
     \/ /\ p \in Handlers /\ n.kind = "complete" /\ n.pc = "read"
        /\ session.phase # "done" /\ session.sandbox = n.box
        /\ n.turn = session.turn /\ n.req = runner[n.box].req /\ n.req # NoReq

(* A call that works on the current document only.                         *)
BeginsWithout(p, n) ==
  /\ p \in Handlers /\ n.s = NewSession
  /\ \/ n.kind \in {"prompt", "restart"} /\ n.pc = "enqueue"
     \/ n.kind \in {"createPR", "heartbeat", "events"} /\ n.pc = "update"
     \/ n.kind = "answer" /\ n.pc = "update" /\ AwaitsSelection(session)

Begins(p, n, f) ==
  /\ op[p].pc = "idle" /\ n.acts = {} /\ n.rows = NoRows
  /\ (f /\ BeginsWithCopy(p, n)) \/ (~f /\ BeginsWithout(p, n))

(* After a version conflict the document is read again.                    *)
LooksAgain(p, n, f) ==
  /\ p \in Handlers /\ op[p].pc = "commit" /\ ~fresh[p] /\ f
  /\ n.s = session /\ n.pc = "read" /\ n.kind = op[p].kind
  /\ \/ /\ n.kind = "complete" /\ session.turn = op[p].turn /\ n.turn = op[p].turn
        /\ n.box = op[p].box /\ n.req = op[p].req /\ n.rows = op[p].rows
     \/ n.kind = "fail" /\ session.phase # "done"

(* The call goes on with the copy it has.                                  *)
Keep(c, n) == n.kind = c.kind /\ n.box = c.box /\ n.req = c.req

PicksTurn(p, n) ==
  /\ n.pc = "mark" /\ n.acts = op[p].acts
  /\ \E i \in DOMAIN inbox :
       /\ undelivered(i) /\ n.turn = inbox[i].id
       /\ \/ /\ BootstrapPick(p) /\ op[p].s.turn = None
             /\ i \in Oldest(UndeliveredCodingInbox)
          \/ /\ InboxPick(p) /\ acceptTurn(op[p].s) /\ ~op[p].s.stop
             /\ i \in Oldest(NextTurns(op[p].box))

GoesToStage(p, n) ==
  /\ Keep(op[p], n) /\ n.s = op[p].s /\ n.rows = op[p].rows
  /\ \/ /\ n.kind \in {"prompt", "restart"} /\ op[p].pc = "enqueue" /\ n.pc = "update"
        /\ n.turn = op[p].turn /\ n.acts = op[p].acts
     \/ /\ op[p].kind = "bootstrap" /\ op[p].pc = "pick" /\ n.pc = "update"
        /\ n.turn \in {op[p].turn, op[p].s.turn} /\ n.acts = op[p].acts
     \/ PicksTurn(p, n)
     \/ MarkPicked(p) /\ n.pc = "update" /\ n.turn = op[p].turn /\ n.acts = op[p].acts
     \/ RunSandboxActions(p) /\ n.pc = "commit" /\ n.turn = op[p].turn /\ n.acts = {}

(* The call decides.                                                       *)
IsDecision(n, d) == n.s = d.s /\ n.acts = d.acts

Seen(p) == IF op[p].rows = NoRows THEN rows ELSE op[p].rows

StepDecides(p, n) ==
  /\ op[p].kind = "reconcile" /\ op[p].pc = "read" /\ n.pc = NextStage(n.acts)
  /\ n.rows = IF {Provision, Publish} \cap n.acts # {} THEN rows ELSE NoRows
  /\ \E fact \in Fact : IsDecision(n, Step(op[p].s, Observe(op[p].s, fact)))

ProvisionDecides(p, n) ==
  /\ At(p, "reconcile", "provision") /\ n.pc = NextStage(n.acts) /\ n.rows = NoRows
  /\ \E outcome \in ProvisionOutcome(op[p].s, op[p].rows),
        restored \in Restorable(op[p].s) :
       /\ IsDecision(n, AfterProvision(op[p].s, op[p].acts \ {Provision}, op[p].rows,
                                       outcome, restored))
       /\ rows' = [b \in Sandboxes |->
                     IF b \in Unused /\ outcome.box = b THEN NewRow ELSE rows[b]]

PublishDecides(p, n) ==
  /\ At(p, "reconcile", "publish") /\ n.pc = NextStage(n.acts) /\ n.rows = NoRows
  /\ \E outcome \in {"pr", "transient", "refused", "failed"} :
       IsDecision(n, AfterPublish(op[p].s, op[p].rows, outcome))

EndDecides(p, n) ==
  /\ n.pc = "effects" /\ n.rows = op[p].rows
  /\ \/ op[p].kind = "restart" /\ op[p].pc = "finish" /\ IsDecision(n, finish(op[p].s, {}, rows))
     \/ op[p].kind = "fail" /\ op[p].pc = "read" /\ IsDecision(n, Fail(op[p].s, {}, rows, "failed"))

CompletionDecides(p, n) ==
  /\ op[p].kind = "complete" /\ op[p].pc = "read" /\ n.pc = "effects" /\ n.rows = Seen(p)
  /\ IsDecision(n, completeDecision(op[p].s, Seen(p), op[p].turn, op[p].req))

DecidesCall(p, n) ==
  /\ Keep(op[p], n) /\ n.turn = op[p].turn
  /\ \/ StepDecides(p, n) \/ ProvisionDecides(p, n) \/ PublishDecides(p, n)
     \/ EndDecides(p, n) \/ CompletionDecides(p, n)

CallForm(p, n, f) ==
  \/ n = NoOp /\ ~f
  \/ Begins(p, n, f)
  \/ LooksAgain(p, n, f)
  \/ f = fresh[p] /\ (GoesToStage(p, n) \/ DecidesCall(p, n))

(* What the calls that are a single update write.                          *)
WritesAtOnce(s) ==
  \/ session.phase # "done" /\ s = [session EXCEPT !.stop = TRUE]
  \/ /\ session.phase = "awaitingApproval"
     /\ s \in {Enter([session EXCEPT !.rejected = TRUE], "done"), Enter(session, "queued")}
  \/ {"archive", "webhook"} \cap Ops # {} /\ s = archive(session)
  \/ "webhook" \in Ops /\ session.phase = "idle" /\ s = EndIdle(session)
  \/ s = session

(* What the last stage of a call writes.                                   *)
WritesCopy(p, s) ==
  /\ op[p].pc = "commit" /\ fresh[p] /\ s = op[p].s
  /\ op[p].kind \in {"reconcile", "fail", "complete", "restart"}

WritesReset(p, s) ==
  /\ op[p].kind \in {"prompt", "restart"} /\ op[p].pc = "update"
  /\ Released(session) /\ (op[p].kind = "restart" => session.phase = "done")
  /\ s = resetForTurn(session, op[p].rec)

PullRequestMade ==
  LET c == [session EXCEPT !.pr = TRUE]
  IN IF c.error = "pullRequestFailed"
     THEN [c EXCEPT !.error = "", !.state = TerminalState("", c.stop)] ELSE c

WritesPhase(p, s) ==
  \/ /\ op[p].kind = "answer" /\ op[p].pc = "update" /\ session.phase = "awaitingUser"
     /\ s = Enter([session EXCEPT !.env = TRUE], "queued")
  \/ /\ op[p].kind = "bootstrap" /\ op[p].pc = "update" /\ session.phase = "starting"
     /\ session.sandbox = op[p].box
     /\ s \in {Enter(Started(session, op[p].turn), "running"),
               Enter(Started(session, op[p].turn), "setup")}
  \/ /\ op[p].kind = "heartbeat" /\ op[p].pc = "update" /\ session.phase = "setup"
     /\ s = Enter(session, "running")
  \/ /\ op[p].kind = "events" /\ op[p].pc = "update" /\ session.phase = "running"
     /\ s = Enter(session, "awaitingUser")
  \/ /\ op[p].kind = "inbox" /\ op[p].pc = "update"
     /\ session.sandbox = op[p].s.sandbox /\ ~session.stop
     /\ s = Deliver(session, op[p].turn)

WritesLast(p, s) ==
  \/ WritesCopy(p, s) \/ WritesReset(p, s) \/ WritesPhase(p, s)
  \/ op[p].kind = "prompt" /\ op[p].pc = "update" /\ s = session
  \/ op[p].kind = "createPR" /\ op[p].pc = "update" /\ s = PullRequestMade

(* The call that has written is over, except for the end of the first half *)
(* of StartOver.                                                           *)
AfterWrite(p, n) ==
  \/ n = NoOp
  \/ /\ op[p].kind = "restart" /\ op[p].pc = "commit" /\ Keep(op[p], n)
     /\ n.pc = "enqueue" /\ n.s = NewSession /\ n.acts = op[p].acts /\ n.rows = op[p].rows

OnlyCall(p) == \A q \in Procs : q # p => op'[q] = op[q]

Form ==
  \/ UNCHANGED <<session, op, fresh>>
  \/ Write(session') /\ op' = op /\ WritesAtOnce(session')
  \/ \E p \in Procs :
       /\ Write(session') /\ OnlyCall(p)
       /\ WritesLast(p, session') /\ AfterWrite(p, op'[p])
  \/ \E p \in Procs :
       /\ OnlyCall(p) /\ \A q \in Procs : q # p => fresh'[q] = fresh[q]
       /\ session' = session /\ CallForm(p, op'[p], fresh'[p])

-----------------------------------------------------------------------------
(* Turns are delivered in order.  A turn is in the inbox once; the turn a  *)
(* call picked, the turns an inbox call hands over and those up to a       *)
(* runner's cursor come before every turn that is not delivered.           *)

UniqueTurns ==
  \A i, j \in DOMAIN inbox :
    inbox[i].kind = "turn" /\ inbox[j].kind = "turn" /\ inbox[i].id = inbox[j].id => i = j

(* No item up to place n waits for its delivery.                           *)
ServedTo(n) == \A j \in DOMAIN inbox : j <= n => ~undelivered(j)

HasPlace(t, i) == i \in DOMAIN inbox /\ inbox[i].kind = "turn" /\ inbox[i].id = t

HoldsOldest(c) ==
  /\ c.pc = "mark" => \E i : HasPlace(c.turn, i) /\ ServedTo(i - 1)
  /\ c.kind = "inbox" /\ c.pc = "update" => \E i : HasPlace(c.turn, i) /\ ServedTo(i)

CursorServed(b) == runner[b].after \in 0 .. Len(inbox) /\ ServedTo(runner[b].after)

InOrder ==
  /\ UniqueTurns
  /\ \A p \in Procs : HoldsOldest(op[p])
  /\ \A b \in Sandboxes : CursorServed(b)

(* Items keep their place, their kind and their id, and a stamp stays.     *)
Continued ==
  /\ Len(inbox) <= Len(inbox')
  /\ \A i \in DOMAIN inbox :
       /\ i \in DOMAIN inbox' /\ inbox'[i].kind = inbox[i].kind /\ inbox'[i].id = inbox[i].id
       /\ inbox[i].delivered => inbox'[i].delivered

(* What a step does to the inbox.                                          *)
InboxStep ==
  \/ inbox' = inbox
  \/ \E x \in Item : /\ inbox' = Append(inbox, x)
                     /\ x.kind = "turn" => ~InInbox(x.id)
  \/ \E i \in DOMAIN inbox : inbox' = [inbox EXCEPT ![i].pending = FALSE]
  \/ \E h \in Handlers : MarkPicked(h)

-----------------------------------------------------------------------------
(* The documents.  Several loops may hold the lease; requests come one at  *)
(* a time.                                                                 *)
OneRequest == \A g, h \in Handlers : g = h

(* A document that the control plane may store or hold.                    *)
Doc(s) ==
  /\ s \in Session /\ CoherentSession(s)
  /\ s.phase \in {"awaitingApproval", "publishing", "idle"} => s.turn = None
  /\ s.turn # None => s.turn # s.last
  /\ s.phase = "awaitingApproval" => s.sandbox = None

(* The copy a call holds.                                                  *)
CallDoc(c) ==
  /\ Doc(c.s)
  /\ c.kind = "reconcile" =>
       /\ c.s.phase = "done" => c.s.turn = None /\ c.pc # "read"
       /\ c.pc = "provision" => c.s.phase = "provisioning" /\ Publish \notin c.acts
       /\ c.pc = "publish" => c.s.phase = "publishing"
  /\ c.kind = "restart" =>
       /\ c.pc = "finish" => c.s.phase = "idle"
       /\ c.pc \in {"effects", "commit"} => c.s.phase = "done" /\ c.s.turn = None
  /\ c.kind = "complete" /\ c.pc = "read" => c.s.phase # "done"
  /\ c.kind = "inbox" /\ c.pc \in {"mark", "update"} => acceptTurn(c.s)

(* The copy of call c and the document d it was read from.                 *)
FreshDoc(c, d) ==
  /\ c.kind \in {"reconcile", "fail", "complete"} => d.phase # "done"
  /\ c.kind = "reconcile" /\ c.s.phase = "publishing" => d.phase = "publishing"

(* The call of the only request and the current document d.                *)
HandlerDoc(c, d) ==
  /\ c.kind # "reconcile"
  /\ c.kind = "complete" /\ d.phase = "done" => d.turn = None
  /\ c.kind = "inbox" /\ d.phase = "publishing" => c.s.phase = "publishing"
  /\ c.kind \in {"bootstrap", "inbox"} =>
       c.s.last = d.last /\ (c.turn # None => c.turn # d.last)

DocsOK ==
  /\ Doc(session) /\ session.last \in Delivered \cup {None}
  /\ \A p \in Procs : CallDoc(op[p]) /\ (fresh[p] => FreshDoc(op[p], session))
  /\ \A h \in Handlers : HandlerDoc(op[h], session)
  /\ \A r \in Reconcilers : op[r].kind \in {"none", "reconcile"}

-----------------------------------------------------------------------------
(* The sandboxes, when no pass outlives its lease. *)
OneLoop == \A q, r \in Reconcilers : q = r

(* A pass that will provision has seen every sandbox it could use again.   *)
SandboxesSeen ==
  \A r \in Reconcilers :
    At(r, "reconcile", "provision") => Reusable(rows) \subseteq Reusable(op[r].rows)

(* What a step does to the rows unless it provisions: no sandbox is wanted *)
(* again, comes alive again, is let in or goes.                            *)
Cooler(n, o) ==
  /\ n.desired = "running" => o.desired = "running"
  /\ n.live => o.live
  /\ n.desired = "running" \/ n.token = "valid" => o.desired = "running" \/ o.token = "valid"
  /\ exists(o) => exists(n)

RowsCool == \A b \in Sandboxes : Cooler(rows'[b], rows[b])

-----------------------------------------------------------------------------
(* The end of a session, when only passes end it. *)

(* The calls and faults that end a session with a view of the rows that a  *)
(* pass may change before the end is written, or that leave a sandbox.     *)
EndsByPass ==
  /\ OneLoop
  /\ Ops \cap {"fail", "startOver", "archive", "webhook", "turnError", "faults"} = {}

(* A sandbox that runs, may start or whose runner is let in.               *)
Hot(b) == rows[b].desired = "running" \/ rows[b].token = "valid"

Cold == \A b \in Sandboxes : ~Hot(b)

(* The rows seen show every sandbox that has to be ended.                  *)
Shown(seen) ==
  \A b \in Sandboxes :
    /\ rows[b].desired = "running" => seen[b].desired = "running"
    /\ Hot(b) => exists(seen[b])

(* The actions acts end every sandbox.                                     *)
Covered(acts) ==
  \A b \in Sandboxes :
    /\ rows[b].desired = "running" => Stop(b) \in acts
    /\ Hot(b) => Revoke(b) \in acts

(* A call that will write the end of the session has ended its sandboxes.  *)
EndPrepared(p) ==
  \/ session.phase = "done"
  \/ /\ p \in Reconcilers /\ op[p].kind = "reconcile"
     /\ \/ op[p].pc = "effects" /\ Covered(op[p].acts)
        \/ op[p].pc = "commit" /\ Cold

CopyEnds(p) ==
  /\ op[p].s.phase = "done" => EndPrepared(p)
  /\ op[p].s.phase = "awaitingApproval" => session.phase = "awaitingApproval"

(* A pass that can still make a sandbox.                                   *)
Working(c) ==
  /\ c.kind = "reconcile"
  /\ c.pc \in {"provision", "publish"} \/ (c.pc = "read" /\ c.s.phase # "awaitingApproval")

(* No turn ends in an error.                                               *)
EndsWell(req) == req.status \in {"success", "awaitingInput", "stopped"}

ReqsWell == \A b \in Sandboxes : runner[b].req # NoReq => EndsWell(runner[b].req)

(* The calls that such a session serves, and what a pass saw.              *)
CallEnds(p) ==
  /\ fresh[p] => CopyEnds(p)
  /\ op[p].kind # "fail" /\ op[p].pc # "finish"
  /\ op[p].kind = "complete" => EndsWell(op[p].req)
  /\ op[p].kind = "reconcile" => p \in Reconcilers
  /\ op[p].kind = "reconcile" /\ op[p].pc \in {"provision", "publish"} => Shown(op[p].rows)
  /\ op[p].pc = "provision" => Publish \notin op[p].acts

Unworked == Cold /\ \A p \in Procs : ~Working(op[p])

EndsOK ==
  /\ session.phase \in {"awaitingApproval", "done"} => Unworked
  /\ \A p \in Procs : CallEnds(p)
  /\ ReqsWell

(* The cursors of the runners, and how their turns ended.                  *)
ReqFollows(n, o) == n.req \in {NoReq, o.req} \/ EndsWell(n.req) \/ "turnError" \in Ops

RunnerFollows(n, o) == n.after \in {0, o.after} /\ ReqFollows(n, o)

CursorsKept == \A c \in Sandboxes : RunnerFollows(runner'[c], runner[c])

(* An inbox call moves the cursor of its runner to the turn it hands over. *)
CursorMoved(h) ==
  /\ At(h, "inbox", "update") /\ inbox' = inbox
  /\ \A c \in Sandboxes : /\ runner'[c].after \in {runner[c].after, SeqOf(op[h].turn)}
                           /\ runner'[c].req = runner[c].req

-----------------------------------------------------------------------------
(* A session in the queue starts afresh, when requests come one at a time. *)

(* The phases before a runner has started.                                 *)
Early == {"awaitingApproval", "queued", "provisioning", "starting"}

CleanDoc(s) ==
  /\ s.phase \in {"queued", "provisioning"} => s.sandbox = None
  /\ s.phase \in Early => s.turn = None
  /\ s.phase = "awaitingUser" /\ s.sandbox = None => s.turn = None

Housed(s) == s.sandbox \in Exists \cup {None}

(* What a step does to the sandboxes there are: none goes, or can be used  *)
(* again.                                                                  *)
Settled == \A b \in Exists : b \in Exists' /\ (b \in Reusable(rows') => b \in Reusable(rows))

(* An inbox call that may hand a turn to the runner of its sandbox.        *)
Accepts(c) == c.kind = "inbox" /\ acceptTurn(c.s)

(* The sandboxes whose runner was let in for a turn.  The session is still *)
(* with such a sandbox, or nobody can use it again; an early session never *)
(* is with one.                                                            *)
Accepted == {op[h].s.sandbox : h \in {g \in Handlers : Accepts(op[g])}}

EarlyClean ==
  /\ \A b \in Accepted : b \in Reusable(rows) => b = session.sandbox
  /\ session.phase \in Early => session.sandbox \notin Accepted

(* A question for the repository is answered before there is a sandbox.    *)
AnswerClean ==
  \A h \in Handlers :
    op[h].kind = "answer" /\ session.phase = "awaitingUser" => session.sandbox = None

(* A pass whose copy is current.  It queues the session again, or lets its *)
(* sandbox go, only when nobody can use that sandbox again.                *)
PassClean(c) ==
  /\ c.pc = "read" => c.s = session
  /\ session.phase \in Early /\ c.s.phase \in Early => c.s.sandbox \notin Accepted
  /\ session.phase \in Early /\ c.pc = "provision" => Accepted \cap Reusable(c.rows) = {}
  /\ session.phase \notin Early /\ c.s.phase \in Early =>
       c.pc \in {"effects", "commit"} /\ c.s.sandbox = None
  /\ session.phase \notin Early /\ c.s.sandbox # session.sandbox =>
       session.sandbox \notin Reusable(rows)
  /\ c.s.phase = "awaitingUser" =>
       c.s.sandbox = None \/ (session.phase = "awaitingUser" /\ c.s.sandbox = session.sandbox)

CleanOK ==
  /\ CleanDoc(session) /\ Housed(session)
  /\ \A p \in Procs : CleanDoc(op[p].s) /\ Housed(op[p].s)
  /\ EarlyClean /\ AnswerClean
  /\ \A r \in Reconcilers : fresh[r] => PassClean(op[r])

=============================================================================
