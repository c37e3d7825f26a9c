---------------------------- MODULE SandboxProofs ----------------------------
(***************************************************************************)
(* What a step does to the rows of the sandboxes, and that a step of the   *)
(* form of SessionInvariant keeps SandboxesSeen, EndsOK and CleanOK.       *)
(***************************************************************************)
EXTENDS SessionMachineProofs

(* The end keeps the name of the sandbox.                                  *)
LEMMA FinishClean ==
  ASSUME NEW s \in Session, NEW acts, NEW seen
  PROVE  /\ finish(s, acts, seen).s.phase = "done"
         /\ finish(s, acts, seen).s.sandbox = s.sandbox
<1> DEFINE c == [s EXCEPT !.pushed = FALSE, !.turn = None]
<1>1. c \in Session /\ c.sandbox = s.sandbox
  BY Zenon DEF Session
<1>2. finish(s, acts, seen).s = Enter(c, "done")
  BY Zenon DEF finish, Decide
<1> HIDE DEF c
<1>3. "done" \in Phase
  BY Zenon DEF Phase
<1>4. Enter(c, "done").phase = "done" /\ Enter(c, "done").sandbox = c.sandbox
  BY Zenon, <1>1, <1>3, EnterKeeps
<1> QED
  BY Zenon, <1>1, <1>2, <1>4

LEMMA FailClean ==
  ASSUME NEW s \in Session, NEW acts, NEW seen, NEW code \in ErrorCode
  PROVE  /\ Fail(s, acts, seen, code).s.phase = "done"
         /\ Fail(s, acts, seen, code).s.sandbox = s.sandbox
<1> DEFINE c == [s EXCEPT !.error = code]
<1>1. c \in Session /\ c.sandbox = s.sandbox
  BY Zenon DEF Session
<1>2. Fail(s, acts, seen, code) = finish(c, acts, seen)
  BY Zenon DEF Fail
<1> HIDE DEF c
<1>3. finish(c, acts, seen).s.phase = "done" /\ finish(c, acts, seen).s.sandbox = c.sandbox
  BY <1>1, FinishClean
<1> QED
  BY Zenon, <1>1, <1>2, <1>3

-----------------------------------------------------------------------------
(* Sandboxes.  Only provision makes one that is wanted and alive.          *)

LEMMA RowChanged ==
  ASSUME RowsOK, NEW b \in Sandboxes, NEW n, rows' = [rows EXCEPT ![b] = n], Cooler(n, rows[b])
  PROVE  RowsCool
<1>1. \A c \in Sandboxes : rows'[c] = IF c = b THEN n ELSE rows[c]
  BY Zenon DEF RowsOK
<1>2. \A o : Cooler(o, o)
  BY Zenon DEF Cooler
<1> QED
  BY Zenon, <1>1, <1>2 DEF RowsCool

LEMMA RowsKept ==
  ASSUME rows' = rows
  PROVE  RowsCool
BY ZenonT(30) DEF RowsCool, Cooler

LEMMA ActionsRows ==
  ASSUME RowsOK, NEW p, RunSandboxActions(p)
  PROVE  RowsCool
<1>1. PICK ok : rows' = AfterStops(ok)
  BY Zenon DEF RunSandboxActions
<1>2. \A b \in Sandboxes : /\ rows'[b].live = rows[b].live
                           /\ rows'[b].desired \in {"stopped", rows[b].desired}
                           /\ rows'[b].token \in {"revoked", rows[b].token}
  BY Zenon, <1>1 DEF AfterStops
<1> QED
  BY Zenon, <1>2 DEF RowsCool, Cooler, exists

LEMMA RunnerRows ==
  ASSUME RowsOK, NEW b \in Sandboxes, RunnerNext(b)
  PROVE  RowsCool
<1>0. rows[b] \in Row
  BY Zenon DEF RowsOK
<1>1. CASE rows' = rows
  BY Zenon, <1>1, RowsKept
<1>2. ASSUME NEW t, rows' = [rows EXCEPT ![b].token = t],
             t = "valid" => rows[b].desired = "running" \/ rows[b].token = "valid"
      PROVE  RowsCool
  <2> DEFINE n == [rows[b] EXCEPT !.token = t]
  <2>1. /\ n.desired = rows[b].desired /\ n.live = rows[b].live /\ n.token = t
        /\ rows' = [rows EXCEPT ![b] = n]
    BY Zenon, <1>0, <1>2 DEF Row, RowsOK
  <2> HIDE DEF n
  <2>2. Cooler(n, rows[b])
    BY Zenon, <1>2, <2>1 DEF Cooler, exists
  <2> QED
    BY ZenonT(30), <2>1, <2>2, RowChanged
<1>3. CASE rows' = [rows EXCEPT ![b].live = FALSE]
  <2> DEFINE n == [rows[b] EXCEPT !.live = FALSE]
  <2>1. /\ n.desired = rows[b].desired /\ n.live = FALSE /\ n.token = rows[b].token
        /\ rows' = [rows EXCEPT ![b] = n]
    BY Zenon, <1>0, <1>3 DEF Row, RowsOK
  <2> HIDE DEF n
  <2>2. Cooler(n, rows[b])
    BY Zenon, <2>1 DEF Cooler, exists
  <2> QED
    BY ZenonT(30), <2>1, <2>2, RowChanged
<1>4. CASE SandboxUp(b)
  BY Zenon, <1>2, <1>4 DEF SandboxUp
<1>5. CASE SandboxDown(b)
  <2>1. PICK t \in {"revoked", rows[b].token} : rows' = [rows EXCEPT ![b].token = t]
    BY Zenon, <1>5 DEF SandboxDown
  <2>2. t = "valid" => rows[b].token = "valid"
    BY Zenon, <2>1
  <2> QED
    BY ZenonT(30), <1>2, <2>1, <2>2
<1> QED
  BY ZenonT(30), <1>1, <1>3, <1>4, <1>5 DEF RunnerNext, BootstrapGone, Prepared, PrepareFailed, TakeNext,
     Ask, EndTurn, CompleteRefused, CompleteLate, HeartbeatStop, SandboxKilled, ObserveEnd

LEMMA NextRows ==
  ASSUME IInv, [Next]_vars
  PROVE  RowsCool \/ \E r \in Reconcilers : provision(r)
<1>0. RowsOK
  BY Zenon DEF IInv
<1>1. rows' = rows => RowsCool
  BY Zenon, RowsKept
<1>2. CASE ReconcilerNext
  BY ZenonT(30), <1>0, <1>1, <1>2, ActionsRows DEF ReconcilerNext, Lease, StepOnce, publish, CommitPass
<1>3. CASE ServiceNext
  <2>1. (\E h \in Handlers : RunSandboxActions(h)) \/ rows' = rows
    BY ZenonT(60), <1>3 DEF ServiceNext, StopSession, Archive, dispatchPullRequest, Approve,
       settleTurnScope, Prompt, Restart, StartOver, PromptEnqueue, RestartEnqueue, PromptUpdate,
       Answer, AnswerUpdate, StartOverFinish, StartOverCommit, RestartUpdate, FailSession,
       FailDecide, FailCommit, CreatePullRequest, CreatePullRequestUpdate
  <2> QED
    BY Zenon, <1>0, <1>1, <2>1, ActionsRows
<1>4. ASSUME NEW h \in Handlers, HandlerNext(h)
      PROVE  RowsCool
  <2>1. RunSandboxActions(h) \/ rows' = rows
    BY ZenonT(60), <1>4 DEF HandlerNext, Bootstrap, CompleteTurn, HeartbeatRunning, Inbox, BootstrapPick,
       MarkPicked, CompleteDecide, FinishSetup, EventsUpdate, Events, BootstrapUpdate, CompleteCommit,
       InboxPick, InboxUpdate
  <2> QED
    BY Zenon, <1>0, <1>1, <2>1, ActionsRows
<1>5. CASE \E p \in Procs : Crash(p)
  BY ZenonT(30), <1>1, <1>5 DEF Crash
<1>6. CASE UNCHANGED vars
  BY Zenon, <1>1, <1>6 DEF vars
<1> QED
  BY ZenonT(30), <1>0, <1>2, <1>3, <1>4, <1>5, <1>6, RunnerRows DEF Next, RuntimeNext

(* The pass that provisions makes the sandbox that it did not see.         *)
LEMMA ProvisionQuiet ==
  ASSUME NEW s, NEW acts, NEW seen, NEW outcome, NEW restored, Provision \notin acts
  PROVE  Provision \notin AfterProvision(s, acts, seen, outcome, restored).acts
<1>1. \A t, code : Provision \notin Fail(t, acts, seen, code).acts
  BY Zenon, KindsDiffer DEF Fail, finish, Decide
<1> QED
  BY Zenon, <1>1 DEF AfterProvision, Decide

LEMMA ProvisionSandbox ==
  ASSUME IInv, SandboxesSeen, OneSandbox, NEW r \in Reconcilers, provision(r)
  PROVE  OneSandbox' /\ op'[r].pc # "provision"
<1> DEFINE seen == op[r].rows
<1>1. r \in Procs /\ GoodCall(op[r], Exists, Delivered, Known)
  BY Zenon DEF Procs, IInv, CallsOK
<1>2. PICK outcome \in ProvisionOutcome(op[r].s, seen), restored \in Restorable(op[r].s) :
        /\ Decided(r, AfterProvision(op[r].s, op[r].acts \ {Provision}, seen, outcome, restored))
        /\ rows' = [b \in Sandboxes |-> IF b \in Unused /\ outcome.box = b THEN NewRow ELSE rows[b]]
  BY Zenon DEF provision
<1>3. op'[r].pc # "provision"
  <2> DEFINE d == AfterProvision(op[r].s, op[r].acts \ {Provision}, seen, outcome, restored)
  <2>1. Provision \notin d.acts
    BY ZenonT(30), ProvisionQuiet
  <2> HIDE DEF d
  <2>2. op'[r].pc = NextStage(d.acts)
    BY SMTT(20), <1>1, <1>2 DEF d, Decided, IInv, CallsOK
  <2> QED
    BY Zenon, <2>1, <2>2 DEF NextStage
<1>4. Reusable(rows) \subseteq Reusable(seen)
  BY ZenonT(30) DEF SandboxesSeen, provision
<1>5. \A b \in Reusable(seen) : b \notin Unused
  BY Zenon, <1>1 DEF Reusable, Unused, GoodCall, Exists, exists
<1>6. CASE Reusable(seen) # {}
  <2>1. outcome.box \notin Unused
    <3>1. CASE outcome.box = None
      BY Zenon, <3>1, NoneAssumption DEF Unused
    <3>2. CASE outcome.box \in Newest(Reusable(seen))
      BY Zenon, <1>5, <3>2 DEF Newest
    <3>3. \/ \E k : outcome = [kind |-> k, box |-> None]
          \/ \E b \in Newest(Reusable(seen)) : outcome = [kind |-> "sandbox", box |-> b]
      BY ZenonT(30), <1>6 DEF ProvisionOutcome
    <3> QED
      BY SMTT(20), <3>1, <3>2, <3>3
  <2>2. Reusable(rows') \subseteq Reusable(rows)
    BY Zenon, <1>2, <2>1 DEF Reusable
  <2> QED
    BY ZenonT(30), <1>3, <2>2 DEF OneSandbox
<1>7. CASE Reusable(seen) = {}
  <2>1. Reusable(rows') \subseteq {outcome.box}
    BY Zenon, <1>2, <1>4, <1>7 DEF Reusable
  <2> QED
    BY ZenonT(30), <1>3, <2>1 DEF OneSandbox
<1> QED
  BY ZenonT(30), <1>3, <1>6, <1>7

LEMMA SandboxStep ==
  ASSUME OneLoop, IInv, Form, SandboxesSeen, OneSandbox,
         RowsCool \/ \E r \in Reconcilers : provision(r)
  PROVE  SandboxesSeen' /\ OneSandbox'
<1>1. ASSUME NEW r \in Reconcilers, provision(r)
      PROVE  SandboxesSeen' /\ OneSandbox'
  <2>1. OneSandbox' /\ op'[r].pc # "provision"
    BY Zenon, <1>1, ProvisionSandbox
  <2>2. \A q \in Reconcilers : q = r
    BY Zenon DEF OneLoop
  <2> QED
    BY Zenon, <2>1, <2>2 DEF SandboxesSeen, At
<1>0. RowsCool => Reusable(rows') \subseteq Reusable(rows)
  BY Zenon DEF RowsCool, Cooler, Reusable, liveSandbox
<1>2. ASSUME RowsCool, NEW r \in Reconcilers, op'[r].pc = "provision", op'[r].kind = "reconcile"
      PROVE  Reusable(rows') \subseteq Reusable(op'[r].rows)
  <2>0. r \in Procs
    BY Zenon DEF Procs
  <2>1. CASE op'[r] = op[r]
    BY ZenonT(30), <1>0, <1>2, <2>1 DEF SandboxesSeen, At
  <2>2. CASE AfterWrite(r, op'[r])
    <3>1. NoOp.pc = "idle"
      BY Zenon DEF NoOp
    <3> QED
      BY Zenon, <1>2, <2>2, <3>1 DEF AfterWrite
  <2>3. CASE CallForm(r, op'[r], fresh'[r])
    <3> DEFINE n == op'[r]
    <3>1. CASE n = NoOp
      BY SMTT(20), <1>2, <3>1 DEF NoOp
    <3>2. CASE Begins(r, n, fresh'[r])
      BY Zenon, <1>2, <3>2 DEF Begins, BeginsWithCopy, BeginsWithout
    <3>3. CASE LooksAgain(r, n, fresh'[r])
      BY Zenon, <1>2, <3>3 DEF LooksAgain
    <3>4. CASE GoesToStage(r, n)
      BY Zenon, <1>2, <3>4 DEF GoesToStage, PicksTurn
    <3>5. CASE StepDecides(r, n)
      <4>1. Provision \in n.acts
        BY Zenon, <1>2, <3>5 DEF StepDecides, NextStage
      <4>2. n.rows = rows
        BY Zenon, <3>5, <4>1 DEF StepDecides
      <4> QED
        BY ZenonT(30), <1>0, <1>2, <4>2
    <3>6. CASE ProvisionDecides(r, n)
      <4>1. Provision \notin n.acts
        <5>1. PICK outcome, restored :
                n.acts = AfterProvision(op[r].s, op[r].acts \ {Provision}, op[r].rows, outcome, restored).acts
          BY Zenon, <3>6 DEF ProvisionDecides, IsDecision
        <5>2. Provision \notin op[r].acts \ {Provision}
          BY Zenon
        <5> QED
          BY ZenonT(30), <5>1, <5>2, ProvisionQuiet
      <4> QED
        BY Zenon, <1>2, <3>6, <4>1 DEF ProvisionDecides, NextStage
    <3>7. CASE PublishDecides(r, n)
      <4>1. \A s, seen, outcome : Provision \notin AfterPublish(s, seen, outcome).acts
        <5>1. \A s, seen, code : Provision \notin Fail(s, {}, seen, code).acts
          BY Zenon, KindsDiffer DEF Fail, finish, Decide
        <5> QED
          BY Zenon, <5>1 DEF AfterPublish, Decide
      <4>2. Provision \notin n.acts
        BY ZenonT(30), <3>7, <4>1 DEF PublishDecides, IsDecision
      <4> QED
        BY Zenon, <1>2, <3>7, <4>2 DEF PublishDecides, NextStage
    <3>8. CASE EndDecides(r, n) \/ CompletionDecides(r, n)
      <4>1. n.pc = "effects"
        BY Zenon, <3>8 DEF EndDecides, CompletionDecides
      <4> QED
        BY Zenon, <1>2, <4>1
    <3> QED
      BY ZenonT(30), <2>3, <3>1, <3>2, <3>3, <3>4, <3>5, <3>6, <3>7, <3>8 DEF CallForm, DecidesCall
  <2> QED
    BY ZenonT(30), <2>0, <2>1, <2>2, <2>3 DEF Form, OnlyCall
<1>3. CASE RowsCool
  BY ZenonT(30), <1>0, <1>2, <1>3 DEF SandboxesSeen, At, OneSandbox
<1> QED
  BY Zenon, <1>1, <1>3

-----------------------------------------------------------------------------
(* The end of a session whose sandboxes only the passes end.               *)

LEMMA RowsShown ==
  ASSUME RowsOK
  PROVE  Shown(rows)
<1>1. \A b \in Sandboxes : rows[b].token = "valid" => exists(rows[b])
  BY Zenon DEF RowsOK, GoodRow
<1>2. \A b \in Sandboxes : rows[b].desired = "running" => exists(rows[b])
  BY Zenon DEF exists
<1> QED
  BY Zenon, <1>1, <1>2 DEF Shown, Hot

LEMMA CoolFrame ==
  ASSUME RowsCool
  PROVE  /\ Cold => Cold'
         /\ \A acts : Covered(acts) => \A b \in Sandboxes :
              /\ rows'[b].desired = "running" => Stop(b) \in acts
              /\ Hot(b)' => Revoke(b) \in acts
         /\ \A seen : Shown(seen) => \A b \in Sandboxes :
              /\ rows'[b].desired = "running" => seen[b].desired = "running"
              /\ Hot(b)' => exists(seen[b])
<1>1. \A b \in Sandboxes : /\ rows'[b].desired = "running" => rows[b].desired = "running"
                           /\ Hot(b)' => Hot(b)
  BY Zenon DEF RowsCool, Cooler, Hot
<1> QED
  BY Zenon, <1>1 DEF Cold, Covered, Shown

(* The decision to finish ends what the rows seen show.                    *)
LEMMA FinishCovers ==
  ASSUME NEW s, NEW acts, NEW seen, Shown(seen)
  PROVE  Covered(finish(s, acts, seen).acts)
<1>1. finish(s, acts, seen).acts =
        acts \cup {Stop(b) : b \in {c \in Sandboxes :
                                       \/ seen[c].desired = "running"
                                       \/ liveSandbox(seen[c])}}
             \cup {Revoke(b) : b \in {c \in Sandboxes : exists(seen[c])}}
  BY Zenon DEF finish, Decide
<1> QED
  BY Zenon, <1>1 DEF Covered, Shown

LEMMA EndQuiet ==
  ASSUME NEW s, NEW acts, NEW seen, Provision \notin acts, Publish \notin acts
  PROVE  Provision \notin finish(s, acts, seen).acts /\ Publish \notin finish(s, acts, seen).acts
BY Zenon, KindsDiffer DEF finish, Decide

(* A decision that ends the session: its actions end the sandboxes.        *)
Ending(d) == /\ Covered(d.acts)
             /\ Provision \notin d.acts /\ Publish \notin d.acts

LEMMA FailEnding ==
  ASSUME NEW s, NEW acts, NEW seen, NEW code, Shown(seen), Provision \notin acts, Publish \notin acts
  PROVE  Ending(finish(s, acts, seen)) /\ Ending(Fail(s, acts, seen, code))
BY ZenonT(30), FinishCovers, EndQuiet DEF Ending, Fail

(* What a decision d made from s does about the end of the session.        *)
EndsFrom(s, d) ==
  /\ d.s.phase = "done" => Ending(d)
  /\ d.s.phase = "awaitingApproval" => s.phase = "awaitingApproval"
  /\ s.phase = "awaitingApproval" => Provision \notin d.acts /\ Publish \notin d.acts
  /\ ~(Provision \in d.acts /\ Publish \in d.acts)

LEMMA SameEnds ==
  ASSUME NEW s, NEW c, NEW acts, c.phase = s.phase, s.phase # "done",
         s.phase = "awaitingApproval" => Provision \notin acts /\ Publish \notin acts,
         ~(Provision \in acts /\ Publish \in acts)
  PROVE  EndsFrom(s, Decide(c, acts))
BY Zenon DEF EndsFrom, Decide

LEMMA MoveEnds ==
  ASSUME NEW s, NEW c \in Session, NEW acts, NEW p \in Phase, p \notin {"awaitingApproval", "done"},
         s.phase = "awaitingApproval" => Provision \notin acts /\ Publish \notin acts,
         ~(Provision \in acts /\ Publish \in acts)
  PROVE  EndsFrom(s, Decide(Enter(c, p), acts))
<1>1. Decide(Enter(c, p), acts).s.phase = p /\ Decide(Enter(c, p), acts).acts = acts
  BY Zenon, EnterKeeps DEF Decide
<1> QED
  BY Zenon, <1>1 DEF EndsFrom

LEMMA FinishEnds ==
  ASSUME NEW s, NEW c \in Session, NEW acts, NEW seen, NEW code \in ErrorCode, Shown(seen),
         Provision \notin acts, Publish \notin acts
  PROVE  EndsFrom(s, finish(c, acts, seen)) /\ EndsFrom(s, Fail(c, acts, seen, code))
<1>1. finish(c, acts, seen).s.phase = "done"
  BY Zenon, FinishClean
<1>4. Fail(c, acts, seen, code).s.phase = "done"
  BY Zenon, FailClean
<1>2. Ending(finish(c, acts, seen)) /\ Ending(Fail(c, acts, seen, code))
  BY Zenon, FailEnding
<1>3. "done" # "awaitingApproval"
  BY Zenon
<1>5. \A d : d.s.phase = "done" /\ Ending(d) => EndsFrom(s, d)
  BY ZenonT(30), <1>3 DEF EndsFrom, Ending
<1> QED
  BY ZenonT(30), <1>1, <1>2, <1>4, <1>5

LEMMA StepPhaseEnds ==
  ASSUME NEW s \in Session, NEW o, s.phase # "done", Shown(o.rows)
  PROVE  EndsFrom(s, StepPhase(s, o))
<1> DEFINE has  == hasCurrent(s, o.rows)
           row  == IF has THEN o.rows[s.sandbox] ELSE NoRow
           late == timedOut(s, o)
           warm == has /\ liveSandbox(row) /\ row.desired = "running"
           fail == Fail(s, {}, o.rows, OnTimeout[s.phase])
           same == Decide(s, {})
           moved == Decide(Enter(s, "provisioning"), {Provision})
           bad  == o.badSnapshot /\ goneSandbox(row)
           wanted == {Stop(b) : b \in {c \in Sandboxes : o.rows[c].desired = "running"}}
<1>0. s.phase \in Phase /\ "failed" \in ErrorCode /\ OnTimeout[s.phase] \in ErrorCode
      /\ OnTimeout["running"] \in ErrorCode
  <2>1. s.phase \in Phase
    BY Zenon DEF Session
  <2>2. "running" \in Phase /\ "failed" \in ErrorCode
    BY Zenon DEF Phase, ErrorCode
  <2> QED
    BY ZenonT(30), <2>1, <2>2, TablesType
<1>1. EndsFrom(s, same)
  BY Zenon, SameEnds
<1>2. EndsFrom(s, fail) /\ EndsFrom(s, Fail(s, {}, o.rows, "failed")) /\ EndsFrom(s, finish(s, {}, o.rows))
  BY ZenonT(30), <1>0, FinishEnds
<1>3. Provision # Publish
  BY Zenon, KindsDiffer
<1>4. s.phase # "awaitingApproval" => EndsFrom(s, moved)
  <2>1. "provisioning" \in Phase /\ "provisioning" \notin {"awaitingApproval", "done"}
    BY Zenon DEF Phase
  <2> QED
    BY ZenonT(30), <1>3, <2>1, MoveEnds
<1>5. s.phase # "awaitingApproval" => EndsFrom(s, Decide(s, {Provision})) /\ EndsFrom(s, Decide(s, {Publish}))
  BY Zenon, <1>3, SameEnds
<1>6. s.phase = "starting" => EndsFrom(s, startFailed(s, o.rows, bad))
  <2> DEFINE snap == s.snapshot /\ ~bad
             c == [s EXCEPT !.starts = @ + 1, !.sandbox = None, !.snapshot = snap]
             acts == {Stop(s.sandbox), Revoke(s.sandbox), Provision}
  <2>1. \/ /\ s.starts >= StartRetries
           /\ startFailed(s, o.rows, bad) = Fail(s, {}, o.rows, "failed")
        \/ /\ ~(s.starts >= StartRetries)
           /\ startFailed(s, o.rows, bad) = Decide(Enter(c, "provisioning"), acts)
    BY Zenon DEF startFailed
  <2>2. ~(s.starts >= StartRetries) => s.starts + 1 \in 0 .. StartRetries
    BY SMTT(20), RetriesAssumption DEF Session
  <2>3. ~(s.starts >= StartRetries) => c \in Session
    <3>1. snap \in BOOLEAN
      BY Zenon
    <3> HIDE DEF snap
    <3> QED
      BY ZenonT(30), <2>2, <3>1 DEF Session
  <2>4. "provisioning" \in Phase /\ "provisioning" \notin {"awaitingApproval", "done"}
        /\ "starting" # "awaitingApproval"
    BY Zenon DEF Phase
  <2>5. Publish \notin acts
    BY Zenon, KindsDiffer
  <2> HIDE DEF c, acts, bad
  <2> QED
    BY ZenonT(30), <1>2, <2>1, <2>3, <2>4, <2>5, MoveEnds
<1>7. s.phase \in {"idle", "awaitingUser"} => EndsFrom(s, requeue(s, o.rows))
  <2> DEFINE c == [s EXCEPT !.sandbox = None, !.starts = 0, !.turn = None,
                            !.existing = @ \/ s.pushed \/ s.pr]
  <2>1. c \in Session
    <3>1. 0 \in 0 .. StartRetries
      BY SMTT(20), RetriesAssumption
    <3> QED
      BY ZenonT(30), <3>1 DEF Session
  <2>2. requeue(s, o.rows) = Decide(Enter(c, "queued"), wanted)
    BY Zenon DEF requeue
  <2>3. "queued" \in Phase /\ "queued" \notin {"awaitingApproval", "done"}
    BY Zenon DEF Phase
  <2>4. Publish \notin wanted /\ Provision \notin wanted
    BY Zenon, KindsDiffer
  <2> HIDE DEF c, wanted
  <2> QED
    BY ZenonT(30), <2>1, <2>2, <2>3, <2>4, MoveEnds
<1>8. \A c \in Session : EndsFrom(s, EnterStopping(c))
  <2>1. "stopping" \in Phase /\ "stopping" \notin {"awaitingApproval", "done"}
    BY Zenon DEF Phase
  <2>2. \A b : Publish \notin {EnqueueStop(b)} /\ Provision \notin {EnqueueStop(b)}
    BY Zenon, KindsDiffer
  <2> QED
    BY ZenonT(30), <2>1, <2>2, MoveEnds DEF EnterStopping
<1>9. EndsFrom(s, EnterStopping([s EXCEPT !.error = OnTimeout["running"]]))
  <2>1. [s EXCEPT !.error = OnTimeout["running"]] \in Session
    BY Zenon, <1>0 DEF Session
  <2> QED
    BY Zenon, <1>8, <2>1
<1>10. EndsFrom(s, Decide([s EXCEPT !.sandbox = None], {}))
  <2>1. [s EXCEPT !.sandbox = None].phase = s.phase
    BY Zenon DEF Session
  <2> QED
    BY ZenonT(30), <2>1, SameEnds
<1>11. EndsFrom(s, Decide(s, wanted))
  <2>1. Publish \notin wanted /\ Provision \notin wanted
    BY Zenon, KindsDiffer
  <2> HIDE DEF wanted
  <2> QED
    BY ZenonT(30), <2>1, SameEnds
<1>a. CASE s.phase \in {"awaitingApproval", "setup"}
  <2>1. StepPhase(s, o) = IF late THEN fail ELSE same
    BY Zenon, <1>a DEF StepPhase
  <2> QED
    BY SMTT(20), <2>1, <1>a, <1>1, <1>2
<1>b. CASE s.phase = "queued"
  <2>1. StepPhase(s, o) = IF ~o.enabled \/ o.quota THEN Fail(s, {}, o.rows, "failed")
                          ELSE IF o.capacity THEN moved
                          ELSE IF late THEN fail ELSE same
    BY Zenon, <1>b DEF StepPhase
  <2> QED
    BY SMTT(20), <2>1, <1>b, <1>1, <1>2, <1>4
<1>c. CASE s.phase = "provisioning"
  <2>1. StepPhase(s, o) = IF late THEN fail ELSE Decide(s, {Provision})
    BY Zenon, <1>c DEF StepPhase
  <2> QED
    BY SMTT(20), <2>1, <1>c, <1>2, <1>5
<1>d. CASE s.phase = "starting"
  <2>1. StepPhase(s, o) = IF ~has THEN moved
                          ELSE IF goneSandbox(row) \/ late
                               THEN startFailed(s, o.rows, bad) ELSE same
    BY Zenon, <1>d DEF StepPhase
  <2> QED
    BY SMTT(20), <2>1, <1>d, <1>1, <1>4, <1>6
<1>e. CASE s.phase = "running"
  <2>1. StepPhase(s, o) = IF late
                          THEN EnterStopping([s EXCEPT !.error = OnTimeout["running"]])
                          ELSE same
    BY Zenon, <1>e DEF StepPhase
  <2> QED
    BY SMTT(20), <2>1, <1>e, <1>1, <1>9
<1>f. CASE s.phase = "awaitingUser"
  <2>1. StepPhase(s, o) = IF late THEN fail
                          ELSE IF o.pending /\ ~(has /\ liveSandbox(row))
                               THEN requeue(s, o.rows) ELSE same
    BY Zenon, <1>f DEF StepPhase
  <2> QED
    BY SMTT(20), <2>1, <1>f, <1>1, <1>2, <1>7
<1>g. CASE s.phase = "publishing"
  <2>1. StepPhase(s, o) = IF late THEN fail ELSE Decide(s, {Publish})
    BY Zenon, <1>g DEF StepPhase
  <2> QED
    BY SMTT(20), <2>1, <1>g, <1>2, <1>5
<1>h. CASE s.phase = "idle"
  <2>1. StepPhase(s, o) = IF o.pending
                          THEN IF warm THEN same ELSE requeue(s, o.rows)
                          ELSE IF late THEN finish(s, {}, o.rows)
                          ELSE IF has /\ ~warm
                               THEN Decide([s EXCEPT !.sandbox = None], {})
                          ELSE same
    BY Zenon, <1>h DEF StepPhase
  <2> QED
    BY SMTT(20), <2>1, <1>h, <1>1, <1>2, <1>7, <1>10
<1>i. CASE s.phase = "stopping"
  <2>1. StepPhase(s, o) = IF ~anyLive(o.rows) \/ late THEN finish(s, {}, o.rows)
                          ELSE IF o.grace THEN Decide(s, wanted) ELSE same
    BY Zenon, <1>i DEF StepPhase
  <2> QED
    BY SMTT(20), <2>1, <1>i, <1>1, <1>2, <1>11
<1> QED
  BY SMTT(20), <1>0, <1>a, <1>b, <1>c, <1>d, <1>e, <1>f, <1>g, <1>h, <1>i DEF Phase

LEMMA StepEnds ==
  ASSUME NEW s \in Session, NEW o, s.phase # "done", Shown(o.rows)
  PROVE  EndsFrom(s, Step(s, o))
<1>1. EndsFrom(s, finish(s, {}, o.rows)) /\ EndsFrom(s, Fail(s, {}, o.rows, "failed"))
  <2>1. "failed" \in ErrorCode
    BY Zenon DEF ErrorCode
  <2> QED
    BY Zenon, <2>1, FinishEnds
<1>2. EndsFrom(s, EnterStopping(s))
  <2>1. "stopping" \in Phase /\ "stopping" \notin {"awaitingApproval", "done"}
    BY Zenon DEF Phase
  <2>2. \A b : Publish \notin {EnqueueStop(b)} /\ Provision \notin {EnqueueStop(b)}
    BY Zenon, KindsDiffer
  <2> QED
    BY ZenonT(30), <2>1, <2>2, MoveEnds DEF EnterStopping
<1>3. EndsFrom(s, StepPhase(s, o))
  BY Zenon, StepPhaseEnds
<1> QED
  BY ZenonT(30), <1>1, <1>2, <1>3 DEF Step

LEMMA EnterDecided ==
  ASSUME NEW c \in Session, NEW p \in Phase, NEW acts
  PROVE  Decide(Enter(c, p), acts).s.phase = p /\ Decide(Enter(c, p), acts).acts = acts
BY Zenon, EnterKeeps DEF Decide

LEMMA FailDecided ==
  ASSUME NEW c \in Session, NEW acts, Quiet(acts), NEW seen, Shown(seen), NEW code \in ErrorCode
  PROVE  LET d == Fail(c, acts, seen, code)
         IN d.s.phase = "done" /\ Covered(d.acts) /\ Quiet(d.acts)
<1>1. Fail(c, acts, seen, code).s.phase = "done"
  BY Zenon, FailClean
<1>2. Ending(Fail(c, acts, seen, code))
  BY ZenonT(30), FailEnding DEF Quiet
<1> QED
  BY Zenon, <1>1, <1>2 DEF Ending, Quiet

LEMMA AfterProvisionEnds ==
  ASSUME NEW s \in Session, NEW acts, Quiet(acts), NEW seen, Shown(seen),
         NEW outcome, outcome.kind = "sandbox" => outcome.box \in Sandboxes,
         NEW restored \in BOOLEAN, NEW d, d = AfterProvision(s, acts, seen, outcome, restored)
  PROVE  /\ Quiet(d.acts)
         /\ d.s.phase = "done" => s.phase = "done" \/ (Covered(d.acts) /\ outcome.kind # "sandbox")
         /\ d.s.phase = "awaitingApproval" => s.phase = "awaitingApproval"
<1> DEFINE applied == [s EXCEPT !.env = TRUE, !.snapshot = restored]
           placed  == [applied EXCEPT !.sandbox = outcome.box]
<1>0. "starting" \in Phase /\ "awaitingUser" \in Phase
  BY Zenon DEF Phase
<1>1. CASE outcome.kind = "sandbox"
  <2>1. placed \in Session
    BY ZenonT(30), <1>1 DEF Session
  <2>2. d = Decide(Enter(placed, "starting"), acts)
    BY Zenon, <1>1 DEF AfterProvision
  <2> HIDE DEF placed
  <2>3. d.s.phase = "starting" /\ d.acts = acts
    BY SMTT(20), <1>0, <2>1, <2>2, EnterDecided
  <2> QED
    BY Zenon, <2>3
<1>2. CASE outcome.kind = "select"
  <2>1. d = Decide(Enter(s, "awaitingUser"), acts)
    BY Zenon, <1>2 DEF AfterProvision
  <2>2. d.s.phase = "awaitingUser" /\ d.acts = acts
    BY SMTT(20), <1>0, <2>1, EnterDecided
  <2> QED
    BY Zenon, <2>2
<1>3. CASE outcome.kind \notin {"sandbox", "select"}
  <2> DEFINE c == [s EXCEPT !.attempts = @ + 1]
  <2>1. c.phase = s.phase
    BY Zenon DEF Session
  <2>2. d = Decide(c, acts) \/ d = Fail(s, acts, seen, "failed")
    BY Zenon, <1>3 DEF AfterProvision
  <2> HIDE DEF c
  <2>3. CASE d = Decide(c, acts)
    <3>1. d.s = c /\ d.acts = acts
      BY SMTT(20), <2>3 DEF Decide
    <3> QED
      BY SMTT(20), <2>1, <3>1
  <2>4. CASE d = Fail(s, acts, seen, "failed")
    <3>1. "failed" \in ErrorCode
      BY ZenonT(30) DEF ErrorCode
    <3>2. d.s.phase = "done" /\ Covered(d.acts) /\ Quiet(d.acts)
      BY SMTT(20), <2>4, <3>1, FailDecided
    <3> QED
      BY SMTT(20), <1>3, <3>2
  <2> QED
    BY Zenon, <2>2, <2>3, <2>4
<1> QED
  BY SMTT(20), <1>1, <1>2, <1>3

LEMMA AfterPublishEnds ==
  ASSUME NEW s \in Session, NEW seen, Shown(seen), NEW outcome, NEW d, d = AfterPublish(s, seen, outcome)
  PROVE  /\ Quiet(d.acts)
         /\ d.s.phase = "done" => s.phase = "done" \/ Covered(d.acts)
         /\ d.s.phase = "awaitingApproval" => s.phase = "awaitingApproval"
<1> DEFINE c == [s EXCEPT !.pushed = FALSE, !.pr = TRUE]
           e == [s EXCEPT !.attempts = @ + 1]
<1>1. c \in Session
  BY ZenonT(30) DEF Session
<1>2. e.phase = s.phase
  BY Zenon DEF Session
<1>3. \/ d = Decide(Enter(c, "idle"), {}) \/ d = Decide(e, {})
      \/ d = Fail(s, {}, seen, "failed") \/ d = Fail(s, {}, seen, "pullRequestFailed")
  BY Zenon DEF AfterPublish
<1>4. "failed" \in ErrorCode /\ "pullRequestFailed" \in ErrorCode
  BY Zenon DEF ErrorCode
<1>5. "idle" \in Phase
  BY Zenon DEF Phase
<1>6. Quiet({})
  BY Zenon DEF Quiet
<1> HIDE DEF c, e
<1>7. CASE d = Decide(Enter(c, "idle"), {})
  <2>1. d.s.phase = "idle" /\ d.acts = {}
    BY SMTT(20), <1>1, <1>5, <1>7, EnterDecided
  <2> QED
    BY Zenon, <1>6, <2>1
<1>8. CASE d = Decide(e, {})
  <2>1. d.s.phase = s.phase /\ d.acts = {}
    BY SMTT(20), <1>2, <1>8 DEF Decide
  <2> QED
    BY Zenon, <1>6, <2>1
<1>9. ASSUME NEW code \in ErrorCode, d = Fail(s, {}, seen, code)
      PROVE  Quiet(d.acts) /\ Covered(d.acts) /\ d.s.phase = "done"
  BY SMTT(20), <1>6, <1>9, FailDecided
<1>10. "done" # "awaitingApproval"
  BY Zenon
<1> QED
  BY ZenonT(30), <1>3, <1>4, <1>7, <1>8, <1>9, <1>10

LEMMA CompleteEnds ==
  ASSUME NEW s \in Session, NEW seen, NEW t \in Turns, NEW req, req.pushed \in BOOLEAN,
         EndsWell(req), NEW d, d = completeDecision(s, seen, t, req)
  PROVE  /\ d.s.phase = "done" => s.phase = "done"
         /\ d.s.phase = "awaitingApproval" => s.phase = "awaitingApproval"
<1> DEFINE pu == s.pushed \/ req.pushed
           br == s.branch \/ req.pushed
           ex == s.existing \/ req.pushed
           c1 == [s EXCEPT !.last = t, !.turn = None]
           c  == [s EXCEPT !.last = t, !.turn = None, !.pushed = pu,
                           !.branch = br, !.existing = ex]
           e  == [c EXCEPT !.stop = TRUE]
<1>0. pu \in BOOLEAN /\ br \in BOOLEAN /\ ex \in BOOLEAN
  BY Zenon
<1>2. \/ d = Decide(c, {})
      \/ \E p \in {"publishing", "idle", "awaitingUser"} : d = Decide(Enter(c, p), {})
      \/ d = Decide(Enter(e, "stopping"), {})
  BY Zenon DEF completeDecision, EndsWell
<1> HIDE DEF pu, br, ex
<1>a. c1 \in Session /\ c1.phase = s.phase
  BY ZenonT(30) DEF Session
<1>b. c = [c1 EXCEPT !.pushed = pu, !.branch = br, !.existing = ex]
  BY Zenon
<1> HIDE DEF c, c1
<1>1. c \in Session /\ c.phase = s.phase
  <2>1. c \in Session
    BY ZenonT(30), <1>0, <1>a, <1>b, FlagsType
  <2> QED
    BY ZenonT(30), <1>a, <1>b, <2>1 DEF Session
<1>3. e \in Session
  BY Zenon, <1>1 DEF Session
<1> HIDE DEF e
<1>4. {"publishing", "idle", "awaitingUser", "stopping"} \subseteq Phase \ {"done", "awaitingApproval"}
  BY Zenon DEF Phase
<1>5. d.s.phase = s.phase \/ d.s.phase \in {"publishing", "idle", "awaitingUser", "stopping"}
  <2>1. CASE d = Decide(c, {})
    BY SMTT(20), <1>1, <2>1 DEF Decide
  <2>2. ASSUME NEW p \in {"publishing", "idle", "awaitingUser"}, d = Decide(Enter(c, p), {})
        PROVE  d.s.phase = p
    BY SMTT(20), <1>1, <1>4, <2>2, EnterDecided
  <2>3. CASE d = Decide(Enter(e, "stopping"), {})
    BY SMTT(20), <1>3, <1>4, <2>3, EnterDecided
  <2> QED
    BY SMTT(20), <1>2, <2>1, <2>2, <2>3
<1> QED
  BY Zenon, <1>5

LEMMA CallEndsKept ==
  ASSUME RowsCool, NEW p \in Procs, op'[p] = op[p], fresh'[p] => fresh[p] /\ session' = session, CallEnds(p)
  PROVE  CallEnds(p)'
<1>1. fresh'[p] => CopyEnds(p)'
  <2>1. SUFFICES ASSUME fresh'[p]
                 PROVE  CopyEnds(p)'
    BY Zenon
  <2>2. fresh[p] /\ session' = session /\ CopyEnds(p)
    BY Zenon, <2>1 DEF CallEnds
  <2>3. EndPrepared(p) => EndPrepared(p)'
    <3>1. Covered(op[p].acts) => Covered(op[p].acts)'
      BY Zenon, CoolFrame DEF Covered
    <3> QED
      BY ZenonT(30), <2>2, <3>1, CoolFrame DEF EndPrepared
  <2> QED
    BY ZenonT(30), <2>2, <2>3 DEF CopyEnds
<1>2. Shown(op[p].rows) => Shown(op[p].rows)'
  BY Zenon, CoolFrame DEF Shown
<1> QED
  BY ZenonT(30), <1>1, <1>2 DEF CallEnds

(* A call that is not a pass and does not decide an end.                   *)
LEMMA OtherCallEnds ==
  ASSUME NEW p \in Procs, op'[p].kind # "reconcile", op'[p].kind # "fail",
         op'[p].pc \notin {"finish", "provision"},
         op'[p].kind = "complete" => EndsWell(op'[p].req),
         fresh'[p] => /\ op'[p].s.phase = "done" => session'.phase = "done"
                      /\ op'[p].s.phase = "awaitingApproval" => session'.phase = "awaitingApproval"
  PROVE  CallEnds(p)' /\ ~Working(op'[p])
BY Zenon DEF CallEnds, CopyEnds, EndPrepared, Working

(* A pass that has decided without provisioning or publishing.             *)
LEMMA QuietPassEnds ==
  ASSUME NEW p \in Reconcilers, op'[p].kind = "reconcile", Quiet(op'[p].acts),
         op'[p].pc = NextStage(op'[p].acts),
         fresh'[p] => /\ op'[p].s.phase = "done" =>
                           \A b \in Sandboxes : /\ rows'[b].desired = "running" => Stop(b) \in op'[p].acts
                                                /\ Hot(b)' => Revoke(b) \in op'[p].acts
                      /\ op'[p].s.phase = "awaitingApproval" => session'.phase = "awaitingApproval"
  PROVE  CallEnds(p)' /\ ~Working(op'[p])
<1>1. op'[p].pc = IF op'[p].acts # {} THEN "effects" ELSE "commit"
  BY Zenon DEF NextStage, Quiet
<1>2. op'[p].pc \notin {"provision", "publish", "read", "finish"} /\ op'[p].kind \notin {"fail", "complete"}
  BY Zenon, <1>1
<1>3. ASSUME fresh'[p]
      PROVE  CopyEnds(p)'
  <2>1. ASSUME op'[p].s.phase = "done"
        PROVE  EndPrepared(p)'
    <3>1. Covered(op[p].acts)'
      BY Zenon, <1>3, <2>1 DEF Covered
    <3>2. op'[p].acts = {} => Cold'
      BY Zenon, <3>1 DEF Covered, Cold
    <3> QED
      BY ZenonT(30), <1>1, <3>1, <3>2 DEF EndPrepared
  <2> QED
    BY Zenon, <1>3, <2>1 DEF CopyEnds
<1> QED
  BY Zenon, <1>2, <1>3 DEF CallEnds, Working

(* While a pass works the session has not ended, and its copy has not.     *)
LEMMA WorkingCopy ==
  ASSUME EndsOK, NEW p \in Procs, Working(op[p]), op[p].pc # "effects", op[p].pc # "commit"
  PROVE  /\ session.phase \notin {"awaitingApproval", "done"}
         /\ fresh[p] => op[p].s.phase \notin {"awaitingApproval", "done"}
<1>1. session.phase \notin {"awaitingApproval", "done"}
  BY Zenon DEF EndsOK, Unworked
<1>2. CallEnds(p)
  BY Zenon DEF EndsOK
<1> QED
  BY Zenon, <1>1, <1>2 DEF CallEnds, CopyEnds, EndPrepared

LEMMA ProvisionEnds ==
  ASSUME EndsByPass, IInv, EndsOK, ReqsWell', NEW p \in Procs, ProvisionDecides(p, op'[p]),
         Keep(op[p], op'[p]), OnlyCall(p), session' = session, \A q \in Procs : fresh'[q] = fresh[q]
  PROVE  EndsOK'
<1> DEFINE c == op[p]
           n == op'[p]
<1>1. /\ c.kind = "reconcile" /\ c.pc = "provision" /\ n.kind = "reconcile" /\ n.pc = NextStage(n.acts)
      /\ n.rows = NoRows
  BY Zenon DEF ProvisionDecides, At, Keep
<1>2. PICK outcome \in ProvisionOutcome(c.s, c.rows), restored \in Restorable(c.s) :
        /\ IsDecision(n, AfterProvision(c.s, c.acts \ {Provision}, c.rows, outcome, restored))
        /\ rows' = [b \in Sandboxes |-> IF b \in Unused /\ outcome.box = b THEN NewRow ELSE rows[b]]
  BY ZenonT(30) DEF ProvisionDecides
<1>3. \A q \in Procs : CallEnds(q)
  BY Zenon DEF EndsOK
<1>4. p \in Reconcilers /\ Shown(c.rows) /\ Quiet(c.acts \ {Provision})
  BY ZenonT(30), <1>1, <1>3 DEF CallEnds, Quiet
<1>5. c.s \in Session /\ (outcome.kind = "sandbox" => outcome.box \in Sandboxes) /\ restored \in BOOLEAN
  BY ZenonT(30), OutcomeType DEF IInv, CallsOK, GoodCall, GoodSession
<1>6. /\ session.phase \notin {"awaitingApproval", "done"}
      /\ fresh[p] => c.s.phase \notin {"awaitingApproval", "done"}
  <2>1. Working(c) /\ c.pc # "effects" /\ c.pc # "commit"
    BY Zenon, <1>1 DEF Working
  <2> QED
    BY ZenonT(30), <2>1, WorkingCopy
<1>7. PICK d : d = AfterProvision(c.s, c.acts \ {Provision}, c.rows, outcome, restored)
  BY Zenon
<1>8. n.s = d.s /\ n.acts = d.acts
  BY ZenonT(30), <1>2, <1>7 DEF IsDecision
<1>9. /\ Quiet(d.acts)
      /\ d.s.phase = "done" => c.s.phase = "done" \/ (Covered(d.acts) /\ outcome.kind # "sandbox")
      /\ d.s.phase = "awaitingApproval" => c.s.phase = "awaitingApproval"
  BY SMTT(20), <1>4, <1>5, <1>7, AfterProvisionEnds
<1>10. outcome.kind # "sandbox" => \A b \in Sandboxes : rows'[b] = rows[b]
  <2>1. outcome.kind # "sandbox" => outcome.box = None
    BY SMTT(20) DEF ProvisionOutcome
  <2> QED
    BY Zenon, <1>2, <2>1, NoneAssumption
<1>11. CallEnds(p)' /\ ~Working(n)
  <2>1. fresh'[p] => /\ n.s.phase = "done" =>
                           \A b \in Sandboxes : /\ rows'[b].desired = "running" => Stop(b) \in n.acts
                                                /\ Hot(b)' => Revoke(b) \in n.acts
                     /\ n.s.phase # "awaitingApproval"
    BY Zenon, <1>6, <1>8, <1>9, <1>10 DEF Covered, Hot
  <2> QED
    BY Zenon, <1>1, <1>4, <1>8, <1>9, <2>1, QuietPassEnds
<1>12. ASSUME NEW q \in Procs, q # p
       PROVE  CallEnds(q)'
  <2>1. op'[q] = op[q] /\ fresh'[q] = fresh[q] /\ CallEnds(q)
    BY Zenon, <1>3, <1>12 DEF OnlyCall
  <2>2. q \notin Reconcilers
    BY ZenonT(30), <1>4, <1>12 DEF EndsByPass, OneLoop
  <2>3. op[q].kind # "reconcile" /\ (fresh[q] => CopyEnds(q))
    BY ZenonT(30), <2>1, <2>2 DEF CallEnds
  <2>4. fresh[q] => op[q].s.phase # "done" /\ op[q].s.phase # "awaitingApproval"
    BY ZenonT(30), <1>6, <2>2, <2>3 DEF CopyEnds, EndPrepared
  <2> QED
    BY ZenonT(30), <2>1, <2>3, <2>4 DEF CallEnds, CopyEnds
<1> QED
  BY ZenonT(30), <1>6, <1>11, <1>12 DEF EndsOK

LEMMA BeginsEnds ==
  ASSUME EndsByPass, IInv', EndsOK, NEW p \in Procs, Begins(p, op'[p], fresh'[p]), session' = session
  PROVE  CallEnds(p)' /\ (session.phase \in {"awaitingApproval", "done"} => ~Working(op'[p]))
<1> DEFINE n == op'[p]
<1>0. "fail" \notin Ops /\ "startOver" \notin Ops
  BY Zenon DEF EndsByPass
<1>1. CASE n.kind = "reconcile"
  <2>1. n.s = session /\ p \in Reconcilers /\ n.pc = "read" /\ session.phase # "done"
    BY Zenon, <1>1 DEF Begins, BeginsWithCopy, BeginsWithout
  <2>2. CallEnds(p)'
    BY Zenon, <1>1, <2>1 DEF CallEnds, CopyEnds
  <2> QED
    BY ZenonT(30), <2>1, <2>2 DEF Working
<1>2. CASE n.kind # "reconcile"
  <2>1. n.kind # "fail" /\ n.pc \notin {"finish", "provision"}
    BY Zenon, <1>0, <1>2 DEF Begins, BeginsWithCopy, BeginsWithout
  <2>2. fresh'[p] => n.s = session
    BY Zenon DEF Begins, BeginsWithCopy
  <2>3. n.kind = "complete" => EndsWell(n.req)
    <3>1. n.kind = "complete" => n.req = runner[n.box].req /\ n.req # NoReq
      BY Zenon DEF Begins, BeginsWithCopy, BeginsWithout
    <3>2. n.kind = "complete" => n.box \in Sandboxes
      BY Zenon DEF IInv, CallsOK, GoodCall, RunnerCalls
    <3> QED
      BY ZenonT(30), <3>1, <3>2 DEF EndsOK, ReqsWell
  <2> QED
    BY ZenonT(30), <1>2, <2>1, <2>2, <2>3, OtherCallEnds
<1> QED
  BY Zenon, <1>1, <1>2

LEMMA LooksAgainEnds ==
  ASSUME EndsOK, NEW p \in Procs, LooksAgain(p, op'[p], fresh'[p]), session' = session
  PROVE  CallEnds(p)' /\ ~Working(op'[p])
<1> DEFINE n == op'[p]
<1>1. CallEnds(p)
  BY Zenon DEF EndsOK
<1>2. n.kind = "complete" /\ n.s = session /\ n.pc = "read" /\ n.req = op[p].req /\ op[p].kind = "complete"
  BY Zenon, <1>1 DEF LooksAgain, CallEnds
<1>3. EndsWell(n.req)
  BY ZenonT(30), <1>1, <1>2 DEF CallEnds
<1>4. n.kind # "reconcile" /\ n.kind # "fail" /\ n.pc \notin {"finish", "provision"}
  BY Zenon, <1>2
<1> QED
  BY ZenonT(30), <1>2, <1>3, <1>4, OtherCallEnds

(* Without faults the actions of a decision end the sandboxes.             *)
LEMMA EffectsEnd ==
  ASSUME EndsByPass, RowsOK, NEW p \in Procs, RunSandboxActions(p), Covered(op[p].acts)
  PROVE  Cold'
<1>1. rows' = AfterStops(op[p].acts)
  BY Zenon DEF RunSandboxActions, EndsByPass
<1>2. SUFFICES ASSUME NEW b \in Sandboxes
               PROVE  ~Hot(b)'
  BY Zenon DEF Cold
<1>3. /\ rows'[b].desired = IF Stop(b) \in op[p].acts THEN "stopped" ELSE rows[b].desired
      /\ rows'[b].token = IF Revoke(b) \in op[p].acts /\ rows[b].token = "valid"
                          THEN "revoked" ELSE rows[b].token
  BY Zenon, <1>1 DEF AfterStops
<1>4. /\ rows[b].desired = "running" => Stop(b) \in op[p].acts
      /\ rows[b].desired = "running" \/ rows[b].token = "valid" => Revoke(b) \in op[p].acts
  BY ZenonT(30) DEF Covered, Hot
<1>5. rows'[b].desired # "running" /\ rows'[b].token # "valid"
  BY Zenon, <1>3, <1>4
<1> QED
  BY Zenon, <1>5 DEF Hot

LEMMA StageEnds ==
  ASSUME EndsByPass, IInv, EndsOK, RowsCool, NEW p \in Procs, GoesToStage(p, op'[p]),
         fresh'[p] = fresh[p], session' = session
  PROVE  CallEnds(p)' /\ ~Working(op'[p])
<1> DEFINE c == op[p]
           n == op'[p]
<1>1. CallEnds(p) /\ n.kind = c.kind /\ n.s = c.s /\ n.req = c.req
  BY Zenon DEF EndsOK, GoesToStage, Keep
<1>2. n.pc \in {"update", "mark", "commit"}
  BY Zenon DEF GoesToStage, PicksTurn
<1>3. n.pc \notin {"finish", "provision", "publish", "read", "effects"}
  BY Zenon, <1>2
<1>4. fresh'[p] => CopyEnds(p)'
  <2>1. SUFFICES ASSUME fresh'[p]
                 PROVE  CopyEnds(p)'
    BY Zenon
  <2>2. CopyEnds(p)
    BY ZenonT(30), <1>1, <2>1 DEF CallEnds
  <2>3. ASSUME c.s.phase = "done", session.phase # "done"
        PROVE  EndPrepared(p)'
    <3>1. /\ p \in Reconcilers /\ c.kind = "reconcile"
          /\ \/ c.pc = "effects" /\ Covered(c.acts)
             \/ c.pc = "commit" /\ Cold
      BY ZenonT(30), <2>2, <2>3 DEF CopyEnds, EndPrepared
    <3>2. RunSandboxActions(p) /\ n.pc = "commit"
      <4>1. c.pc \notin {"enqueue", "pick", "mark"}
        BY Zenon, <3>1
      <4> QED
        BY ZenonT(30), <4>1 DEF GoesToStage, PicksTurn, BootstrapPick, InboxPick, MarkPicked, At
    <3>3. Cold'
      BY ZenonT(30), <3>1, <3>2, EffectsEnd, CoolFrame DEF IInv
    <3> QED
      BY ZenonT(30), <1>1, <3>1, <3>2, <3>3 DEF EndPrepared
  <2> QED
    BY ZenonT(30), <1>1, <2>2, <2>3 DEF CopyEnds, EndPrepared
<1> QED
  BY ZenonT(30), <1>1, <1>3, <1>4 DEF CallEnds, Working

LEMMA StepDecidesEnds ==
  ASSUME IInv, EndsOK, RowsCool, NEW p \in Procs, StepDecides(p, op'[p]), Keep(op[p], op'[p]),
         fresh'[p] = fresh[p], session' = session
  PROVE  CallEnds(p)' /\ (session.phase \in {"awaitingApproval", "done"} => ~Working(op'[p]))
<1> DEFINE c == op[p]
           n == op'[p]
<1>1. /\ c.kind = "reconcile" /\ c.pc = "read" /\ n.kind = "reconcile" /\ n.pc = NextStage(n.acts)
      /\ n.rows = IF {Provision, Publish} \cap n.acts # {} THEN rows ELSE NoRows
  BY Zenon DEF StepDecides, Keep
<1>2. PICK fact \in Fact : IsDecision(n, Step(c.s, Observe(c.s, fact)))
  BY Zenon DEF StepDecides
<1>3. CallEnds(p) /\ p \in Reconcilers /\ c.s \in Session /\ RowsOK
  BY ZenonT(30), <1>1 DEF EndsOK, CallEnds, IInv, CallsOK, GoodCall, GoodSession
<1>4. PICK d : d = Step(c.s, Observe(c.s, fact))
  BY Zenon
<1>5. n.s = d.s /\ n.acts = d.acts
  BY ZenonT(30), <1>2, <1>4 DEF IsDecision
<1>6. Observe(c.s, fact).rows = rows
  BY Zenon DEF Observe
<1>7. CASE c.s.phase = "done"
  <2>1. d = Decide(c.s, {})
    BY ZenonT(30), <1>4, <1>7 DEF Step
  <2>2. Quiet(n.acts)
    BY Zenon, <1>5, <2>1 DEF Decide, Quiet
  <2>3. Working(c) /\ c.pc # "effects" /\ c.pc # "commit"
    BY SMTT(20), <1>1, <1>7 DEF Working
  <2>4. ~fresh'[p]
    BY ZenonT(30), <1>7, <2>3, WorkingCopy
  <2> QED
    BY ZenonT(30), <1>1, <1>3, <2>2, <2>4, QuietPassEnds
<1>8. CASE c.s.phase # "done"
  <2>1. EndsFrom(c.s, d)
    BY SMTT(20), <1>3, <1>4, <1>6, <1>8, RowsShown, StepEnds
  <2>2. fresh[p] /\ c.s.phase = "awaitingApproval" => session.phase = "awaitingApproval"
    BY Zenon, <1>3 DEF CallEnds, CopyEnds
  <2>3. CASE Quiet(n.acts)
    <3>1. n.s.phase = "done" => \A b \in Sandboxes : /\ rows'[b].desired = "running" => Stop(b) \in n.acts
                                                     /\ Hot(b)' => Revoke(b) \in n.acts
      BY ZenonT(30), <1>5, <2>1, CoolFrame DEF EndsFrom, Ending
    <3>2. fresh'[p] /\ n.s.phase = "awaitingApproval" => session'.phase = "awaitingApproval"
      BY ZenonT(30), <1>5, <2>1, <2>2 DEF EndsFrom
    <3> QED
      BY ZenonT(30), <1>1, <1>3, <2>3, <3>1, <3>2, QuietPassEnds
  <2>4. CASE ~Quiet(n.acts)
    <3>1. c.s.phase # "awaitingApproval" /\ n.s.phase \notin {"awaitingApproval", "done"}
      BY SMTT(20), <1>5, <2>1, <2>4 DEF EndsFrom, Ending, Quiet
    <3>2. Working(c)
      BY ZenonT(30), <1>1, <3>1 DEF Working
    <3>3. session.phase \notin {"awaitingApproval", "done"}
      BY Zenon, <3>2 DEF EndsOK, Unworked
    <3>4. n.rows = rows /\ (n.pc = "provision" => Publish \notin n.acts) /\ n.pc # "finish"
      <4>1. n.rows = rows
        BY ZenonT(30), <1>1, <2>4 DEF Quiet
      <4>2. n.pc = "provision" => Provision \in n.acts
        BY Zenon, <1>1 DEF NextStage
      <4>3. n.pc # "finish"
        BY Zenon, <1>1 DEF NextStage
      <4> QED
        BY ZenonT(30), <1>5, <2>1, <4>1, <4>2, <4>3 DEF EndsFrom
    <3>5. Shown(op[p].rows)'
      BY ZenonT(30), <1>3, <3>4, RowsShown, CoolFrame DEF Shown
    <3>6. n.kind # "fail" /\ n.kind # "complete"
      BY Zenon, <1>1
    <3> QED
      BY ZenonT(30), <1>1, <1>3, <3>1, <3>3, <3>4, <3>5, <3>6 DEF CallEnds, CopyEnds
  <2> QED
    BY Zenon, <2>3, <2>4
<1> QED
  BY Zenon, <1>7, <1>8

LEMMA PublishDecidesEnds ==
  ASSUME IInv, EndsOK, RowsCool, NEW p \in Procs, PublishDecides(p, op'[p]), Keep(op[p], op'[p]),
         fresh'[p] = fresh[p], session' = session
  PROVE  CallEnds(p)' /\ ~Working(op'[p])
<1> DEFINE c == op[p]
           n == op'[p]
<1>1. c.kind = "reconcile" /\ c.pc = "publish" /\ n.kind = "reconcile" /\ n.pc = NextStage(n.acts)
  BY Zenon DEF PublishDecides, Keep, At
<1>2. PICK outcome : IsDecision(n, AfterPublish(c.s, c.rows, outcome))
  BY Zenon DEF PublishDecides
<1>3. p \in Reconcilers /\ c.s \in Session /\ Shown(c.rows)
  BY ZenonT(30), <1>1 DEF EndsOK, CallEnds, IInv, CallsOK, GoodCall, GoodSession
<1>4. PICK d : d = AfterPublish(c.s, c.rows, outcome)
  BY Zenon
<1>5. n.s = d.s /\ n.acts = d.acts
  BY ZenonT(30), <1>2, <1>4 DEF IsDecision
<1>6. fresh[p] => c.s.phase \notin {"awaitingApproval", "done"}
  <2>1. Working(c) /\ c.pc # "effects" /\ c.pc # "commit"
    BY Zenon, <1>1 DEF Working
  <2> QED
    BY ZenonT(30), <2>1, WorkingCopy
<1>7. /\ Quiet(d.acts)
      /\ d.s.phase = "done" => c.s.phase = "done" \/ Covered(d.acts)
      /\ d.s.phase = "awaitingApproval" => c.s.phase = "awaitingApproval"
  BY SMTT(20), <1>3, <1>4, AfterPublishEnds
<1>8. fresh'[p] => /\ n.s.phase = "done" =>
                        \A b \in Sandboxes : /\ rows'[b].desired = "running" => Stop(b) \in n.acts
                                             /\ Hot(b)' => Revoke(b) \in n.acts
                   /\ n.s.phase # "awaitingApproval"
  BY ZenonT(30), <1>5, <1>6, <1>7, CoolFrame
<1> QED
  BY ZenonT(30), <1>1, <1>3, <1>5, <1>7, <1>8, QuietPassEnds

LEMMA CompletionDecidesEnds ==
  ASSUME IInv, EndsOK, NEW p \in Procs, CompletionDecides(p, op'[p]), Keep(op[p], op'[p]),
         fresh'[p] = fresh[p], session' = session
  PROVE  CallEnds(p)' /\ ~Working(op'[p])
<1> DEFINE c == op[p]
           n == op'[p]
<1>1. /\ c.kind = "complete" /\ c.pc = "read" /\ n.kind = "complete" /\ n.req = c.req /\ n.pc = "effects"
      /\ n.s = completeDecision(c.s, Seen(p), c.turn, c.req).s
  BY Zenon DEF CompletionDecides, Keep, IsDecision
<1>2. CallEnds(p) /\ EndsWell(c.req)
  BY ZenonT(30), <1>1 DEF EndsOK, CallEnds
<1>3. c.s \in Session /\ c.turn \in Turns /\ c.req.pushed \in BOOLEAN
  BY ZenonT(30), <1>1 DEF IInv, CallsOK, GoodCall, GoodSession, CallInFlight, Request
<1>4. /\ n.s.phase = "done" => c.s.phase = "done"
      /\ n.s.phase = "awaitingApproval" => c.s.phase = "awaitingApproval"
  BY SMTT(20), <1>1, <1>2, <1>3, CompleteEnds
<1>5. c.kind # "reconcile" /\ n.kind # "reconcile" /\ n.kind # "fail" /\ n.pc \notin {"finish", "provision"}
  BY Zenon, <1>1
<1>6. fresh[p] => /\ c.s.phase = "done" => session.phase = "done"
                  /\ c.s.phase = "awaitingApproval" => session.phase = "awaitingApproval"
  BY Zenon, <1>2, <1>5 DEF CallEnds, CopyEnds, EndPrepared
<1> QED
  BY ZenonT(30), <1>1, <1>2, <1>4, <1>5, <1>6, OtherCallEnds

LEMMA CallFormEnds ==
  ASSUME EndsByPass, IInv, IInv', EndsOK, RowsCool, NEW p \in Procs,
         CallForm(p, op'[p], fresh'[p]), ~ProvisionDecides(p, op'[p]), session' = session
  PROVE  CallEnds(p)' /\ (session.phase \in {"awaitingApproval", "done"} => ~Working(op'[p]))
<1>1. CASE op'[p] = NoOp /\ ~fresh'[p]
  <2>1. NoOp.kind = "none" /\ NoOp.pc = "idle"
    BY ZenonT(30) DEF NoOp
  <2>2. /\ op'[p].kind # "reconcile" /\ op'[p].kind # "fail" /\ op'[p].kind # "complete"
        /\ op'[p].pc \notin {"finish", "provision"}
    BY Zenon, <1>1, <2>1
  <2> QED
    BY ZenonT(30), <1>1, <2>2, OtherCallEnds
<1>2. CASE Begins(p, op'[p], fresh'[p])
  BY ZenonT(30), <1>2, BeginsEnds
<1>3. CASE LooksAgain(p, op'[p], fresh'[p])
  BY ZenonT(30), <1>3, LooksAgainEnds
<1>4. CASE fresh'[p] = fresh[p] /\ GoesToStage(p, op'[p])
  BY ZenonT(30), <1>4, StageEnds
<1>5. CASE fresh'[p] = fresh[p] /\ DecidesCall(p, op'[p])
  <2>1. Keep(op[p], op'[p])
    BY Zenon, <1>5 DEF DecidesCall
  <2>2. ~EndDecides(p, op'[p])
    BY Zenon DEF EndDecides, EndsOK, CallEnds
  <2> QED
    BY ZenonT(30), <1>5, <2>1, <2>2, StepDecidesEnds, PublishDecidesEnds, CompletionDecidesEnds DEF DecidesCall
<1> QED
  BY Zenon, <1>1, <1>2, <1>3, <1>4, <1>5 DEF CallForm

(* Only a decision that was prepared ends a session that was not ending.   *)
Open(s) == s.phase \notin {"awaitingApproval", "done"}

LEMMA EnterOpen ==
  ASSUME NEW c \in Session, NEW p \in Phase, p \notin {"awaitingApproval", "done"}
  PROVE  Open(Enter(c, p))
BY Zenon, EnterKeeps DEF Open

LEMMA AtOnceOpen ==
  ASSUME EndsByPass, session \in Session, Open(session), NEW s, WritesAtOnce(s)
  PROVE  Open(s)
<1>1. "archive" \notin Ops /\ "webhook" \notin Ops
  BY Zenon DEF EndsByPass
<1>2. s = [session EXCEPT !.stop = TRUE] \/ s = session
  BY Zenon, <1>1 DEF WritesAtOnce, Open
<1>3. [session EXCEPT !.stop = TRUE].phase = session.phase
  BY Zenon DEF Session
<1> QED
  BY ZenonT(30), <1>2, <1>3 DEF Open

LEMMA LastOpen ==
  ASSUME session \in Session, Open(session), NEW p \in Procs, op[p].turn \in Turns \cup {None},
         NEW s, WritesLast(p, s)
  PROVE  Open(s) \/ WritesCopy(p, s)
<1>0. {"queued", "running", "setup", "awaitingUser"} \subseteq Phase \ {"awaitingApproval", "done"}
  BY Zenon DEF Phase
<1>1. CASE WritesReset(p, s)
  <2>1. s = resetForTurn(session, op[p].rec)
    BY Zenon, <1>1 DEF WritesReset
  <2>2. s.phase = "queued"
    BY ZenonT(30), <2>1, ResetKeeps
  <2> QED
    BY Zenon, <2>2 DEF Open
<1>2. CASE s = PullRequestMade
  <2> DEFINE c == [session EXCEPT !.pr = TRUE]
             e == [c EXCEPT !.error = "", !.state = TerminalState("", c.stop)]
  <2>1. s = c \/ s = e
    BY ZenonT(30), <1>2 DEF PullRequestMade
  <2>2. c \in Session /\ c.phase = session.phase
    BY ZenonT(30) DEF Session
  <2> HIDE DEF c
  <2>3. e.phase = c.phase
    BY Zenon, <2>2 DEF Session
  <2> HIDE DEF e
  <2> QED
    BY ZenonT(30), <2>1, <2>2, <2>3 DEF Open
<1>3. CASE WritesPhase(p, s)
  <2> DEFINE t == op[p].turn
             u == IF t # None THEN t ELSE session.turn
             v == IF session.turn = None THEN t ELSE session.turn
             a == [session EXCEPT !.env = TRUE]
             c == [session EXCEPT !.starts = 0, !.turn = u]
             d == [session EXCEPT !.turn = v]
  <2>1. Started(session, t) = c
    BY Zenon DEF Started
  <2>2. Deliver(session, t) = IF session.phase \in {"idle", "awaitingUser"} THEN Enter(d, "running") ELSE d
    BY Zenon DEF Deliver
  <2>3. u \in Turns \cup {None} /\ v \in Turns \cup {None} /\ 0 \in 0 .. StartRetries
    BY SMTT(20), RetriesAssumption DEF Session
  <2> HIDE DEF u, v
  <2>4. a \in Session
    BY Zenon DEF Session
  <2>5. c \in Session
    BY ZenonT(30), <2>3 DEF Session
  <2>6. d \in Session /\ d.phase = session.phase
    BY ZenonT(30), <2>3 DEF Session
  <2>7. \/ s = Enter(a, "queued")
        \/ s \in {Enter(Started(session, t), "running"), Enter(Started(session, t), "setup")}
        \/ s \in {Enter(session, "running"), Enter(session, "awaitingUser")}
        \/ s = Deliver(session, t)
    BY Zenon, <1>3 DEF WritesPhase
  <2> HIDE DEF a, c, d, t
  <2>8. \A e \in Session : \A f \in {"queued", "running", "setup", "awaitingUser"} : Open(Enter(e, f))
    BY Zenon, <1>0, EnterOpen
  <2>9. Open(d)
    BY Zenon, <2>6 DEF Open
  <2> QED
    BY ZenonT(30), <2>1, <2>2, <2>4, <2>5, <2>6, <2>7, <2>8, <2>9
<1> QED
  BY ZenonT(30), <1>1, <1>2, <1>3 DEF WritesLast

LEMMA AfterWriteEnds ==
  ASSUME NEW p \in Procs, AfterWrite(p, op'[p]), ~fresh'[p]
  PROVE  CallEnds(p)' /\ ~Working(op'[p])
<1>1. NoOp.kind = "none" /\ NoOp.pc = "idle"
  BY Zenon DEF NoOp
<1>2. op'[p].kind \in {"none", "restart"} /\ op'[p].pc \in {"idle", "enqueue"}
  BY ZenonT(30), <1>1 DEF AfterWrite, Keep
<1>3. /\ op'[p].kind # "reconcile" /\ op'[p].kind # "fail" /\ op'[p].kind # "complete"
      /\ op'[p].pc \notin {"finish", "provision"}
  BY Zenon, <1>2
<1> QED
  BY ZenonT(30), <1>3, OtherCallEnds

LEMMA WriteEnds ==
  ASSUME EndsByPass, IInv, EndsOK, RowsCool, ReqsWell', NEW p \in Procs, Write(session'), OnlyCall(p),
         WritesLast(p, session'), AfterWrite(p, op'[p])
  PROVE  EndsOK'
<1>1. \A q \in Procs : ~fresh'[q]
  BY Zenon DEF Write
<1>2. CallEnds(p)' /\ ~Working(op'[p])
  BY ZenonT(30), <1>1, AfterWriteEnds
<1>3. \A q \in Procs : CallEnds(q)'
  BY ZenonT(30), <1>1, <1>2, CallEndsKept DEF EndsOK, OnlyCall
<1>4. session'.phase \in {"awaitingApproval", "done"} => Cold /\ \A q \in Procs : q # p => ~Working(op[q])
  <2>1. CASE ~Open(session)
    BY Zenon, <2>1 DEF Open, EndsOK, Unworked
  <2>2. CASE Open(session) /\ WritesCopy(p, session')
    <3>1. fresh[p] /\ session' = op[p].s /\ op[p].pc = "commit"
      BY ZenonT(30), <2>2 DEF WritesCopy
    <3>2. op[p].pc # "effects"
      BY Zenon, <3>1
    <3>3. CopyEnds(p)
      BY ZenonT(30), <3>1 DEF EndsOK, CallEnds
    <3>4. session'.phase \in {"awaitingApproval", "done"} => p \in Reconcilers /\ Cold
      BY ZenonT(30), <2>2, <3>1, <3>2, <3>3 DEF Open, CopyEnds, EndPrepared
    <3>5. p \in Reconcilers => \A q \in Procs : q # p => ~Working(op[q])
      BY Zenon DEF EndsByPass, OneLoop, EndsOK, CallEnds, Working
    <3> QED
      BY ZenonT(30), <3>4, <3>5
  <2>3. Open(session) => Open(session') \/ WritesCopy(p, session')
    <3>1. session \in Session /\ op[p].turn \in Turns \cup {None}
      BY Zenon DEF IInv, SessionOK, GoodSession, CallsOK, GoodCall, CallInFlight
    <3> QED
      BY ZenonT(30), <3>1, LastOpen
  <2> QED
    BY ZenonT(30), <2>1, <2>2, <2>3 DEF Open
<1>5. session'.phase \in {"awaitingApproval", "done"} => Cold' /\ \A q \in Procs : ~Working(op'[q])
  BY ZenonT(30), <1>2, <1>4, CoolFrame DEF OnlyCall
<1> QED
  BY ZenonT(30), <1>3, <1>5 DEF EndsOK, Unworked

LEMMA EndsStep ==
  ASSUME EndsByPass, IInv, IInv', EndsOK, ReqsWell', Form, RowsCool
  PROVE  EndsOK'
<1>0. session \in Session /\ \A p \in Procs : CallEnds(p)
  BY Zenon DEF IInv, SessionOK, GoodSession, EndsOK
<1>1. CASE UNCHANGED <<session, op, fresh>>
  <2>1. \A p \in Procs : CallEnds(p)'
    BY Zenon, <1>0, <1>1, CallEndsKept
  <2> QED
    BY ZenonT(30), <1>1, <2>1, CoolFrame DEF EndsOK, Unworked
<1>2. CASE Write(session') /\ op' = op /\ WritesAtOnce(session')
  <2>1. \A p \in Procs : CallEnds(p)'
    BY Zenon, <1>0, <1>2, CallEndsKept DEF Write
  <2>2. Open(session) => Open(session')
    BY Zenon, <1>0, <1>2, AtOnceOpen
  <2> QED
    BY ZenonT(30), <1>2, <2>1, <2>2, CoolFrame DEF EndsOK, Unworked, Open
<1>3. ASSUME NEW p \in Procs, Write(session'), OnlyCall(p), WritesLast(p, session'), AfterWrite(p, op'[p])
      PROVE  EndsOK'
  BY Zenon, <1>3, WriteEnds
<1>4. ASSUME NEW p \in Procs, OnlyCall(p), \A q \in Procs : q # p => fresh'[q] = fresh[q],
             session' = session, CallForm(p, op'[p], fresh'[p])
      PROVE  EndsOK'
  <2>1. CASE ProvisionDecides(p, op'[p]) /\ fresh'[p] = fresh[p] /\ Keep(op[p], op'[p])
    BY Zenon, <1>4, <2>1, ProvisionEnds
  <2>2. CASE ~ProvisionDecides(p, op'[p])
    <3>1. CallEnds(p)' /\ (session.phase \in {"awaitingApproval", "done"} => ~Working(op'[p]))
      BY ZenonT(30), <1>4, <2>2, CallFormEnds
    <3>2. \A q \in Procs : CallEnds(q)'
      BY ZenonT(30), <1>0, <1>4, <3>1, CallEndsKept DEF OnlyCall
    <3>3. session.phase \in {"awaitingApproval", "done"} => Cold' /\ \A q \in Procs : ~Working(op'[q])
      BY ZenonT(30), <1>4, <3>1, CoolFrame DEF EndsOK, Unworked, OnlyCall
    <3> QED
      BY ZenonT(30), <1>4, <3>2, <3>3 DEF EndsOK, Unworked
  <2>3. ProvisionDecides(p, op'[p]) => fresh'[p] = fresh[p] /\ Keep(op[p], op'[p])
    <3>1. SUFFICES ASSUME op[p].pc = "provision", op'[p].pc = NextStage(op'[p].acts)
                   PROVE  fresh'[p] = fresh[p] /\ Keep(op[p], op'[p])
      BY Zenon DEF ProvisionDecides, At
    <3>2. NoOp.pc = "idle"
      BY Zenon DEF NoOp
    <3>3. op'[p] # NoOp /\ op[p].pc # "idle" /\ op[p].pc # "commit"
      BY SMTT(20), <3>1, <3>2 DEF NextStage
    <3> QED
      BY Zenon, <1>4, <3>3 DEF CallForm, Begins, LooksAgain, GoesToStage, DecidesCall
  <2> QED
    BY Zenon, <2>1, <2>2, <2>3
<1> QED
  BY ZenonT(30), <1>1, <1>2, <1>3, <1>4 DEF Form

LEMMA ReqsStep ==
  ASSUME EndsByPass, ReqsWell, CursorsKept \/ \E h \in Handlers : CursorMoved(h)
  PROVE  ReqsWell'
<1>1. "turnError" \notin Ops
  BY Zenon DEF EndsByPass
<1>2. \A b \in Sandboxes : \/ runner'[b].req \in {NoReq, runner[b].req}
                           \/ EndsWell(runner'[b].req)
  BY Zenon, <1>1 DEF CursorsKept, CursorMoved, RunnerFollows, ReqFollows
<1> QED
  BY Zenon, <1>2 DEF ReqsWell

LEMMA EndsKept ==
  ASSUME EndsByPass, IInv, IInv', EndsOK, Form, RowsCool \/ \E r \in Reconcilers : provision(r),
         CursorsKept \/ \E h \in Handlers : CursorMoved(h)
  PROVE  EndsOK'
<1>1. ReqsWell'
  BY Zenon, ReqsStep DEF EndsOK
<1>2. CASE RowsCool
  BY ZenonT(30), <1>1, <1>2, EndsStep
<1>3. ASSUME NEW r \in Reconcilers, provision(r)
      PROVE  EndsOK'
  <2>1. /\ r \in Procs /\ UNCHANGED <<session, fresh>> /\ OnlyCall(r)
        /\ ProvisionDecides(r, op'[r]) /\ Keep(op[r], op'[r])
    BY Zenon, <1>3, ProvisionDecided
  <2> QED
    BY ZenonT(30), <1>1, <2>1, ProvisionEnds
<1> QED
  BY Zenon, <1>2, <1>3

LEMMA InitEnds == Init => EndsOK
<1> SUFFICES ASSUME Init PROVE EndsOK
  BY Zenon
<1>1. /\ NoOp.kind = "none" /\ NoOp.pc = "idle" /\ NoRunner.req = NoReq
      /\ NoRow.desired = "none" /\ NoRow.token = "none"
  BY Zenon DEF NoOp, NoRunner, NoRow
<1>2. \A b \in Sandboxes : rows[b] = NoRow /\ runner[b] = NoRunner
  BY Zenon DEF Init, NoRows
<1>3. \A p \in Procs : op[p] = NoOp /\ fresh[p] = FALSE
  BY Zenon DEF Init
<1>4. \A b \in Sandboxes : rows[b].desired # "running" /\ rows[b].token # "valid"
  BY SMTT(20), <1>1, <1>2
<1>5. Cold
  BY Zenon, <1>4 DEF Cold, Hot
<1>6. \A p \in Procs : /\ op[p].kind \notin {"fail", "complete", "reconcile"}
                       /\ op[p].pc \notin {"finish", "provision"} /\ ~fresh[p]
  BY SMTT(20), <1>1, <1>3
<1>7. \A p \in Procs : CallEnds(p) /\ ~Working(op[p])
  BY Zenon, <1>6 DEF CallEnds, Working
<1>8. ReqsWell
  BY Zenon, <1>1, <1>2 DEF ReqsWell
<1> QED
  BY ZenonT(30), <1>5, <1>7, <1>8 DEF EndsOK, Unworked

-----------------------------------------------------------------------------
(* CleanOK: a session in the queue starts afresh.  What could bring back a *)
(* sandbox or a turn is an inbox call that was let in before the session   *)
(* was queued again, and the answer to a question; so CleanOK follows the  *)
(* sandboxes for which such a call may still hand a turn over: a pass      *)
(* leaves one of them only when its row says that it cannot be used again. *)
(* First the decisions of a pass. *)

(* What a pass may decide, d, with the phase of s.                         *)
PhaseMakes(s, seen, d) ==
  \/ d = Decide(s, {})
  \/ \E code \in ErrorCode : d = Fail(s, {}, seen, code)
  \/ d = finish(s, {}, seen)
  \/ s.phase = "queued" /\ d = Decide(Enter(s, "provisioning"), {Provision})
  \/ s.phase = "provisioning" /\ d = Decide(s, {Provision})
  \/ /\ s.phase = "starting" /\ ~hasCurrent(s, seen)
     /\ d = Decide(Enter(s, "provisioning"), {Provision})
  \/ s.phase = "starting" /\ \E bad : d = startFailed(s, seen, bad)
  \/ \E e \in ErrorCode : d = EnterStopping([s EXCEPT !.error = e])
  \/ /\ s.phase \in {"awaitingUser", "idle"} /\ s.sandbox \notin Reusable(seen)
     /\ d = requeue(s, seen)
  \/ /\ s.phase = "idle" /\ s.sandbox \notin Reusable(seen)
     /\ d = Decide([s EXCEPT !.sandbox = None], {})
  \/ s.phase \in {"publishing", "stopping"} /\ \E acts : d = Decide(s, acts)

(* A sandbox that is gone, or not wanted, is not used again.               *)
LEMMA ColdNotReusable ==
  ASSUME NEW s, NEW seen, s.sandbox \in Reusable(seen)
  PROVE  /\ hasCurrent(s, seen) /\ liveSandbox(seen[s.sandbox])
         /\ seen[s.sandbox].desired = "running"
BY Zenon, NoneAssumption DEF Reusable, hasCurrent, exists, liveSandbox

LEMMA StepPhaseMakes ==
  ASSUME NEW s, s.phase \in Phase, s.phase # "done", NEW o
  PROVE  PhaseMakes(s, o.rows, StepPhase(s, o))
<1>0. OnTimeout[s.phase] \in ErrorCode /\ OnTimeout["running"] \in ErrorCode /\ "failed" \in ErrorCode
  BY Zenon, TablesType DEF Phase, ErrorCode
<1>a. CASE s.phase \in {"awaitingApproval", "setup"}
  BY Zenon, <1>0, <1>a DEF PhaseMakes, StepPhase
<1>b. CASE s.phase = "queued"
  BY Zenon, <1>0, <1>b DEF PhaseMakes, StepPhase
<1>c. CASE s.phase = "provisioning"
  BY Zenon, <1>0, <1>c DEF PhaseMakes, StepPhase
<1>d. CASE s.phase = "starting"
  BY Zenon, <1>0, <1>d DEF PhaseMakes, StepPhase
<1>e. CASE s.phase = "running"
  BY Zenon, <1>0, <1>e DEF PhaseMakes, StepPhase
<1>f. CASE s.phase = "awaitingUser"
  <2>1. \/ StepPhase(s, o) = Fail(s, {}, o.rows, OnTimeout[s.phase])
        \/ StepPhase(s, o) = Decide(s, {})
        \/ /\ StepPhase(s, o) = requeue(s, o.rows)
           /\ ~(hasCurrent(s, o.rows) /\ liveSandbox(o.rows[s.sandbox]))
    BY Zenon, <1>f DEF StepPhase
  <2> QED
    BY Zenon, <1>0, <1>f, <2>1, ColdNotReusable DEF PhaseMakes
<1>g. CASE s.phase = "publishing"
  BY Zenon, <1>0, <1>g DEF PhaseMakes, StepPhase
<1>h. CASE s.phase = "idle"
  <2> DEFINE warm == /\ hasCurrent(s, o.rows) /\ liveSandbox(o.rows[s.sandbox])
                     /\ o.rows[s.sandbox].desired = "running"
  <2>1. \/ StepPhase(s, o) = Decide(s, {})
        \/ StepPhase(s, o) = finish(s, {}, o.rows)
        \/ StepPhase(s, o) = requeue(s, o.rows) /\ ~warm
        \/ StepPhase(s, o) = Decide([s EXCEPT !.sandbox = None], {}) /\ ~warm
    BY Zenon, <1>h DEF StepPhase
  <2>2. ~warm => s.sandbox \notin Reusable(o.rows)
    BY Zenon, ColdNotReusable
  <2> HIDE DEF warm
  <2> QED
    BY Zenon, <1>h, <2>1, <2>2 DEF PhaseMakes
<1>i. CASE s.phase = "stopping"
  BY Zenon, <1>0, <1>i DEF PhaseMakes, StepPhase
<1> QED
  BY Zenon, <1>a, <1>b, <1>c, <1>d, <1>e, <1>f, <1>g, <1>h, <1>i DEF Phase

(* What a decision d made from s with the rows seen leaves of s.           *)
MadeClean(s, seen, d) ==
  /\ CleanDoc(d.s) /\ d.s.sandbox \in {s.sandbox, None}
  /\ d.s.phase = "awaitingUser" => s.phase = "awaitingUser"
  /\ s.phase \notin Early /\ d.s.phase \in Early =>
       Quiet(d.acts) /\ d.s.sandbox = None
  /\ s.phase \notin Early /\ d.s.sandbox # s.sandbox => s.sandbox \notin Reusable(seen)

LEMMA LateClean ==
  ASSUME NEW s, NEW seen, NEW d, d.s.phase \notin Early \cup {"awaitingUser"},
         d.s.sandbox = s.sandbox \/ (d.s.sandbox = None /\ s.sandbox \notin Reusable(seen))
  PROVE  MadeClean(s, seen, d)
BY Zenon DEF MadeClean, CleanDoc, Early

LEMMA EnterStoppingClean ==
  ASSUME NEW s \in Session, NEW e \in ErrorCode
  PROVE  LET d == EnterStopping([s EXCEPT !.error = e])
         IN d.s.phase = "stopping" /\ d.s.sandbox = s.sandbox
<1> DEFINE c == [s EXCEPT !.error = e]
<1>1. c \in Session /\ c.sandbox = s.sandbox
  BY Zenon DEF Session
<1> HIDE DEF c
<1>2. EnterStopping(c).s = Enter(c, "stopping") /\ "stopping" \in Phase
  BY Zenon DEF EnterStopping, Decide, Phase
<1>3. Enter(c, "stopping").phase = "stopping" /\ Enter(c, "stopping").sandbox = c.sandbox
  BY Zenon, <1>1, <1>2, EnterKeeps
<1>4. EnterStopping(c).s.phase = "stopping" /\ EnterStopping(c).s.sandbox = s.sandbox
  BY Zenon, <1>1, <1>2, <1>3
<1> QED
  BY Zenon, <1>4 DEF c

LEMMA StartFailedClean ==
  ASSUME NEW s \in Session, CleanDoc(s), s.phase = "starting", NEW seen, NEW bad
  PROVE  MadeClean(s, seen, startFailed(s, seen, bad))
<1>1. CASE s.starts >= StartRetries
  <2>1. startFailed(s, seen, bad) = Fail(s, {}, seen, "failed") /\ "failed" \in ErrorCode
    BY Zenon, <1>1 DEF startFailed, ErrorCode
  <2>2. /\ Fail(s, {}, seen, "failed").s.phase = "done"
        /\ Fail(s, {}, seen, "failed").s.sandbox = s.sandbox
    BY <2>1, FailClean
  <2> QED
    BY Zenon, <2>1, <2>2, LateClean DEF Early
<1>2. CASE ~(s.starts >= StartRetries)
  <2> DEFINE snap == s.snapshot /\ ~bad
             c    == [s EXCEPT !.starts = @ + 1, !.sandbox = None, !.snapshot = snap]
  <2>1. s.starts + 1 \in 0 .. StartRetries /\ snap \in BOOLEAN
    BY SMT, <1>2, RetriesAssumption DEF Session
  <2> HIDE DEF snap
  <2>2. c \in Session /\ c.turn = s.turn /\ c.sandbox = None
    BY ZenonT(30), <2>1 DEF Session
  <2>3. startFailed(s, seen, bad).s = Enter(c, "provisioning")
    BY Zenon, <1>2 DEF startFailed, Decide, snap
  <2> HIDE DEF c
  <2>4. /\ startFailed(s, seen, bad).s.phase = "provisioning"
        /\ startFailed(s, seen, bad).s.turn = s.turn /\ startFailed(s, seen, bad).s.sandbox = None
    <3>1. "provisioning" \in Phase
      BY Zenon DEF Phase
    <3>2. LET n == Enter(c, "provisioning")
          IN n.phase = "provisioning" /\ n.turn = c.turn /\ n.sandbox = c.sandbox
      BY Zenon, <2>2, <3>1, EnterKeeps
    <3> QED
      BY Zenon, <2>2, <2>3, <3>2
  <2>5. s.turn = None
    BY Zenon DEF CleanDoc, Early
  <2> QED
    BY Zenon, <2>4, <2>5 DEF MadeClean, CleanDoc, Early
<1> QED
  BY Zenon, <1>1, <1>2

LEMMA RequeueClean ==
  ASSUME NEW s \in Session, NEW seen, s.sandbox \notin Reusable(seen)
  PROVE  MadeClean(s, seen, requeue(s, seen))
<1> DEFINE ex   == s.existing \/ s.pushed \/ s.pr
           c    == [s EXCEPT !.sandbox = None, !.starts = 0, !.turn = None, !.existing = ex]
           acts == {Stop(b) : b \in {d \in Sandboxes : seen[d].desired = "running"}}
<1>1. ex \in BOOLEAN /\ 0 \in 0 .. StartRetries
  BY SMT, RetriesAssumption
<1>2. requeue(s, seen) = Decide(Enter(c, "queued"), acts)
  BY Zenon DEF requeue
<1> HIDE DEF ex
<1>3. c \in Session /\ c.turn = None /\ c.sandbox = None
  BY ZenonT(30), <1>1 DEF Session
<1>4. Quiet(acts)
  BY Zenon, KindsDiffer DEF Quiet
<1> HIDE DEF c, acts
<1>5. "queued" \in Phase
  BY Zenon DEF Phase
<1>6. LET n == Enter(c, "queued") IN n.phase = "queued" /\ n.turn = None /\ n.sandbox = None
  BY Zenon, <1>3, <1>5, EnterKeeps
<1>7. requeue(s, seen).s = Enter(c, "queued") /\ requeue(s, seen).acts = acts
  BY SMT, <1>2 DEF Decide
<1>8. /\ requeue(s, seen).s.phase = "queued" /\ requeue(s, seen).s.turn = None
      /\ requeue(s, seen).s.sandbox = None
  BY Zenon, <1>6, <1>7
<1> QED
  BY Zenon, <1>4, <1>7, <1>8 DEF MadeClean, CleanDoc

LEMMA StepPhaseClean ==
  ASSUME NEW s \in Session, CleanDoc(s), s.phase # "done", NEW o,
         s.phase = "starting" => hasCurrent(s, o.rows)
  PROVE  MadeClean(s, o.rows, StepPhase(s, o))
<1>0. s.phase \in Phase
  BY Zenon DEF Session
<1>1. SUFFICES ASSUME NEW d, PhaseMakes(s, o.rows, d)
               PROVE  MadeClean(s, o.rows, d)
  BY Zenon, <1>0, StepPhaseMakes
<1>2. ASSUME NEW acts, d = Decide(s, acts)
      PROVE  MadeClean(s, o.rows, d)
  <2>1. d.s = s
    BY Zenon, <1>2 DEF Decide
  <2> QED
    BY Zenon, <2>1 DEF MadeClean
<1>3. ASSUME NEW code \in ErrorCode, d = Fail(s, {}, o.rows, code)
      PROVE  MadeClean(s, o.rows, d)
  <2>1. d.s.phase = "done" /\ d.s.sandbox = s.sandbox
    BY <1>3, FailClean
  <2> QED
    BY Zenon, <2>1, LateClean DEF Early
<1>4. CASE d = finish(s, {}, o.rows)
  <2>1. d.s.phase = "done" /\ d.s.sandbox = s.sandbox
    BY <1>4, FinishClean
  <2> QED
    BY Zenon, <2>1, LateClean DEF Early
<1>5. CASE s.phase = "queued" /\ d = Decide(Enter(s, "provisioning"), {Provision})
  <2>1. "provisioning" \in Phase /\ d.s = Enter(s, "provisioning")
    BY Zenon, <1>5 DEF Phase, Decide
  <2>2. d.s.phase = "provisioning" /\ d.s.turn = s.turn /\ d.s.sandbox = s.sandbox
    BY <2>1, EnterKeeps
  <2>3. s.turn = None /\ s.sandbox = None
    BY Zenon, <1>5 DEF CleanDoc, Early
  <2> QED
    BY Zenon, <1>5, <2>2, <2>3 DEF MadeClean, CleanDoc, Early
<1>6. ASSUME NEW bad, s.phase = "starting", d = startFailed(s, o.rows, bad)
      PROVE  MadeClean(s, o.rows, d)
  BY Zenon, <1>6, StartFailedClean
<1>7. ASSUME NEW e \in ErrorCode, d = EnterStopping([s EXCEPT !.error = e])
      PROVE  MadeClean(s, o.rows, d)
  <2>1. d.s.phase = "stopping" /\ d.s.sandbox = s.sandbox
    BY <1>7, EnterStoppingClean
  <2> QED
    BY Zenon, <2>1, LateClean DEF Early
<1>8. CASE s.sandbox \notin Reusable(o.rows) /\ d = requeue(s, o.rows)
  BY Zenon, <1>8, RequeueClean
<1>9. CASE /\ s.phase = "idle" /\ s.sandbox \notin Reusable(o.rows)
           /\ d = Decide([s EXCEPT !.sandbox = None], {})
  <2>1. d.s.phase = "idle" /\ d.s.sandbox = None
    BY Zenon, <1>9 DEF Decide, Session
  <2> QED
    BY Zenon, <1>9, <2>1, LateClean DEF Early
<1> QED
  BY Zenon, <1>1, <1>2, <1>3, <1>4, <1>5, <1>6, <1>7, <1>8, <1>9 DEF PhaseMakes

LEMMA StepClean ==
  ASSUME NEW s \in Session, CleanDoc(s), s.phase # "done", NEW o,
         s.phase = "starting" => hasCurrent(s, o.rows)
  PROVE  MadeClean(s, o.rows, Step(s, o))
<1>1. ASSUME NEW d, d.s.phase \in {"stopping", "done"}, d.s.sandbox = s.sandbox
      PROVE  MadeClean(s, o.rows, d)
  BY Zenon, <1>1, LateClean DEF Early
<1>2. "failed" \in ErrorCode /\ s.error \in ErrorCode /\ [s EXCEPT !.error = s.error] = s
  BY Zenon DEF ErrorCode, Session
<1>3. EnterStopping(s).s.phase = "stopping" /\ EnterStopping(s).s.sandbox = s.sandbox
  BY <1>2, EnterStoppingClean
<1>4. /\ finish(s, {}, o.rows).s.phase = "done" /\ finish(s, {}, o.rows).s.sandbox = s.sandbox
      /\ Fail(s, {}, o.rows, "failed").s.phase = "done"
      /\ Fail(s, {}, o.rows, "failed").s.sandbox = s.sandbox
  BY <1>2, FinishClean, FailClean
<1>5. /\ MadeClean(s, o.rows, EnterStopping(s)) /\ MadeClean(s, o.rows, finish(s, {}, o.rows))
      /\ MadeClean(s, o.rows, Fail(s, {}, o.rows, "failed"))
  BY SMT, <1>1, <1>3, <1>4
<1>6. MadeClean(s, o.rows, StepPhase(s, o))
  BY Zenon, StepPhaseClean
<1> QED
  BY Zenon, <1>5, <1>6 DEF Step

(* The executors. *)

LEMMA AfterProvisionClean ==
  ASSUME NEW s \in Session, CleanDoc(s), s.phase = "provisioning", NEW acts, NEW seen,
         NEW outcome, outcome.kind = "sandbox" => outcome.box \in Sandboxes,
         NEW restored \in BOOLEAN
  PROVE  LET n == AfterProvision(s, acts, seen, outcome, restored).s
         IN /\ CleanDoc(n)
            /\ \/ outcome.kind = "sandbox" /\ n.phase = "starting" /\ n.sandbox = outcome.box
               \/ n.sandbox = None
<1> DEFINE placed == [s EXCEPT !.env = TRUE, !.snapshot = restored, !.sandbox = outcome.box]
           n == AfterProvision(s, acts, seen, outcome, restored).s
<1>0. s.turn = None /\ s.sandbox = None
  BY Zenon DEF CleanDoc, Early
<1>1. CASE outcome.kind = "sandbox"
  <2>1. placed \in Session /\ placed.turn = s.turn /\ placed.sandbox = outcome.box
    BY ZenonT(30), <1>1 DEF Session
  <2>2. n = Enter(placed, "starting") /\ "starting" \in Phase
    BY Zenon, <1>1 DEF AfterProvision, Decide, Phase
  <2> HIDE DEF placed, n
  <2>3. n.phase = "starting" /\ n.turn = None /\ n.sandbox = outcome.box
    BY <1>0, <2>1, <2>2, EnterKeeps
  <2>4. CleanDoc(n)
    BY Zenon, <2>3 DEF CleanDoc
  <2> QED
    BY Zenon, <1>1, <2>3, <2>4 DEF n
<1>2. CASE outcome.kind = "select"
  <2>1. n = Enter(s, "awaitingUser") /\ "awaitingUser" \in Phase
    BY Zenon, <1>2 DEF AfterProvision, Decide, Phase
  <2> HIDE DEF n
  <2>2. n.phase = "awaitingUser" /\ n.turn = None /\ n.sandbox = None
    BY <1>0, <2>1, EnterKeeps
  <2>3. CleanDoc(n)
    BY Zenon, <2>2 DEF CleanDoc
  <2> QED
    BY Zenon, <2>2, <2>3 DEF n
<1>3. CASE outcome.kind \notin {"sandbox", "select"}
  <2> DEFINE c == [s EXCEPT !.attempts = @ + 1]
  <2>1. c.phase = s.phase /\ c.turn = s.turn /\ c.sandbox = s.sandbox
    BY Zenon DEF Session
  <2>2. n = c \/ n = Fail(s, acts, seen, "failed").s
    BY Zenon, <1>3 DEF AfterProvision, Decide
  <2>3. Fail(s, acts, seen, "failed").s.phase = "done" /\ Fail(s, acts, seen, "failed").s.sandbox = s.sandbox
    <3>1. "failed" \in ErrorCode
      BY Zenon DEF ErrorCode
    <3> QED
      BY <3>1, FailClean
  <2> HIDE DEF c, n
  <2>4. CleanDoc(n) /\ n.sandbox = None
    BY Zenon, <1>0, <2>1, <2>2, <2>3 DEF CleanDoc, Early
  <2> QED
    BY Zenon, <2>4 DEF n
<1> QED
  BY Zenon, <1>1, <1>2, <1>3

LEMMA AfterPublishClean ==
  ASSUME NEW s \in Session, s.phase = "publishing", NEW seen, NEW outcome
  PROVE  LET n == AfterPublish(s, seen, outcome).s
         IN n.phase \in {"publishing", "idle", "done"} /\ n.sandbox = s.sandbox
<1> DEFINE c == [s EXCEPT !.pushed = FALSE, !.pr = TRUE]
           e == [s EXCEPT !.attempts = @ + 1]
           n == AfterPublish(s, seen, outcome).s
<1>1. c \in Session /\ c.sandbox = s.sandbox /\ e.phase = s.phase /\ e.sandbox = s.sandbox
  BY ZenonT(30) DEF Session
<1>2. \/ n = Enter(c, "idle") \/ n = e
      \/ n = Fail(s, {}, seen, "failed").s \/ n = Fail(s, {}, seen, "pullRequestFailed").s
  BY Zenon DEF AfterPublish, Decide
<1>3. \A code \in ErrorCode : /\ Fail(s, {}, seen, code).s.phase = "done"
                             /\ Fail(s, {}, seen, code).s.sandbox = s.sandbox
  BY FailClean
<1> HIDE DEF c, e, n
<1>4. Enter(c, "idle").phase = "idle" /\ Enter(c, "idle").sandbox = c.sandbox
  <2>1. "idle" \in Phase
    BY Zenon DEF Phase
  <2> QED
    BY <1>1, <2>1, EnterKeeps
<1>5. "failed" \in ErrorCode /\ "pullRequestFailed" \in ErrorCode
  BY Zenon DEF ErrorCode
<1>6. n.phase \in {"publishing", "idle", "done"} /\ n.sandbox = s.sandbox
  BY Zenon, <1>1, <1>2, <1>3, <1>4, <1>5
<1> QED
  BY Zenon, <1>6 DEF n

LEMMA CompleteClean ==
  ASSUME NEW s \in Session, CleanDoc(s), NEW seen, NEW t \in Turns, NEW req, req.pushed \in BOOLEAN
  PROVE  LET n == completeDecision(s, seen, t, req).s
         IN CleanDoc(n) /\ n.sandbox = s.sandbox
<1> DEFINE pu == s.pushed \/ req.pushed
           br == s.branch \/ req.pushed
           ex == s.existing \/ req.pushed
           c1 == [s EXCEPT !.last = t, !.turn = None]
           c  == [s EXCEPT !.last = t, !.turn = None, !.pushed = pu,
                           !.branch = br, !.existing = ex]
           g  == [c EXCEPT !.stop = TRUE]
           d  == completeDecision(s, seen, t, req)
<1>1. pu \in BOOLEAN /\ br \in BOOLEAN /\ ex \in BOOLEAN
  BY Zenon
<1>2. \/ d = Decide(c, {})
      \/ \E p \in {"publishing", "idle", "awaitingUser"} : d = Decide(Enter(c, p), {})
      \/ d = Decide(Enter(g, "stopping"), {})
      \/ \E code \in {"pullRequestFailed", "failed"} : d = Fail(c, {}, seen, code)
  <2>1. d = IF c.stop \/ c.phase = "stopping" THEN Decide(c, {})
            ELSE CASE req.status = "success" ->
                        Decide(Enter(c, IF c.pushed /\ req.publishes
                                        THEN "publishing" ELSE "idle"), {})
                   [] req.status = "awaitingInput" -> Decide(Enter(c, "awaitingUser"), {})
                   [] req.status = "stopped" -> Decide(Enter(g, "stopping"), {})
                   [] req.status = "pushFailed" -> Fail(c, {}, seen, "pullRequestFailed")
                   [] OTHER -> Fail(c, {}, seen, "failed")
    BY Zenon DEF completeDecision
  <2> HIDE DEF c, g, d
  <2> QED
    BY Zenon, <2>1
<1> HIDE DEF pu, br, ex
<1>3. c1 \in Session /\ c1.phase = s.phase /\ c1.sandbox = s.sandbox /\ c1.turn = None
  BY ZenonT(30) DEF Session
<1>4. c = [c1 EXCEPT !.pushed = pu, !.branch = br, !.existing = ex]
  BY Zenon
<1> HIDE DEF c, c1
<1>5. c \in Session
  BY Zenon, <1>1, <1>3, <1>4, FlagsType
<1>6. c.phase = s.phase /\ c.sandbox = s.sandbox /\ c.turn = None
  BY Zenon, <1>3, <1>4 DEF Session
<1>7. g \in Session /\ g.sandbox = s.sandbox
  BY ZenonT(30), <1>5, <1>6 DEF Session
<1> HIDE DEF g, d
<1>8. SUFFICES CleanDoc(d.s) /\ d.s.sandbox = s.sandbox
  BY Zenon DEF d
<1>9. \A n : /\ n.phase \notin Early \cup {"awaitingUser"} => CleanDoc(n)
             /\ n.turn = None /\ n.phase = "awaitingUser" => CleanDoc(n)
  BY Zenon DEF CleanDoc, Early
<1>a. ASSUME NEW p \in {"publishing", "idle", "awaitingUser"}, d = Decide(Enter(c, p), {})
      PROVE  CleanDoc(d.s) /\ d.s.sandbox = s.sandbox
  <2>1. p \in Phase /\ p \notin Early /\ d.s = Enter(c, p)
    BY Zenon, <1>a DEF Phase, Early, Decide
  <2>2. Enter(c, p).phase = p /\ Enter(c, p).turn = None /\ Enter(c, p).sandbox = s.sandbox
    BY Zenon, <1>5, <1>6, <2>1, EnterKeeps
  <2>3. CleanDoc(Enter(c, p))
    BY Zenon, <1>9, <2>1, <2>2
  <2> QED
    BY Zenon, <2>1, <2>2, <2>3
<1>b. ASSUME d = Decide(Enter(g, "stopping"), {})
      PROVE  CleanDoc(d.s) /\ d.s.sandbox = s.sandbox
  <2>1. "stopping" \in Phase /\ "stopping" \notin Early \cup {"awaitingUser"} /\ d.s = Enter(g, "stopping")
    BY Zenon, <1>b DEF Phase, Early, Decide
  <2>2. Enter(g, "stopping").phase = "stopping" /\ Enter(g, "stopping").sandbox = s.sandbox
    BY Zenon, <1>7, <2>1, EnterKeeps
  <2>3. CleanDoc(Enter(g, "stopping"))
    BY Zenon, <1>9, <2>1, <2>2
  <2> QED
    BY Zenon, <2>1, <2>2, <2>3
<1>c. ASSUME NEW code \in {"pullRequestFailed", "failed"}, d = Fail(c, {}, seen, code)
      PROVE  CleanDoc(d.s) /\ d.s.sandbox = s.sandbox
  <2>1. code \in ErrorCode /\ "done" \notin Early \cup {"awaitingUser"}
    BY Zenon DEF ErrorCode, Early
  <2>2. d.s.phase = "done" /\ d.s.sandbox = s.sandbox
    BY <1>5, <1>6, <1>c, <2>1, FailClean
  <2> QED
    BY Zenon, <1>9, <2>1, <2>2
<1>d. ASSUME d = Decide(c, {})
      PROVE  CleanDoc(d.s) /\ d.s.sandbox = s.sandbox
  <2>1. d.s = c
    BY Zenon, <1>d DEF Decide
  <2> QED
    BY Zenon, <1>6, <2>1 DEF CleanDoc
<1> QED
  BY Zenon, <1>2, <1>a, <1>b, <1>c, <1>d

-----------------------------------------------------------------------------
(* What a call may hand over, and the question it may answer. *)

LEMMA AcceptedExist ==
  ASSUME IInv
  PROVE  Accepted \subseteq Exists /\ None \notin Exists
<1>1. \A h \in Handlers : op[h].kind = "inbox" => op[h].s.sandbox \in Exists
  BY Zenon DEF IInv, CallsOK, GoodCall, Procs
<1> QED
  BY Zenon, <1>1, NoneAssumption DEF Accepted, Accepts, Exists

LEMMA CallAccepts ==
  ASSUME NEW p, NEW n, NEW f, CallForm(p, n, f), Accepts(n)
  PROVE  \/ n.s = op[p].s /\ Accepts(op[p])
         \/ n.s = session /\ session.phase \notin Early
<1>0. NoOp.kind = "none" /\ n.kind = "inbox" /\ acceptTurn(n.s)
  BY Zenon, NoOpType DEF Accepts
<1>1. ~(n = NoOp) /\ ~LooksAgain(p, n, f) /\ ~DecidesCall(p, n)
  BY ZenonT(30), <1>0 DEF LooksAgain, DecidesCall, Keep, StepDecides, ProvisionDecides, At,
     PublishDecides, EndDecides, CompletionDecides
<1>2. CASE Begins(p, n, f)
  <2>1. n.s = session
    BY Zenon, <1>0, <1>2 DEF Begins, BeginsWithCopy, BeginsWithout
  <2>2. session.phase \notin Early
    BY Zenon, <1>0, <2>1 DEF acceptTurn, Early
  <2> QED
    BY Zenon, <2>1, <2>2
<1>3. CASE GoesToStage(p, n)
  BY Zenon, <1>0, <1>3 DEF GoesToStage, Keep, Accepts
<1> QED
  BY Zenon, <1>1, <1>2, <1>3 DEF CallForm

LEMMA CallAnswers ==
  ASSUME NEW p, NEW n, NEW f, CallForm(p, n, f), n.kind = "answer"
  PROVE  op[p].kind = "answer" \/ session.sandbox = None
<1>0. NoOp.kind = "none"
  BY Zenon, NoOpType
<1>1. CASE Begins(p, n, f)
  BY Zenon, <1>1 DEF Begins, BeginsWithCopy, BeginsWithout, AwaitsSelection
<1>2. CASE LooksAgain(p, n, f)
  BY Zenon, <1>2 DEF LooksAgain
<1>3. CASE GoesToStage(p, n) \/ DecidesCall(p, n)
  BY Zenon, <1>3 DEF GoesToStage, DecidesCall, Keep
<1> QED
  BY Zenon, <1>0, <1>1, <1>2, <1>3 DEF CallForm

LEMMA AcceptedStep ==
  ASSUME NEW p \in Procs, OnlyCall(p), CallForm(p, op'[p], fresh'[p]), NEW b \in Accepted'
  PROVE  b \in Accepted \/ (b = session.sandbox /\ session.phase \notin Early)
<1>1. PICK h \in Handlers : b = op'[h].s.sandbox /\ Accepts(op'[h])
  BY Zenon DEF Accepted, Accepts
<1>2. Accepts(op[h]) => op[h].s.sandbox \in Accepted
  BY Zenon DEF Accepted
<1>3. CASE h = p
  <2>1. \/ op'[p].s = op[p].s /\ Accepts(op[p])
        \/ op'[p].s = session /\ session.phase \notin Early
    BY Zenon, <1>1, <1>3, CallAccepts
  <2> QED
    BY Zenon, <1>1, <1>2, <1>3, <2>1
<1>4. CASE h # p
  <2>1. op'[h] = op[h]
    BY Zenon, <1>4 DEF OnlyCall, Procs
  <2> QED
    BY Zenon, <1>1, <1>2, <2>1
<1> QED
  BY Zenon, <1>3, <1>4

-----------------------------------------------------------------------------
(* The copies. *)

(* What is known of the copy of a call that decides.                       *)
LEMMA CopyFacts ==
  ASSUME IInv, DocsOK, CleanOK, NEW p \in Procs
  PROVE  /\ op[p].s \in Session /\ CleanDoc(op[p].s) /\ Housed(op[p].s) /\ CallDoc(op[p])
         /\ session \in Session /\ CleanDoc(session) /\ Housed(session)
         /\ op[p].s.phase = "starting" => hasCurrent(op[p].s, rows)
<1>1. op[p].s \in Session /\ session \in Session
  BY Zenon, CallHeld
<1>2. op[p].s.phase = "starting" => op[p].s.sandbox \in Exists
  BY Zenon DEF IInv, CallsOK, GoodCall, GoodSession, Placed
<1>3. op[p].s.phase = "starting" => hasCurrent(op[p].s, rows)
  BY Zenon, <1>2, NoneAssumption DEF Exists, hasCurrent
<1> QED
  BY Zenon, <1>1, <1>3 DEF DocsOK, CleanOK

LEMMA CallClean ==
  ASSUME IInv, IInv', DocsOK, CleanOK, Settled, NEW p \in Procs, CallForm(p, op'[p], fresh'[p])
  PROVE  CleanDoc(op'[p].s) /\ Housed(op[p].s)'
<1> DEFINE c == op[p]
           n == op'[p]
<1>0. SUFFICES CleanDoc(n.s) /\ n.s.sandbox \in Exists' \cup {None}
  BY Zenon DEF Housed
<1>1. /\ c.s \in Session /\ CleanDoc(c.s) /\ Housed(c.s) /\ CallDoc(c)
      /\ CleanDoc(session) /\ Housed(session)
      /\ c.s.phase = "starting" => hasCurrent(c.s, rows)
  BY Zenon, CopyFacts
<1>2. \A s : Housed(s) => s.sandbox \in Exists' \cup {None}
  BY Zenon DEF Settled, Housed
<1>3. NewSession.sandbox = None /\ CleanDoc(NewSession) /\ NoOp.s = NewSession
  BY Zenon, NewSessionType, NoOpType DEF CleanDoc
<1>4. CASE n = NoOp \/ Begins(p, n, fresh'[p]) \/ LooksAgain(p, n, fresh'[p]) \/ GoesToStage(p, n)
  <2>1. n.s \in {session, c.s, NewSession}
    BY Zenon, <1>3, <1>4 DEF Begins, BeginsWithCopy, BeginsWithout, LooksAgain, GoesToStage
  <2> QED
    BY Zenon, <1>1, <1>2, <1>3, <2>1
<1> HIDE DEF n
<1>5. CASE StepDecides(p, n)
  <2>1. PICK fact \in Fact : IsDecision(n, Step(c.s, Observe(c.s, fact)))
    BY Zenon, <1>5 DEF StepDecides
  <2>2. c.s.phase # "done"
    BY Zenon, <1>1, <1>5 DEF StepDecides, CallDoc
  <2>3. Observe(c.s, fact).rows = rows
    BY Zenon DEF Observe
  <2>4. MadeClean(c.s, Observe(c.s, fact).rows, Step(c.s, Observe(c.s, fact)))
    BY Zenon, <1>1, <2>2, <2>3, StepClean
  <2> QED
    BY Zenon, <1>1, <1>2, <2>1, <2>4 DEF MadeClean, IsDecision
<1>6. CASE ProvisionDecides(p, n)
  <2>1. c.kind = "reconcile" /\ c.pc = "provision"
    BY Zenon, <1>6 DEF ProvisionDecides, At
  <2>2. PICK outcome \in ProvisionOutcome(c.s, c.rows), restored \in Restorable(c.s) :
          IsDecision(n, AfterProvision(c.s, c.acts \ {Provision}, c.rows, outcome, restored))
    BY Zenon, <1>6 DEF ProvisionDecides
  <2>3. c.s.phase = "provisioning"
    BY Zenon, <1>1, <2>1 DEF CallDoc
  <2>4. (outcome.kind = "sandbox" => outcome.box \in Sandboxes) /\ restored \in BOOLEAN
    BY Zenon, OutcomeType
  <2>5. CleanDoc(n.s) /\ (n.s.phase = "starting" \/ n.s.sandbox = None)
    BY <1>1, <2>2, <2>3, <2>4, AfterProvisionClean DEF IsDecision
  <2>6. n.s.phase = "starting" => n.s.sandbox \in Exists'
    BY Zenon DEF n, IInv, CallsOK, GoodCall, GoodSession, Placed
  <2> QED
    BY Zenon, <2>5, <2>6
<1>7. CASE PublishDecides(p, n)
  <2>1. PICK outcome : IsDecision(n, AfterPublish(c.s, c.rows, outcome))
    BY Zenon, <1>7 DEF PublishDecides
  <2>2. c.s.phase = "publishing"
    BY Zenon, <1>1, <1>7 DEF PublishDecides, At, CallDoc
  <2>3. n.s.phase \in {"publishing", "idle", "done"} /\ n.s.sandbox = c.s.sandbox
    BY <1>1, <2>1, <2>2, AfterPublishClean DEF IsDecision
  <2>4. CleanDoc(n.s)
    BY Zenon, <2>3 DEF CleanDoc, Early
  <2> QED
    BY Zenon, <1>1, <1>2, <2>3, <2>4
<1>8. CASE EndDecides(p, n)
  <2>1. n.s = finish(c.s, {}, rows).s \/ n.s = Fail(c.s, {}, rows, "failed").s
    BY Zenon, <1>8 DEF EndDecides, IsDecision
  <2>2. "failed" \in ErrorCode
    BY Zenon DEF ErrorCode
  <2>3. n.s.phase = "done" /\ n.s.sandbox = c.s.sandbox
    BY <1>1, <2>1, <2>2, FinishClean, FailClean
  <2>4. CleanDoc(n.s)
    BY Zenon, <2>3 DEF CleanDoc, Early
  <2> QED
    BY Zenon, <1>1, <1>2, <2>3, <2>4
<1>9. CASE CompletionDecides(p, n)
  <2>1. c.kind = "complete" /\ n.s = completeDecision(c.s, Seen(p), c.turn, c.req).s
    BY Zenon, <1>9 DEF CompletionDecides, IsDecision
  <2>2. c.turn \in Turns /\ c.req.pushed \in BOOLEAN
    BY Zenon, <2>1 DEF IInv, CallsOK, GoodCall, CallInFlight, Request
  <2>3. CleanDoc(n.s) /\ n.s.sandbox = c.s.sandbox
    BY <1>1, <2>1, <2>2, CompleteClean
  <2> QED
    BY Zenon, <1>1, <1>2, <2>3
<1> QED
  BY Zenon, <1>4, <1>5, <1>6, <1>7, <1>8, <1>9 DEF n, CallForm, DecidesCall

-----------------------------------------------------------------------------
(* The passes. *)

LEMMA StageOf ==
  ASSUME NEW acts
  PROVE  /\ NextStage(acts) # "read"
         /\ NextStage(acts) = "provision" => Provision \in acts
         /\ Quiet(acts) => NextStage(acts) \in {"effects", "commit"}
         /\ Quiet(acts) /\ acts # {} => NextStage(acts) = "effects"
BY Zenon DEF NextStage, Quiet

(* The pass that moves.                                                    *)
MovesPass(p) ==
  /\ p \in Reconcilers /\ p \in Procs /\ session' = session /\ fresh'[p]
  /\ \A b \in Accepted' : b \in Accepted
  /\ Accepted \subseteq Exists /\ None \notin Exists

LEMMA HousedSettled ==
  ASSUME Settled, NEW s, Housed(s), s.sandbox \in Reusable(rows')
  PROVE  s.sandbox \in Reusable(rows)
<1>1. s.sandbox # None
  BY Zenon, NoneAssumption DEF Reusable
<1> QED
  BY Zenon, <1>1 DEF Settled, Housed

LEMMA LeaseClean ==
  ASSUME EarlyClean, NEW p, MovesPass(p), op'[p].s = session, op'[p].pc = "read"
  PROVE  PassClean(op[p])'
<1>1. session.phase \in Early => session.sandbox \notin Accepted'
  BY Zenon DEF EarlyClean, MovesPass
<1> QED
  BY Zenon, <1>1 DEF PassClean, MovesPass

LEMMA EffectsClean ==
  ASSUME Settled, Housed(session), NEW p, MovesPass(p), PassClean(op[p]),
         op'[p].s = op[p].s, op'[p].pc = "commit"
  PROVE  PassClean(op[p])'
<1> DEFINE c == op[p]
<1>1. session.sandbox \in Reusable(rows') => session.sandbox \in Reusable(rows)
  BY Zenon, HousedSettled
<1>2. session.phase \notin Early /\ c.s.sandbox # session.sandbox =>
        session.sandbox \notin Reusable(rows')
  BY Zenon, <1>1 DEF PassClean
<1>3. session.phase \notin Early /\ c.s.phase \in Early => c.s.sandbox = None
  BY Zenon DEF PassClean
<1>4. session.phase \in Early /\ c.s.phase \in Early => c.s.sandbox \notin Accepted'
  BY Zenon DEF PassClean, MovesPass
<1>5. c.s.phase = "awaitingUser" =>
        c.s.sandbox = None \/ (session.phase = "awaitingUser" /\ c.s.sandbox = session.sandbox)
  BY Zenon DEF PassClean
<1> QED
  BY ZenonT(30), <1>2, <1>3, <1>4, <1>5 DEF PassClean, MovesPass

LEMMA StepDecidesClean ==
  ASSUME IInv, DocsOK, CleanOK, Settled, NEW p, MovesPass(p), fresh[p], StepDecides(p, op'[p])
  PROVE  PassClean(op[p])'
<1> DEFINE n == op'[p]
<1>1. /\ op[p].s \in Session /\ CleanDoc(op[p].s) /\ CallDoc(op[p]) /\ Housed(session)
      /\ op[p].s.phase = "starting" => hasCurrent(op[p].s, rows)
  BY Zenon, CopyFacts DEF MovesPass
<1>2. op[p].s = session
  BY Zenon DEF CleanOK, PassClean, MovesPass, StepDecides
<1>3. PICK fact \in Fact : IsDecision(n, Step(session, Observe(session, fact)))
  BY Zenon, <1>2 DEF StepDecides
<1>4. session.phase # "done" /\ Observe(session, fact).rows = rows
  BY Zenon, <1>1, <1>2 DEF StepDecides, CallDoc, Observe
<1>5. MadeClean(session, rows, Step(session, Observe(session, fact)))
  BY <1>1, <1>2, <1>4, StepClean
<1>6. /\ n.s.sandbox \in {session.sandbox, None}
      /\ n.s.phase = "awaitingUser" => session.phase = "awaitingUser"
      /\ session.phase \notin Early /\ n.s.phase \in Early =>
           Quiet(n.acts) /\ n.s.sandbox = None
      /\ session.phase \notin Early /\ n.s.sandbox # session.sandbox =>
           session.sandbox \notin Reusable(rows)
  BY Zenon, <1>3, <1>5 DEF MadeClean, IsDecision
<1>7. n.pc = NextStage(n.acts) /\ (Provision \in n.acts => n.rows = rows)
  BY Zenon DEF StepDecides
<1> HIDE DEF n
<1>8. n.pc # "read" /\ (n.pc = "provision" => n.rows = rows)
  BY Zenon, <1>7, StageOf
<1>9. session.phase \in Early => n.s.sandbox \notin Accepted' /\ Accepted' \cap Reusable(rows) = {}
  BY Zenon, <1>6 DEF CleanOK, EarlyClean, MovesPass
<1>10. session.phase \notin Early /\ n.s.phase \in Early =>
         n.pc \in {"effects", "commit"} /\ n.s.sandbox = None
  BY Zenon, <1>6, <1>7, StageOf
<1>11. session.phase \notin Early /\ n.s.sandbox # session.sandbox =>
         session.sandbox \notin Reusable(rows')
  BY Zenon, <1>1, <1>6, HousedSettled
<1> QED
  BY ZenonT(30), <1>6, <1>8, <1>9, <1>10, <1>11 DEF n, PassClean, MovesPass

(* A pass that provisions has not seen a sandbox of an accepted turn.      *)
LEMMA OutcomeBox ==
  ASSUME NEW s, NEW seen, NEW outcome \in ProvisionOutcome(s, seen), outcome.kind = "sandbox"
  PROVE  outcome.box \in Reusable(seen) \/ outcome.box \in Unused
<1>1. \A b \in Newest(Reusable(seen)) : b \in Reusable(seen)
  BY Zenon DEF Newest
<1>2. \A b \in NextID : b \in Unused
  BY Zenon DEF NextID
<1>3. outcome \in {[kind |-> "sandbox", box |-> b] :
        b \in IF Reusable(seen) # {} THEN Newest(Reusable(seen)) ELSE NextID}
  BY DEF ProvisionOutcome
<1> QED
  BY <1>1, <1>2, <1>3

LEMMA ProvisionDecidesClean ==
  ASSUME IInv, DocsOK, CleanOK, NEW p, MovesPass(p), fresh[p], ProvisionDecides(p, op'[p])
  PROVE  PassClean(op[p])'
<1> DEFINE n == op'[p]
           c == op[p]
<1>1. c.s \in Session /\ CleanDoc(c.s) /\ CallDoc(c)
  BY Zenon, CopyFacts DEF MovesPass
<1>2. c.kind = "reconcile" /\ c.pc = "provision" /\ n.pc = NextStage(n.acts) /\ PassClean(c)
  BY Zenon DEF ProvisionDecides, At, CleanOK, MovesPass
<1>3. c.s.phase = "provisioning"
  BY Zenon, <1>1, <1>2 DEF CallDoc
<1>4. session.phase \in Early
  BY Zenon, <1>2, <1>3 DEF PassClean, Early
<1>5. PICK outcome \in ProvisionOutcome(c.s, c.rows), restored \in Restorable(c.s) :
        IsDecision(n, AfterProvision(c.s, c.acts \ {Provision}, c.rows, outcome, restored))
  BY Zenon DEF ProvisionDecides
<1>6. (outcome.kind = "sandbox" => outcome.box \in Sandboxes) /\ restored \in BOOLEAN
  BY Zenon, OutcomeType
<1>7. \/ outcome.kind = "sandbox" /\ n.s.phase = "starting" /\ n.s.sandbox = outcome.box
      \/ n.s.sandbox = None
  BY <1>1, <1>3, <1>5, <1>6, AfterProvisionClean DEF IsDecision
<1>8. Provision \notin n.acts
  <2>1. Provision \notin c.acts \ {Provision}
    BY Zenon
  <2>2. Provision \notin AfterProvision(c.s, c.acts \ {Provision}, c.rows, outcome, restored).acts
    BY Zenon, <2>1, ProvisionQuiet
  <2> QED
    BY Zenon, <1>5, <2>2 DEF IsDecision
<1> HIDE DEF n
<1>9. n.pc # "read" /\ n.pc # "provision"
  BY Zenon, <1>2, <1>8, StageOf
<1>10. n.s.sandbox \notin Accepted'
  <2>1. Accepted \cap Reusable(c.rows) = {}
    BY Zenon, <1>2, <1>4 DEF PassClean
  <2>2. Accepted \cap Unused = {}
    BY Zenon DEF MovesPass, Exists, Unused
  <2>3. outcome.kind = "sandbox" => outcome.box \in Reusable(c.rows) \/ outcome.box \in Unused
    BY Zenon, OutcomeBox
  <2>4. None \notin Accepted'
    BY Zenon DEF MovesPass
  <2>5. \A b \in Accepted' : b \in Accepted
    BY Zenon DEF MovesPass
  <2> QED
    BY Zenon, <1>7, <2>1, <2>2, <2>3, <2>4, <2>5
<1>11. n.s.phase = "awaitingUser" => n.s.sandbox = None
  BY Zenon, <1>7
<1> QED
  BY ZenonT(30), <1>4, <1>9, <1>10, <1>11 DEF n, PassClean, MovesPass

LEMMA PublishDecidesClean ==
  ASSUME IInv, DocsOK, CleanOK, Settled, NEW p, MovesPass(p), fresh[p], PublishDecides(p, op'[p])
  PROVE  PassClean(op[p])'
<1> DEFINE n == op'[p]
           c == op[p]
<1>1. c.s \in Session /\ CallDoc(c)
  BY Zenon, CopyFacts DEF MovesPass
<1>2. PICK outcome : IsDecision(n, AfterPublish(c.s, c.rows, outcome))
  BY Zenon DEF PublishDecides
<1>3. c.s.phase = "publishing" /\ n.pc = NextStage(n.acts)
  BY Zenon, <1>1 DEF PublishDecides, At, CallDoc
<1>4. n.s.phase \in {"publishing", "idle", "done"} /\ n.s.sandbox = c.s.sandbox
  BY <1>1, <1>2, <1>3, AfterPublishClean DEF IsDecision
<1>5. n.s.phase \notin Early /\ n.s.phase # "awaitingUser"
  BY Zenon, <1>4 DEF Early
<1>6. Provision \notin n.acts
  <2>1. \A t, code : Provision \notin Fail(t, {}, c.rows, code).acts
    BY Zenon, KindsDiffer DEF Fail, finish, Decide
  <2>2. Provision \notin AfterPublish(c.s, c.rows, outcome).acts
    BY Zenon, <2>1 DEF AfterPublish, Decide
  <2> QED
    BY Zenon, <1>2, <2>2 DEF IsDecision
<1>7. PassClean(c) /\ Housed(session)
  BY Zenon DEF CleanOK, MovesPass
<1> HIDE DEF n
<1>8. n.pc # "read" /\ n.pc # "provision"
  BY Zenon, <1>3, <1>6, StageOf
<1>9. session.phase \notin Early /\ n.s.sandbox # session.sandbox =>
        session.sandbox \notin Reusable(rows')
  BY Zenon, <1>4, <1>7, HousedSettled DEF PassClean
<1> QED
  BY ZenonT(30), <1>5, <1>8, <1>9 DEF n, PassClean, MovesPass

LEMMA MovedPassClean ==
  ASSUME IInv, DocsOK, CleanOK, Settled, NEW p, MovesPass(p), CallForm(p, op'[p], fresh'[p])
  PROVE  PassClean(op[p])'
<1> DEFINE n == op'[p]
           c == op[p]
<1>1. p \in Reconcilers /\ p \in Procs /\ p \notin Handlers /\ fresh'[p]
  BY Zenon, ProcsAssumption DEF MovesPass
<1>2. c.kind \in {"none", "reconcile"} /\ (c.pc = "mark" => c.kind \in {"bootstrap", "inbox"})
  BY Zenon, <1>1 DEF DocsOK, IInv, CallsOK, GoodCall
<1>3. EarlyClean /\ Housed(session) /\ (fresh[p] => PassClean(c))
  BY Zenon, <1>1 DEF CleanOK
<1>4. CASE Begins(p, n, fresh'[p])
  <2>1. n.s = session /\ n.pc = "read"
    BY Zenon, <1>1, <1>4 DEF Begins, BeginsWithCopy
  <2> QED
    BY Zenon, <1>3, <2>1, LeaseClean
<1>5. CASE fresh'[p] = fresh[p] /\ GoesToStage(p, n)
  <2>1. n.pc = "commit" /\ n.s = c.s
    BY ZenonT(30), <1>2, <1>5 DEF GoesToStage, Keep, PicksTurn, BootstrapPick, InboxPick, At, MarkPicked
  <2> QED
    BY Zenon, <1>1, <1>3, <1>5, <2>1, EffectsClean
<1>6. CASE fresh'[p] = fresh[p] /\ DecidesCall(p, n)
  <2>1. StepDecides(p, n) \/ ProvisionDecides(p, n) \/ PublishDecides(p, n)
    BY Zenon, <1>2, <1>6 DEF DecidesCall, EndDecides, CompletionDecides
  <2> QED
    BY Zenon, <1>1, <1>6, <2>1, StepDecidesClean, ProvisionDecidesClean, PublishDecidesClean
<1>7. ~LooksAgain(p, n, fresh'[p])
  BY Zenon, <1>1 DEF LooksAgain
<1> QED
  BY Zenon, <1>1, <1>4, <1>5, <1>6, <1>7 DEF CallForm

(* A pass that does not move.                                              *)
LEMMA OtherPassClean ==
  ASSUME IInv, CleanOK, Settled, session' = session, NEW q \in Reconcilers,
         op'[q] = op[q], fresh'[q] = fresh[q],
         \A b \in Accepted' : b \in Accepted \/ (b = session.sandbox /\ session.phase \notin Early)
  PROVE  (fresh[q] => PassClean(op[q]))'
<1> DEFINE c == op[q]
<1> SUFFICES ASSUME fresh[q] PROVE PassClean(op[q])'
  BY Zenon
<1>1. PassClean(c) /\ Housed(session)
  BY Zenon DEF CleanOK
<1>3. session.phase \notin Early /\ c.s.sandbox # session.sandbox =>
        session.sandbox \notin Reusable(rows')
  BY Zenon, <1>1, HousedSettled DEF PassClean
<1>4. session.phase \notin Early /\ c.s.phase \in Early =>
        c.pc \in {"effects", "commit"} /\ c.s.sandbox = None
  BY Zenon, <1>1 DEF PassClean
<1>5. session.phase \in Early /\ c.s.phase \in Early => c.s.sandbox \notin Accepted'
  BY Zenon, <1>1 DEF PassClean
<1>6. session.phase \in Early /\ c.pc = "provision" => Accepted' \cap Reusable(c.rows) = {}
  BY Zenon, <1>1 DEF PassClean
<1>7. /\ c.pc = "read" => c.s = session
      /\ c.s.phase = "awaitingUser" =>
           c.s.sandbox = None \/ (session.phase = "awaitingUser" /\ c.s.sandbox = session.sandbox)
  BY Zenon, <1>1 DEF PassClean
<1> QED
  BY ZenonT(30), <1>3, <1>4, <1>5, <1>6, <1>7 DEF PassClean

LEMMA EarlyKept ==
  ASSUME IInv, CleanOK, Settled, session' = session,
         \A b \in Accepted' : b \in Accepted \/ (b = session.sandbox /\ session.phase \notin Early)
  PROVE  EarlyClean'
<1>1. Accepted \subseteq Exists
  BY Zenon, AcceptedExist
<1>2. EarlyClean
  BY Zenon DEF CleanOK
<1> QED
  BY Zenon, <1>1, <1>2 DEF EarlyClean, Settled

(* A step of a call, with the document as it is.                           *)
LEMMA CallStepClean ==
  ASSUME IInv, IInv', DocsOK, CleanOK, Settled, NEW p \in Procs, OnlyCall(p),
         \A q \in Procs : q # p => fresh'[q] = fresh[q],
         session' = session, CallForm(p, op'[p], fresh'[p])
  PROVE  CleanOK'
<1>1. \A b \in Accepted' : b \in Accepted \/ (b = session.sandbox /\ session.phase \notin Early)
  BY Zenon, AcceptedStep
<1>2. EarlyClean'
  BY Zenon, <1>1, EarlyKept
<1>3. CleanDoc(session') /\ Housed(session)'
  BY Zenon DEF CleanOK, Housed, Settled
<1>4. ASSUME NEW q \in Procs
      PROVE  CleanDoc(op'[q].s) /\ Housed(op[q].s)'
  <2>1. CASE q = p
    BY Zenon, <2>1, CallClean
  <2>2. CASE q # p
    <3>1. op'[q] = op[q] /\ CleanDoc(op[q].s) /\ Housed(op[q].s)
      BY Zenon, <2>2 DEF OnlyCall, CleanOK
    <3> QED
      BY Zenon, <3>1 DEF Housed, Settled
  <2> QED
    BY Zenon, <2>1, <2>2
<1>5. AnswerClean'
  <2> SUFFICES ASSUME NEW h \in Handlers, op'[h].kind = "answer", session.phase = "awaitingUser"
               PROVE  session.sandbox = None
    BY Zenon DEF AnswerClean
  <2>1. op[h].kind = "answer" => session.sandbox = None
    BY Zenon DEF CleanOK, AnswerClean
  <2>2. h = p => op[h].kind = "answer" \/ session.sandbox = None
    BY Zenon, CallAnswers
  <2>3. h # p => op'[h] = op[h]
    BY Zenon DEF OnlyCall, Procs
  <2> QED
    BY Zenon, <2>1, <2>2, <2>3
<1>6. ASSUME NEW r \in Reconcilers
      PROVE  (fresh[r] => PassClean(op[r]))'
  <2>1. r \in Procs
    BY Zenon DEF Procs
  <2>2. CASE r # p
    BY Zenon, <1>1, <2>1, <2>2, OtherPassClean DEF OnlyCall
  <2>3. ASSUME r = p, fresh'[p]
        PROVE  PassClean(op[p])'
    <3>1. \A h \in Handlers : op'[h] = op[h]
      BY Zenon, <2>3, ProcsAssumption DEF OnlyCall, Procs
    <3>2. \A b \in Accepted' : b \in Accepted
      BY Zenon, <3>1 DEF Accepted, Accepts
    <3>3. MovesPass(p)
      BY Zenon, <2>3, <3>2, AcceptedExist DEF MovesPass
    <3> QED
      BY Zenon, <3>3, MovedPassClean
  <2> QED
    BY Zenon, <2>2, <2>3
<1> QED
  BY Zenon, <1>2, <1>3, <1>4, <1>5, <1>6 DEF CleanOK

LEMMA StillClean ==
  ASSUME IInv, CleanOK, Settled, UNCHANGED <<session, op, fresh>>
  PROVE  CleanOK'
<1>1. \A b \in Accepted' : b \in Accepted
  BY Zenon DEF Accepted, Accepts
<1>2. EarlyClean'
  BY Zenon, <1>1, EarlyKept
<1>3. CleanDoc(session') /\ Housed(session)' /\ \A q \in Procs : CleanDoc(op'[q].s) /\ Housed(op[q].s)'
  BY Zenon DEF CleanOK, Housed, Settled
<1>4. AnswerClean'
  BY Zenon DEF CleanOK, AnswerClean
<1>5. ASSUME NEW r \in Reconcilers
      PROVE  (fresh[r] => PassClean(op[r]))'
  BY Zenon, <1>1, OtherPassClean
<1> QED
  BY Zenon, <1>2, <1>3, <1>4, <1>5 DEF CleanOK

-----------------------------------------------------------------------------
(* The writes. *)

LEMMA WriteClean ==
  ASSUME CleanOK, Settled, Write(session'), CleanDoc(session'), Housed(session)',
         \A q \in Procs : op'[q].s \in {op[q].s, NewSession}, EarlyClean', AnswerClean'
  PROVE  CleanOK'
<1>1. NewSession.sandbox = None /\ CleanDoc(NewSession)
  BY Zenon, NewSessionType DEF CleanDoc
<1>2. \A q \in Procs : CleanDoc(op'[q].s) /\ Housed(op[q].s)'
  BY Zenon, <1>1 DEF CleanOK, Housed, Settled
<1>3. \A r \in Reconcilers : ~fresh'[r]
  BY Zenon DEF Write, Procs
<1> QED
  BY Zenon, <1>2, <1>3 DEF CleanOK

(* A write in one go keeps the phase, ends the session or queues it.       *)
SamePlace(s, n) ==
  /\ n.sandbox = s.sandbox
  /\ \/ n.phase = s.phase /\ n.turn = s.turn
     \/ n.phase = "done"
     \/ s.phase = "awaitingApproval" /\ n.phase = "queued" /\ n.turn = s.turn

LEMMA AtOnceMakes ==
  ASSUME session \in Session, NEW n, WritesAtOnce(n)
  PROVE  SamePlace(session, n)
<1>0. "done" \in Phase /\ "queued" \in Phase
  BY Zenon DEF Phase
<1>1. CASE n = [session EXCEPT !.stop = TRUE] \/ n = session
  BY Zenon, <1>1 DEF Session, SamePlace
<1>2. CASE n = Enter([session EXCEPT !.rejected = TRUE], "done")
  <2> DEFINE c == [session EXCEPT !.rejected = TRUE]
  <2>1. c \in Session /\ c.sandbox = session.sandbox
    BY ZenonT(30) DEF Session
  <2>2. n = Enter(c, "done")
    BY Zenon, <1>2
  <2> HIDE DEF c
  <2>3. Enter(c, "done").phase = "done" /\ Enter(c, "done").sandbox = c.sandbox
    BY Zenon, <1>0, <2>1, EnterKeeps
  <2> QED
    BY Zenon, <2>1, <2>2, <2>3 DEF SamePlace
<1>3. CASE session.phase = "awaitingApproval" /\ n = Enter(session, "queued")
  <2>1. LET e == Enter(session, "queued")
        IN e.phase = "queued" /\ e.sandbox = session.sandbox /\ e.turn = session.turn
    BY Zenon, <1>0, EnterKeeps
  <2> QED
    BY Zenon, <1>3, <2>1 DEF SamePlace
<1>4. CASE session.phase = "idle" /\ n = EndIdle(session)
  BY Zenon, <1>4 DEF EndIdle, Session, SamePlace
<1>5. CASE n = archive(session)
  <2> DEFINE a == [session EXCEPT !.archived = TRUE]
  <2>1. a \in Session /\ a.sandbox = session.sandbox /\ a.phase = session.phase /\ a.turn = session.turn
    BY ZenonT(30) DEF Session
  <2>2. n = a \/ n = EndIdle(a) \/ n = [a EXCEPT !.stop = TRUE]
    BY Zenon, <1>5 DEF archive
  <2> HIDE DEF a
  <2> QED
    BY Zenon, <2>1, <2>2 DEF EndIdle, Session, SamePlace
<1> QED
  BY Zenon, <1>1, <1>2, <1>3, <1>4, <1>5 DEF WritesAtOnce

LEMMA AtOnceClean ==
  ASSUME IInv, DocsOK, CleanOK, Settled, op' = op, Write(session'), WritesAtOnce(session')
  PROVE  CleanOK'
<1>0. session \in Session /\ CleanDoc(session) /\ Housed(session) /\ EarlyClean /\ AnswerClean
  BY Zenon DEF CleanOK, IInv, SessionOK, GoodSession
<1>1. SamePlace(session, session')
  BY Zenon, <1>0, AtOnceMakes
<1>2. session.phase = "awaitingApproval" => session.sandbox = None /\ session.turn = None
  BY Zenon DEF DocsOK, Doc
<1>3. CleanDoc(session')
  BY Zenon, <1>0, <1>1, <1>2 DEF CleanDoc, SamePlace, Early
<1>4. Housed(session)'
  BY Zenon, <1>0, <1>1 DEF Housed, Settled, SamePlace
<1>5. \A b : b \in Accepted' => b \in Accepted
  BY Zenon DEF Accepted, Accepts
<1>6. session'.phase \in Early => session.phase \in Early
  BY Zenon, <1>1 DEF SamePlace, Early
<1>7. EarlyClean'
  <2>1. Accepted \subseteq Exists
    BY Zenon, AcceptedExist
  <2> QED
    BY Zenon, <1>0, <1>1, <1>5, <1>6, <2>1 DEF EarlyClean, Settled, SamePlace
<1>8. session'.phase = "awaitingUser" => session.phase = "awaitingUser" /\ session'.sandbox = session.sandbox
  BY Zenon, <1>1 DEF SamePlace
<1>9. AnswerClean'
  BY Zenon, <1>0, <1>8 DEF AnswerClean
<1>10. \A q \in Procs : op'[q].s \in {op[q].s, NewSession}
  BY Zenon
<1> QED
  BY Zenon, <1>3, <1>4, <1>7, <1>9, <1>10, WriteClean

(* The commit of a pass.                                                   *)
LEMMA PassWriteClean ==
  ASSUME IInv, DocsOK, CleanOK, Settled, NEW p \in Reconcilers, Write(session'), OnlyCall(p),
         WritesLast(p, session'), AfterWrite(p, op'[p])
  PROVE  CleanOK'
<1> DEFINE c == op[p]
<1>0. p \in Procs /\ c.kind \in {"none", "reconcile"}
  BY Zenon DEF DocsOK, Procs
<1>1. c.pc = "commit" /\ fresh[p] /\ session' = c.s /\ op'[p] = NoOp
  BY ZenonT(30), <1>0 DEF WritesLast, WritesCopy, WritesReset, WritesPhase, AfterWrite
<1>2. PassClean(c) /\ CleanDoc(c.s) /\ Housed(c.s) /\ EarlyClean /\ AnswerClean /\ Housed(session)
  BY Zenon, <1>0, <1>1 DEF CleanOK
<1>3. \A h \in Handlers : op'[h] = op[h]
  BY Zenon, ProcsAssumption DEF OnlyCall, Procs
<1>4. \A b : b \in Accepted' => b \in Accepted
  BY Zenon, <1>3 DEF Accepted, Accepts
<1>5. Accepted \subseteq Exists /\ None \notin Exists
  BY Zenon, AcceptedExist
<1>6. c.s.phase \in Early => c.s.sandbox \notin Accepted
  BY Zenon, <1>2, <1>5 DEF PassClean
<1>7. EarlyClean'
  <2>1. ASSUME NEW b \in Accepted, b \in Reusable(rows')
        PROVE  b = c.s.sandbox
    <3>1. b \in Reusable(rows)
      BY Zenon, <1>5, <2>1 DEF Settled
    <3>2. b = session.sandbox /\ session.phase \notin Early
      BY Zenon, <1>2, <2>1, <3>1 DEF EarlyClean
    <3> QED
      BY Zenon, <1>2, <3>1, <3>2 DEF PassClean
  <2> QED
    BY Zenon, <1>1, <1>4, <1>6, <2>1 DEF EarlyClean
<1>8. AnswerClean'
  BY Zenon, <1>1, <1>2, <1>3 DEF AnswerClean, PassClean
<1>9. CleanDoc(session') /\ Housed(session)'
  BY Zenon, <1>1, <1>2 DEF Housed, Settled
<1>10. \A q \in Procs : op'[q].s \in {op[q].s, NewSession}
  BY Zenon, <1>1, NoOpType DEF OnlyCall
<1> QED
  BY Zenon, <1>7, <1>8, <1>9, <1>10, WriteClean

(* What a request writes.                                                  *)
LEMMA ResetClean ==
  ASSUME NEW s \in Session, NEW rec
  PROVE  LET n == resetForTurn(s, rec) IN CleanDoc(n) /\ n.sandbox = None
<1> DEFINE ex == branchPublished(s, rec)
           c  == [s EXCEPT !.error = "", !.stop = FALSE, !.sandbox = None, !.starts = 0,
                           !.turn = None, !.pushed = FALSE, !.existing = ex]
<1>1. ex \in BOOLEAN /\ 0 \in 0 .. StartRetries
  BY RetriesAssumption, OnPRBranchAssumption DEF branchPublished, Session
<1>2. resetForTurn(s, rec) = Enter(c, "queued")
  BY Zenon DEF resetForTurn
<1>3. "queued" \in Phase /\ "" \in ErrorCode
  BY Zenon DEF Phase, ErrorCode
<1> HIDE DEF ex
<1>4. c \in Session /\ c.turn = None /\ c.sandbox = None
  BY ZenonT(30), <1>1, <1>3 DEF Session
<1> HIDE DEF c
<1>5. LET e == Enter(c, "queued") IN e.phase = "queued" /\ e.turn = None /\ e.sandbox = None
  BY Zenon, <1>3, <1>4, EnterKeeps
<1> QED
  BY Zenon, <1>2, <1>5 DEF CleanDoc

LEMMA PhaseWriteClean ==
  ASSUME IInv, DocsOK, CleanOK, NEW p \in Handlers, NEW n, WritesPhase(p, n)
  PROVE  CleanDoc(n) /\ n.sandbox = session.sandbox
<1> DEFINE c == op[p]
<1>0. p \in Procs /\ session \in Session /\ CleanDoc(session) /\ c \in CallInFlight
  BY Zenon, CallHeld DEF Procs, CleanOK
<1>1. {"queued", "running", "setup", "awaitingUser"} \subseteq Phase
  BY Zenon DEF Phase
<1>2. CASE /\ c.kind = "answer" /\ session.phase = "awaitingUser"
           /\ n = Enter([session EXCEPT !.env = TRUE], "queued")
  <2> DEFINE e == [session EXCEPT !.env = TRUE]
  <2>1. session.sandbox = None /\ session.turn = None
    BY Zenon, <1>0, <1>2 DEF CleanOK, AnswerClean, CleanDoc
  <2>2. e \in Session /\ e.turn = session.turn /\ e.sandbox = session.sandbox
    BY ZenonT(30), <1>0 DEF Session
  <2>3. n = Enter(e, "queued") /\ "queued" \in Phase
    BY Zenon, <1>1, <1>2
  <2> HIDE DEF e
  <2>4. LET x == Enter(e, "queued") IN x.phase = "queued" /\ x.turn = e.turn /\ x.sandbox = e.sandbox
    BY Zenon, <2>2, <2>3, EnterKeeps
  <2> QED
    BY Zenon, <2>1, <2>2, <2>3, <2>4 DEF CleanDoc
<1>3. CASE n \in {Enter(Started(session, c.turn), "running"), Enter(Started(session, c.turn), "setup")}
  <2> DEFINE t == IF c.turn # None THEN c.turn ELSE session.turn
             e == [session EXCEPT !.starts = 0, !.turn = t]
  <2>1. Started(session, c.turn) = e
    BY Zenon DEF Started
  <2>2. t \in Turns \cup {None} /\ 0 \in 0 .. StartRetries
    BY <1>0, RetriesAssumption DEF CallInFlight, Session
  <2> HIDE DEF t
  <2>3. e \in Session /\ e.sandbox = session.sandbox
    BY ZenonT(30), <1>0, <2>2 DEF Session
  <2> HIDE DEF e
  <2>4. PICK ph \in {"running", "setup"} : n = Enter(e, ph)
    BY Zenon, <1>3, <2>1
  <2>5. Enter(e, ph).phase = ph /\ Enter(e, ph).sandbox = e.sandbox
    BY Zenon, <1>1, <2>3, EnterKeeps
  <2>6. ph \notin Early \cup {"awaitingUser"}
    BY Zenon DEF Early
  <2> QED
    BY Zenon, <2>3, <2>4, <2>5, <2>6 DEF CleanDoc, Early
<1>4. CASE n = Enter(session, "running")
  <2>1. Enter(session, "running").phase = "running" /\ Enter(session, "running").sandbox = session.sandbox
    BY Zenon, <1>0, <1>1, EnterKeeps
  <2> QED
    BY Zenon, <1>4, <2>1 DEF CleanDoc, Early
<1>5. CASE session.phase = "running" /\ n = Enter(session, "awaitingUser")
  <2>1. session.sandbox # None
    BY Zenon, <1>5, NoneAssumption DEF IInv, SessionOK, GoodSession, Placed, Exists
  <2>2. LET x == Enter(session, "awaitingUser") IN x.phase = "awaitingUser" /\ x.sandbox = session.sandbox
    BY Zenon, <1>0, <1>1, EnterKeeps
  <2> QED
    BY Zenon, <1>5, <2>1, <2>2 DEF CleanDoc, Early
<1>6. CASE /\ c.kind = "inbox" /\ c.pc = "update" /\ session.sandbox = c.s.sandbox
           /\ n = Deliver(session, c.turn)
  <2> DEFINE t == IF session.turn = None THEN c.turn ELSE session.turn
             e == [session EXCEPT !.turn = t]
  <2>1. session.sandbox \in Accepted /\ session.sandbox \in Exists /\ session.sandbox # None
    <3>1. acceptTurn(c.s)
      BY Zenon, <1>0, <1>6 DEF DocsOK, CallDoc
    <3>2. session.sandbox \in Accepted
      BY Zenon, <1>6, <3>1 DEF Accepted, Accepts
    <3> QED
      BY Zenon, <3>2, AcceptedExist
  <2>2. session.phase \notin Early
    BY Zenon, <2>1 DEF CleanOK, EarlyClean
  <2>3. t \in Turns \cup {None}
    BY Zenon, <1>0 DEF CallInFlight, Session
  <2>4. n = IF session.phase \in {"idle", "awaitingUser"} THEN Enter(e, "running") ELSE e
    BY Zenon, <1>6 DEF Deliver
  <2> HIDE DEF t
  <2>5. e \in Session /\ e.sandbox = session.sandbox /\ e.phase = session.phase
    BY ZenonT(30), <1>0, <2>3 DEF Session
  <2> HIDE DEF e
  <2>6. Enter(e, "running").phase = "running" /\ Enter(e, "running").sandbox = e.sandbox
    BY Zenon, <1>1, <2>5, EnterKeeps
  <2>7. n.sandbox = session.sandbox /\ n.phase \notin Early
    BY Zenon, <2>2, <2>4, <2>5, <2>6 DEF Early
  <2> QED
    BY Zenon, <2>1, <2>7 DEF CleanDoc, Early
<1> QED
  BY Zenon, <1>2, <1>3, <1>4, <1>5, <1>6 DEF WritesPhase

LEMMA PullRequestPlace ==
  ASSUME session \in Session
  PROVE  SamePlace(session, PullRequestMade)
<1> DEFINE c == [session EXCEPT !.pr = TRUE]
<1>1. c \in Session /\ c.sandbox = session.sandbox /\ c.phase = session.phase /\ c.turn = session.turn
  BY ZenonT(30) DEF Session
<1>2. \/ PullRequestMade = c
      \/ PullRequestMade = [c EXCEPT !.error = "", !.state = TerminalState("", c.stop)]
  BY Zenon DEF PullRequestMade
<1> HIDE DEF c
<1> QED
  BY Zenon, <1>1, <1>2 DEF SamePlace, Session

LEMMA LastClean ==
  ASSUME IInv, DocsOK, CleanOK, NEW p \in Handlers, NEW n, WritesLast(p, n)
  PROVE  CleanDoc(n) /\ Housed(n)
<1>0. p \in Procs /\ session \in Session /\ CleanDoc(session) /\ Housed(session)
  BY Zenon, CallHeld DEF Procs, CleanOK
<1>1. CASE WritesCopy(p, n)
  BY Zenon, <1>0, <1>1 DEF WritesCopy, CleanOK
<1>2. CASE WritesReset(p, n)
  <2>1. n = resetForTurn(session, op[p].rec)
    BY Zenon, <1>2 DEF WritesReset
  <2>2. CleanDoc(n) /\ n.sandbox = None
    BY Zenon, <1>0, <2>1, ResetClean
  <2> QED
    BY Zenon, <2>2 DEF Housed
<1>3. CASE WritesPhase(p, n)
  BY Zenon, <1>0, <1>3, PhaseWriteClean DEF Housed
<1>4. CASE n = session
  BY Zenon, <1>0, <1>4
<1>5. CASE n = PullRequestMade
  <2>1. SamePlace(session, n)
    BY Zenon, <1>0, <1>5, PullRequestPlace
  <2>2. session.phase = "awaitingApproval" => session.sandbox = None /\ session.turn = None
    BY Zenon DEF DocsOK, Doc
  <2> QED
    BY Zenon, <1>0, <2>1, <2>2 DEF CleanDoc, Housed, SamePlace, Early
<1> QED
  BY Zenon, <1>1, <1>2, <1>3, <1>4, <1>5 DEF WritesLast

(* The request that has written is over, and there is no other.            *)
LEMMA HandlerWriteClean ==
  ASSUME OneRequest, IInv, DocsOK, CleanOK, Settled, NEW p \in Handlers, Write(session'), OnlyCall(p),
         WritesLast(p, session'), AfterWrite(p, op'[p])
  PROVE  CleanOK'
<1>1. op'[p].kind \in {"none", "restart"} /\ op'[p].s = NewSession
  BY ZenonT(30), NoOpType DEF AfterWrite, Keep
<1>2. \A h \in Handlers : op'[h].kind \in {"none", "restart"}
  BY Zenon, <1>1 DEF OneRequest
<1>3. Accepted' = {}
  BY Zenon, <1>2 DEF Accepted, Accepts
<1>4. EarlyClean' /\ AnswerClean'
  BY Zenon, <1>2, <1>3 DEF EarlyClean, AnswerClean
<1>5. CleanDoc(session') /\ session'.sandbox \in Exists \cup {None}
  BY Zenon, LastClean DEF Housed
<1>6. Housed(session)'
  BY Zenon, <1>5 DEF Housed, Settled
<1>7. \A q \in Procs : op'[q].s \in {op[q].s, NewSession}
  BY Zenon, <1>1 DEF OnlyCall
<1> QED
  BY Zenon, <1>4, <1>5, <1>6, <1>7, WriteClean

LEMMA CleanStep ==
  ASSUME OneRequest, IInv, IInv', DocsOK, CleanOK, Settled, Form
  PROVE  CleanOK'
<1>1. CASE UNCHANGED <<session, op, fresh>>
  BY Zenon, <1>1, StillClean
<1>2. CASE Write(session') /\ op' = op /\ WritesAtOnce(session')
  BY Zenon, <1>2, AtOnceClean
<1>3. ASSUME NEW p \in Procs, Write(session'), OnlyCall(p), WritesLast(p, session'), AfterWrite(p, op'[p])
      PROVE  CleanOK'
  <2>1. CASE p \in Reconcilers
    BY Zenon, <1>3, <2>1, PassWriteClean
  <2>2. CASE p \in Handlers
    BY Zenon, <1>3, <2>2, HandlerWriteClean
  <2> QED
    BY Zenon, <2>1, <2>2 DEF Procs
<1>4. ASSUME NEW p \in Procs, OnlyCall(p), \A q \in Procs : q # p => fresh'[q] = fresh[q],
             session' = session, CallForm(p, op'[p], fresh'[p])
      PROVE  CleanOK'
  BY Zenon, <1>4, CallStepClean
<1> QED
  BY Zenon, <1>1, <1>2, <1>3, <1>4 DEF Form

(* A sandbox that is made was not there before.                            *)
LEMMA RowsSettled ==
  ASSUME RowsCool \/ \E r \in Reconcilers : provision(r)
  PROVE  Settled
<1>1. CASE RowsCool
  BY Zenon, <1>1 DEF RowsCool, Cooler, Settled, Exists, Reusable, liveSandbox
<1>2. ASSUME NEW r \in Reconcilers, provision(r)
      PROVE  Settled
  <2>1. \A b \in Exists : rows'[b] = rows[b]
    BY Zenon, <1>2 DEF provision, Exists, Unused
  <2> QED
    BY Zenon, <2>1 DEF Settled, Exists, Reusable
<1> QED
  BY Zenon, <1>1, <1>2

LEMMA InitClean == Init => CleanOK
<1> SUFFICES ASSUME Init PROVE CleanOK
  BY Zenon
<1>1. \A p \in Procs : op[p] = NoOp /\ fresh[p] = FALSE
  BY Zenon DEF Init
<1>2. NoOp.kind = "none" /\ NoOp.s = NewSession /\ CleanDoc(NewSession) /\ NewSession.sandbox = None
  BY Zenon, NoOpType, NewSessionType DEF CleanDoc
<1>3. session.sandbox = None /\ session.turn = None
  <2>1. NewSession \in Session /\ NewSession.turn = None /\ "awaitingApproval" \in Phase
    BY Zenon, NewSessionType DEF Phase
  <2>2. LET e == Enter(NewSession, "awaitingApproval") IN e.sandbox = None /\ e.turn = None
    BY Zenon, <1>2, <2>1, EnterKeeps
  <2> QED
    BY Zenon, <1>2, <2>1, <2>2 DEF Init, Starts
<1>4. \A p \in Procs : op[p].kind = "none" /\ op[p].s = NewSession /\ ~fresh[p]
  BY Zenon, <1>1, <1>2
<1>5. Accepted = {} /\ AnswerClean
  BY Zenon, <1>4 DEF Accepted, Accepts, AnswerClean, Procs
<1> QED
  BY Zenon, <1>2, <1>3, <1>4, <1>5 DEF CleanOK, CleanDoc, Housed, EarlyClean, Procs

=============================================================================
