--------------------------- MODULE DocumentProofs ---------------------------
(***************************************************************************)
(* What a step does to the document, to the copies and to the runners, and *)
(* that it keeps DocsOK and InOrder.                                       *)
(*                                                                         *)
(* Form describes every step's effect on session, op and fresh: a call     *)
(* takes a copy, decides on its copy, moves to its next stage, ends, or    *)
(* writes its copy back.  CursorsKept does the same for the runners.  The  *)
(* last part shows that every action of CodingSessions has that form.      *)
(***************************************************************************)
EXTENDS SessionMachineProofs

-----------------------------------------------------------------------------
(* Decisions make documents of documents. *)

LEMMA EnterShows ==
  ASSUME NEW s \in Session, NEW p \in Phase
  PROVE  /\ Enter(s, p).error = s.error
         /\ Enter(s, p).ended = (p = "done")
         /\ Enter(s, p).deadline = (p \in Timed)
         /\ Enter(s, p).state = IF p = "done" THEN TerminalState(s.error, s.stop \/ s.rejected)
                                ELSE PolicyState[p]
BY Zenon DEF Enter, Session

LEMMA EnterDoc ==
  ASSUME NEW s \in Session, NEW p \in Phase \ {"awaitingApproval"},
         s.error # "" => p \in {"stopping", "done"},
         s.error = "pullRequestFailed" => p = "done",
         p \in {"publishing", "idle"} => s.turn = None,
         s.turn # None => s.turn # s.last
  PROVE  /\ Doc(Enter(s, p)) /\ Enter(s, p).phase = p /\ Enter(s, p).turn = s.turn
         /\ Enter(s, p).last = s.last /\ Enter(s, p).sandbox = s.sandbox
<1> DEFINE n == Enter(s, p)
<1>1. /\ n \in Session /\ n.phase = p /\ n.turn = s.turn /\ n.last = s.last /\ n.sandbox = s.sandbox
  BY Zenon, EnterKeeps
<1>2. /\ n.error = s.error /\ n.ended = (p = "done") /\ n.deadline = (p \in Timed)
      /\ n.state = IF p = "done" THEN TerminalState(s.error, s.stop \/ s.rejected) ELSE PolicyState[p]
  BY Zenon, EnterShows
<1> HIDE DEF n
<1>3. s.error \in ErrorCode
  BY Zenon DEF Session
<1>4. TerminalState(s.error, s.stop \/ s.rejected) \in {"complete", "error", "stale"}
      /\ (TerminalState(s.error, s.stop \/ s.rejected) = "error" <=> s.error # "")
  BY Zenon DEF TerminalState
<1>5. CoherentSession(n)
  BY Zenon, <1>1, <1>2, <1>3, <1>4 DEF CoherentSession, Timed
<1> QED
  BY Zenon, <1>1, <1>5 DEF Doc, n

LEMMA ActiveDoc ==
  ASSUME NEW s \in Session, NEW p \in Phase \ {"awaitingApproval", "publishing", "idle"},
         s.error = "", s.turn # None => s.turn # s.last
  PROVE  /\ Doc(Enter(s, p)) /\ Enter(s, p).phase = p /\ Enter(s, p).turn = s.turn
         /\ Enter(s, p).last = s.last /\ Enter(s, p).sandbox = s.sandbox
<1>1. /\ p \in Phase \ {"awaitingApproval"} /\ p \notin {"publishing", "idle"}
      /\ s.error # "pullRequestFailed"
  BY Zenon
<1> QED
  BY Zenon, <1>1, EnterDoc

LEMMA FinishDoc ==
  ASSUME NEW s \in Session, NEW acts, NEW seen
  PROVE  /\ Doc(finish(s, acts, seen).s) /\ finish(s, acts, seen).s.phase = "done"
         /\ finish(s, acts, seen).s.turn = None /\ finish(s, acts, seen).s.last = s.last
<1> DEFINE c == [s EXCEPT !.pushed = FALSE, !.turn = None]
<1>1. c \in Session /\ c.turn = None /\ c.last = s.last
  BY Zenon DEF Session
<1>2. finish(s, acts, seen).s = Enter(c, "done")
  BY Zenon DEF finish, Decide
<1> HIDE DEF c
<1>3. /\ "done" \in Phase \ {"awaitingApproval"} /\ "done" \in {"stopping", "done"}
      /\ "done" \notin {"publishing", "idle"}
  BY Zenon DEF Phase
<1>4. /\ Doc(Enter(c, "done")) /\ Enter(c, "done").phase = "done" /\ Enter(c, "done").turn = c.turn
      /\ Enter(c, "done").last = c.last
  BY Zenon, <1>1, <1>3, EnterDoc
<1> QED
  BY Zenon, <1>1, <1>2, <1>4

LEMMA FailDoc ==
  ASSUME NEW s \in Session, NEW acts, NEW seen, NEW code \in ErrorCode
  PROVE  /\ Doc(Fail(s, acts, seen, code).s) /\ Fail(s, acts, seen, code).s.phase = "done"
         /\ Fail(s, acts, seen, code).s.turn = None /\ Fail(s, acts, seen, code).s.last = s.last
<1> DEFINE c == [s EXCEPT !.error = code]
<1>1. c \in Session /\ c.last = s.last
  BY Zenon DEF Session
<1>2. Fail(s, acts, seen, code) = finish(c, acts, seen)
  BY Zenon DEF Fail
<1> HIDE DEF c
<1> QED
  BY <1>1, <1>2, FinishDoc

(* What a pass may make of a document.                                     *)
PassDoc(s, d) ==
  /\ Doc(d.s) /\ d.s.last = s.last
  /\ d.s.phase = "done" => d.s.turn = None
  /\ d.s.phase = "publishing" => s.phase = "publishing"

(* The errors of a document that is not ending.                            *)
LEMMA DocError ==
  ASSUME NEW s, Doc(s), s.phase \notin {"stopping", "done"}
  PROVE  s.error = ""
BY Zenon DEF Doc, CoherentSession

(* A pass keeps the document, apart from fields that Doc does not read.    *)
LEMMA TouchDoc ==
  ASSUME NEW s, Doc(s), NEW c \in Session,
         c.phase = s.phase, c.state = s.state, c.error = s.error, c.ended = s.ended,
         c.deadline = s.deadline, c.turn = s.turn, c.last = s.last,
         c.sandbox \in {s.sandbox, None}
  PROVE  Doc(c)
BY Zenon DEF Doc, CoherentSession

LEMMA MovePassDoc ==
  ASSUME NEW s, Doc(s), NEW c \in Session, NEW p \in Phase, NEW acts,
         s.phase \notin {"stopping", "done"}, c.error = "", c.last = s.last,
         c.turn \in {s.turn, None}, p \notin {"awaitingApproval", "publishing", "done"},
         p = "idle" => s.turn = None
  PROVE  PassDoc(s, Decide(Enter(c, p), acts))
<1>1. c.turn # None => c.turn # c.last
  BY Zenon DEF Doc
<1>2. /\ p \in Phase \ {"awaitingApproval"} /\ c.error # "pullRequestFailed"
      /\ (p \in {"publishing", "idle"} => c.turn = None)
  BY Zenon
<1>2a. /\ Doc(Enter(c, p)) /\ Enter(c, p).phase = p /\ Enter(c, p).last = s.last
  BY Zenon, <1>1, <1>2, EnterDoc
<1>3. Decide(Enter(c, p), acts).s = Enter(c, p)
  BY Zenon DEF Decide
<1> QED
  BY Zenon, <1>2a, <1>3 DEF PassDoc

LEMMA FinishPassDoc ==
  ASSUME NEW s \in Session, NEW acts, NEW seen
  PROVE  PassDoc(s, finish(s, acts, seen))
BY FinishDoc DEF PassDoc

LEMMA FailPassDoc ==
  ASSUME NEW s \in Session, NEW acts, NEW seen, NEW code \in ErrorCode
  PROVE  PassDoc(s, Fail(s, acts, seen, code))
BY FailDoc DEF PassDoc

LEMMA SamePassDoc ==
  ASSUME NEW s, Doc(s), s.phase # "done", NEW acts
  PROVE  PassDoc(s, Decide(s, acts))
BY Zenon DEF PassDoc, Decide

LEMMA EnterStoppingDoc ==
  ASSUME NEW s, Doc(s), NEW c \in Session, c.error \in {"", "failed"}, c.last = s.last, c.turn = s.turn
  PROVE  PassDoc(s, EnterStopping(c))
<1>1. c.turn # None => c.turn # c.last
  BY Zenon DEF Doc
<1>2. "stopping" \in Phase \ {"awaitingApproval"}
  BY Zenon DEF Phase
<1>3. Doc(Enter(c, "stopping")) /\ Enter(c, "stopping").phase = "stopping" /\ Enter(c, "stopping").last = s.last
  BY Zenon, <1>1, <1>2, EnterDoc
<1>4. EnterStopping(c).s = Enter(c, "stopping")
  BY Zenon DEF EnterStopping, Decide
<1> QED
  BY Zenon, <1>3, <1>4 DEF PassDoc

(* What the stages of a pass rely on: a pass provisions or publishes only  *)
(* what its copy says.                                                     *)
StagesFit(d) ==
  /\ Provision \in d.acts => d.s.phase = "provisioning" /\ Publish \notin d.acts
  /\ Publish \in d.acts => d.s.phase = "publishing"

LEMMA FinishQuiet ==
  ASSUME NEW s, NEW acts, NEW seen, Quiet(acts)
  PROVE  Quiet(finish(s, acts, seen).acts)
BY Zenon, KindsDiffer DEF Quiet, finish, Decide

LEMMA FailQuiet ==
  ASSUME NEW s, NEW acts, NEW seen, NEW code, Quiet(acts)
  PROVE  Quiet(Fail(s, acts, seen, code).acts)
BY Zenon, FinishQuiet DEF Fail

LEMMA StartFailedDoc ==
  ASSUME NEW s, Doc(s), s.phase = "starting", NEW seen, NEW bad \in BOOLEAN
  PROVE  PassDoc(s, startFailed(s, seen, bad)) /\ StagesFit(startFailed(s, seen, bad))
<1>1. s \in Session
  BY Zenon DEF Doc
<1>2. CASE s.starts >= StartRetries
  <2>1. startFailed(s, seen, bad) = Fail(s, {}, seen, "failed")
    BY Zenon, <1>2 DEF startFailed
  <2>2. Quiet({}) /\ "failed" \in ErrorCode
    BY Zenon DEF Quiet, ErrorCode
  <2> QED
    BY Zenon, <1>1, <2>1, <2>2, FailPassDoc, FailQuiet DEF Quiet, StagesFit
<1>3. CASE ~(s.starts >= StartRetries)
  <2> DEFINE snap == s.snapshot /\ ~bad
             c    == [s EXCEPT !.starts = @ + 1, !.sandbox = None,
                               !.snapshot = snap]
             acts == {Stop(s.sandbox), Revoke(s.sandbox), Provision}
  <2>1. snap \in BOOLEAN
    BY Zenon
  <2>2. s.starts + 1 \in 0 .. StartRetries
    BY <1>1, <1>3, RetriesAssumption DEF Session
  <2> HIDE DEF snap
  <2>3. c \in Session /\ c.error = s.error /\ c.last = s.last /\ c.turn = s.turn
    BY ZenonT(30), <1>1, <2>1, <2>2 DEF Session
  <2>4. Provision \in acts /\ Publish \notin acts
    BY Zenon, KindsDiffer
  <2>5. startFailed(s, seen, bad) = Decide(Enter(c, "provisioning"), acts)
    BY Zenon, <1>3 DEF startFailed, snap
  <2> HIDE DEF c, acts
  <2>6. s.error = ""
    BY Zenon, DocError
  <2>7. "provisioning" \in Phase
    BY Zenon DEF Phase
  <2>8. PassDoc(s, Decide(Enter(c, "provisioning"), acts))
    BY Zenon, <2>3, <2>6, <2>7, MovePassDoc
  <2>9. Enter(c, "provisioning").phase = "provisioning"
    BY Zenon, <2>3, <2>7, EnterKeeps
  <2> QED
    BY <2>4, <2>5, <2>8, <2>9 DEF StagesFit, Decide
<1> QED
  BY Zenon, <1>2, <1>3

LEMMA RequeueDoc ==
  ASSUME NEW s, Doc(s), s.phase \notin {"stopping", "done"}, NEW seen
  PROVE  PassDoc(s, requeue(s, seen)) /\ StagesFit(requeue(s, seen))
<1> DEFINE ex   == s.existing \/ s.pushed \/ s.pr
           c    == [s EXCEPT !.sandbox = None, !.starts = 0, !.turn = None,
                             !.existing = ex]
           acts == {Stop(b) : b \in {d \in Sandboxes : seen[d].desired = "running"}}
<1>1. ex \in BOOLEAN /\ s \in Session
  BY Zenon DEF Doc
<1>2. requeue(s, seen) = Decide(Enter(c, "queued"), acts)
  BY Zenon DEF requeue
<1> HIDE DEF ex
<1>0. 0 \in 0 .. StartRetries
  BY RetriesAssumption
<1>3. c \in Session /\ c.error = s.error /\ c.last = s.last /\ c.turn = None
  BY ZenonT(30), <1>0, <1>1 DEF Session
<1>4. Quiet(acts)
  BY Zenon, KindsDiffer DEF Quiet
<1> HIDE DEF c, acts
<1>5. s.error = ""
  BY Zenon, DocError
<1>6. "queued" \in Phase
  BY Zenon DEF Phase
<1>7. PassDoc(s, Decide(Enter(c, "queued"), acts))
  BY Zenon, <1>3, <1>5, <1>6, MovePassDoc
<1> QED
  BY <1>2, <1>4, <1>7 DEF StagesFit, Quiet, Decide

(* What a decision of a pass is.                                           *)
PassFits(s, d) == PassDoc(s, d) /\ StagesFit(d)

LEMMA SameFits ==
  ASSUME NEW s, Doc(s), s.phase # "done", NEW acts,
         Provision \in acts => s.phase = "provisioning" /\ Publish \notin acts,
         Publish \in acts => s.phase = "publishing"
  PROVE  PassFits(s, Decide(s, acts))
<1>1. PassDoc(s, Decide(s, acts))
  BY Zenon, SamePassDoc
<1> QED
  BY Zenon, <1>1 DEF PassFits, StagesFit, Decide

LEMMA FailFits ==
  ASSUME NEW s \in Session, NEW acts, NEW seen, NEW code \in ErrorCode, Quiet(acts)
  PROVE  PassFits(s, Fail(s, acts, seen, code)) /\ PassFits(s, finish(s, acts, seen))
BY Zenon, FailPassDoc, FailQuiet, FinishPassDoc, FinishQuiet DEF PassFits, StagesFit, Quiet

LEMMA EnterStoppingFits ==
  ASSUME NEW s, Doc(s), NEW c \in Session, c.error \in {"", "failed"}, c.last = s.last, c.turn = s.turn
  PROVE  PassFits(s, EnterStopping(c))
<1>1. PassDoc(s, EnterStopping(c))
  BY Zenon, EnterStoppingDoc
<1>2. Quiet(EnterStopping(c).acts)
  BY Zenon, KindsDiffer DEF Quiet, EnterStopping, Decide
<1> QED
  BY Zenon, <1>1, <1>2 DEF PassFits, StagesFit, Quiet

LEMMA StepPhaseDoc ==
  ASSUME NEW s, Doc(s), s.phase # "done", NEW o
  PROVE  PassFits(s, StepPhase(s, o))
<1> DEFINE has  == hasCurrent(s, o.rows)
           row  == IF has THEN o.rows[s.sandbox] ELSE NoRow
           late == timedOut(s, o)
           warm == has /\ liveSandbox(row) /\ row.desired = "running"
           fail == Fail(s, {}, o.rows, OnTimeout[s.phase])
           same == Decide(s, {})
           anew == Decide(Enter(s, "provisioning"), {Provision})
           bad  == o.badSnapshot /\ goneSandbox(row)
           wanted == {Stop(b) : b \in {c \in Sandboxes :
                                         o.rows[c].desired = "running"}}
<1>0. s \in Session /\ s.phase \in Phase
  BY Zenon DEF Doc, Session
<1>1. PassFits(s, same)
  BY Zenon, SameFits
<1>1a. s.phase = "provisioning" => PassFits(s, Decide(s, {Provision}))
  BY Zenon, SameFits, KindsDiffer
<1>1b. s.phase = "publishing" => PassFits(s, Decide(s, {Publish}))
  BY Zenon, SameFits, KindsDiffer
<1>2. PassFits(s, fail)
  <2>1. OnTimeout[s.phase] \in ErrorCode /\ Quiet({})
    BY Zenon, <1>0, TablesType DEF Quiet
  <2> QED
    BY Zenon, <1>0, <2>1, FailFits
<1>3. PassFits(s, Fail(s, {}, o.rows, "failed")) /\ PassFits(s, finish(s, {}, o.rows))
  <2>1. "failed" \in ErrorCode /\ Quiet({})
    BY Zenon DEF Quiet, ErrorCode
  <2> QED
    BY Zenon, <1>0, <2>1, FailFits
<1>4. s.phase \in {"queued", "starting"} => PassFits(s, anew)
  <2>1. SUFFICES ASSUME s.phase \in {"queued", "starting"} PROVE PassFits(s, anew)
    BY Zenon
  <2>2. s.error = ""
    BY Zenon, <2>1, DocError
  <2>3. "provisioning" \in Phase
    BY Zenon DEF Phase
  <2>4. PassDoc(s, anew)
    BY Zenon, <1>0, <2>1, <2>2, <2>3, MovePassDoc
  <2>5. Enter(s, "provisioning").phase = "provisioning"
    BY Zenon, <1>0, <2>3, EnterKeeps
  <2>6. Provision \in {Provision} /\ Publish \notin {Provision}
    BY Zenon, KindsDiffer
  <2> QED
    BY Zenon, <2>4, <2>5, <2>6 DEF PassFits, StagesFit, Decide
<1>5. s.phase = "starting" => PassFits(s, startFailed(s, o.rows, bad))
  <2>1. bad \in BOOLEAN
    BY Zenon
  <2> QED
    BY Zenon, <2>1, StartFailedDoc DEF PassFits
<1>6. s.phase \in {"awaitingUser", "idle"} => PassFits(s, requeue(s, o.rows))
  BY Zenon, RequeueDoc DEF PassFits
<1>7. PassFits(s, EnterStopping([s EXCEPT !.error = OnTimeout["running"]]))
  <2> DEFINE c == [s EXCEPT !.error = OnTimeout["running"]]
  <2>1. OnTimeout["running"] \in ErrorCode /\ OnTimeout["running"] = "failed"
    BY Zenon, TablesType DEF Phase, OnTimeout
  <2>2. /\ c \in Session /\ c.last = s.last /\ c.turn = s.turn /\ c.error = OnTimeout["running"]
    BY Zenon, <1>0, <2>1 DEF Session
  <2> HIDE DEF c
  <2>3. PassFits(s, EnterStopping(c))
    BY Zenon, <2>1, <2>2, EnterStoppingFits
  <2> QED
    BY Zenon, <2>3 DEF c
<1>8. PassFits(s, Decide([s EXCEPT !.sandbox = None], {}))
  <2> DEFINE c == [s EXCEPT !.sandbox = None]
  <2>1. /\ c \in Session /\ c.phase = s.phase /\ c.state = s.state /\ c.error = s.error
        /\ c.ended = s.ended /\ c.deadline = s.deadline /\ c.turn = s.turn /\ c.last = s.last
        /\ c.sandbox = None
    BY Zenon, <1>0 DEF Session
  <2> HIDE DEF c
  <2>2. Doc(c)
    BY Zenon, <2>1, TouchDoc
  <2>3. PassFits(s, Decide(c, {}))
    BY Zenon, <2>1, <2>2 DEF PassFits, PassDoc, StagesFit, Decide
  <2> QED
    BY Zenon, <2>3 DEF c
<1>9. PassFits(s, Decide(s, wanted))
  <2>1. Quiet(wanted)
    BY Zenon, KindsDiffer DEF Quiet
  <2> HIDE DEF wanted
  <2> QED
    BY Zenon, <2>1, SameFits DEF Quiet
<1> HIDE DEF fail, same, anew, wanted, bad, late, warm
<1>a. CASE s.phase \in {"awaitingApproval", "setup"}
  <2>1. StepPhase(s, o) = IF late THEN fail ELSE same
    BY Zenon, <1>a DEF StepPhase, fail, same, late
  <2> QED
    BY Zenon, <2>1, <1>1, <1>2
<1>b. CASE s.phase = "queued"
  <2>1. StepPhase(s, o) = IF ~o.enabled \/ o.quota THEN Fail(s, {}, o.rows, "failed")
                          ELSE IF o.capacity THEN anew
                          ELSE IF late THEN fail ELSE same
    BY Zenon, <1>b DEF StepPhase, fail, same, late, anew
  <2> QED
    BY Zenon, <2>1, <1>b, <1>1, <1>2, <1>3, <1>4
<1>c. CASE s.phase = "provisioning"
  <2>1. StepPhase(s, o) = IF late THEN fail ELSE Decide(s, {Provision})
    BY Zenon, <1>c DEF StepPhase, fail, late
  <2> QED
    BY Zenon, <2>1, <1>c, <1>1a, <1>2
<1>d. CASE s.phase = "starting"
  <2>1. StepPhase(s, o) = IF ~has THEN anew
                          ELSE IF goneSandbox(row) \/ late
                               THEN startFailed(s, o.rows, bad) ELSE same
    BY Zenon, <1>d DEF StepPhase, same, late, anew, bad
  <2> QED
    BY Zenon, <2>1, <1>d, <1>1, <1>4, <1>5
<1>e. CASE s.phase = "running"
  <2>1. StepPhase(s, o) = IF late
                          THEN EnterStopping([s EXCEPT !.error = OnTimeout["running"]])
                          ELSE same
    BY Zenon, <1>e DEF StepPhase, same, late
  <2> QED
    BY Zenon, <2>1, <1>1, <1>7
<1>f. CASE s.phase = "awaitingUser"
  <2>1. StepPhase(s, o) = IF late THEN fail
                          ELSE IF o.pending /\ ~(has /\ liveSandbox(row))
                               THEN requeue(s, o.rows) ELSE same
    BY Zenon, <1>f DEF StepPhase, same, late, fail
  <2> QED
    BY Zenon, <2>1, <1>f, <1>1, <1>2, <1>6
<1>g. CASE s.phase = "publishing"
  <2>1. StepPhase(s, o) = IF late THEN fail ELSE Decide(s, {Publish})
    BY Zenon, <1>g DEF StepPhase, late, fail
  <2> QED
    BY Zenon, <2>1, <1>g, <1>1b, <1>2
<1>h. CASE s.phase = "idle"
  <2>1. StepPhase(s, o) = IF o.pending
                          THEN IF warm THEN same ELSE requeue(s, o.rows)
                          ELSE IF late THEN finish(s, {}, o.rows)
                          ELSE IF has /\ ~warm
                               THEN Decide([s EXCEPT !.sandbox = None], {})
                          ELSE same
    BY Zenon, <1>h DEF StepPhase, same, late, warm
  <2> QED
    BY Zenon, <2>1, <1>h, <1>1, <1>3, <1>6, <1>8
<1>i. CASE s.phase = "stopping"
  <2>1. StepPhase(s, o) = IF ~anyLive(o.rows) \/ late THEN finish(s, {}, o.rows)
                          ELSE IF o.grace THEN Decide(s, wanted) ELSE same
    BY Zenon, <1>i DEF StepPhase, same, late, wanted
  <2> QED
    BY Zenon, <2>1, <1>1, <1>3, <1>9
<1> QED
  BY SMTT(20), <1>0, <1>a, <1>b, <1>c, <1>d, <1>e, <1>f, <1>g, <1>h, <1>i DEF Phase

(* A pass decides documents from documents, and its stages fit them.       *)
LEMMA StepDoc ==
  ASSUME NEW s, Doc(s), s.phase # "done", NEW o
  PROVE  PassFits(s, Step(s, o))
<1>0. s \in Session /\ s.phase \in Phase
  BY Zenon DEF Doc, Session
<1>1. s.phase # "stopping" => PassFits(s, EnterStopping(s))
  BY Zenon, <1>0, DocError, EnterStoppingFits
<1>2. "failed" \in ErrorCode /\ Quiet({})
  BY Zenon DEF Quiet, ErrorCode
<1>3. PassFits(s, Fail(s, {}, o.rows, "failed")) /\ PassFits(s, finish(s, {}, o.rows))
  BY Zenon, <1>0, <1>2, FailFits
<1>4. PassFits(s, StepPhase(s, o))
  BY Zenon, StepPhaseDoc
<1> QED
  BY Zenon, <1>1, <1>3, <1>4 DEF Step

LEMMA AttemptsNext ==
  ASSUME NEW s \in Session
  PROVE  s.attempts + 1 \in Nat
BY DEF Session

LEMMA AfterProvisionDoc ==
  ASSUME NEW s, Doc(s), s.phase = "provisioning", NEW acts, Quiet(acts), NEW seen,
         NEW outcome, outcome.kind = "sandbox" => outcome.box \in Sandboxes,
         NEW restored \in BOOLEAN
  PROVE  PassFits(s, AfterProvision(s, acts, seen, outcome, restored))
<1> DEFINE applied == [s EXCEPT !.env = TRUE, !.snapshot = restored]
           placed  == [applied EXCEPT !.sandbox = outcome.box]
           d == AfterProvision(s, acts, seen, outcome, restored)
<1>0. s \in Session /\ s.error = ""
  BY Zenon, DocError DEF Doc
<1>1. CASE outcome.kind = "sandbox"
  <2>1. placed \in Session /\ placed.last = s.last /\ placed.turn = s.turn /\ placed.error = s.error
    BY ZenonT(30), <1>0, <1>1 DEF Session
  <2>2. d = Decide(Enter(placed, "starting"), acts)
    BY Zenon, <1>1 DEF AfterProvision
  <2> HIDE DEF placed, d
  <2>3. "starting" \in Phase
    BY Zenon DEF Phase
  <2>4. PassDoc(s, d)
    BY Zenon, <1>0, <2>1, <2>2, <2>3, MovePassDoc
  <2>5. d.acts = acts
    BY Zenon, <2>2 DEF Decide
  <2> QED
    BY Zenon, <2>4, <2>5 DEF PassFits, StagesFit, Quiet, d
<1>2. CASE outcome.kind = "select"
  <2>1. d = Decide(Enter(s, "awaitingUser"), acts)
    BY Zenon, <1>2 DEF AfterProvision
  <2>2. "awaitingUser" \in Phase
    BY Zenon DEF Phase
  <2> HIDE DEF d
  <2>3. PassDoc(s, d)
    BY Zenon, <1>0, <2>1, <2>2, MovePassDoc
  <2>4. d.acts = acts
    BY Zenon, <2>1 DEF Decide
  <2> QED
    BY Zenon, <2>3, <2>4 DEF PassFits, StagesFit, Quiet, d
<1>3. CASE outcome.kind \notin {"sandbox", "select"}
  <2> DEFINE c == [s EXCEPT !.attempts = @ + 1]
  <2>0. s.attempts + 1 \in Nat
    BY Zenon, <1>0, AttemptsNext
  <2>1. /\ c \in Session /\ c.phase = s.phase /\ c.state = s.state /\ c.error = s.error
        /\ c.ended = s.ended /\ c.deadline = s.deadline /\ c.turn = s.turn /\ c.last = s.last
        /\ c.sandbox = s.sandbox
    BY Zenon, <1>0, <2>0 DEF Session
  <2>2. d = Decide(c, acts) \/ d = Fail(s, acts, seen, "failed")
    BY Zenon, <1>3 DEF AfterProvision
  <2>3. "failed" \in ErrorCode
    BY Zenon DEF ErrorCode
  <2>4. PassFits(s, Fail(s, acts, seen, "failed"))
    BY Zenon, <1>0, <2>3, FailFits
  <2> HIDE DEF c, d
  <2>5. Doc(c)
    BY Zenon, <2>1, TouchDoc
  <2>6. PassFits(s, Decide(c, acts))
    BY Zenon, <2>1, <2>5, SameFits DEF Quiet, PassFits, PassDoc, StagesFit, Decide
  <2> QED
    BY Zenon, <2>2, <2>4, <2>6 DEF d
<1> QED
  BY Zenon, <1>1, <1>2, <1>3

LEMMA AfterPublishDoc ==
  ASSUME NEW s, Doc(s), s.phase = "publishing", NEW seen, NEW outcome
  PROVE  PassFits(s, AfterPublish(s, seen, outcome))
<1> DEFINE c == [s EXCEPT !.pushed = FALSE, !.pr = TRUE]
           e == [s EXCEPT !.attempts = @ + 1]
           d == AfterPublish(s, seen, outcome)
<1>0. s \in Session /\ s.error = "" /\ s.turn = None
  BY Zenon, DocError DEF Doc
<1>1. s.attempts + 1 \in Nat
  BY Zenon, <1>0, AttemptsNext
<1>2. c \in Session /\ c.error = s.error /\ c.last = s.last /\ c.turn = s.turn
  BY ZenonT(30), <1>0 DEF Session
<1>3. /\ e \in Session /\ e.phase = s.phase /\ e.state = s.state /\ e.error = s.error
      /\ e.ended = s.ended /\ e.deadline = s.deadline /\ e.turn = s.turn /\ e.last = s.last
      /\ e.sandbox = s.sandbox
  BY ZenonT(30), <1>0, <1>1 DEF Session
<1>4. \/ d = Decide(Enter(c, "idle"), {}) \/ d = Decide(e, {})
      \/ d = Fail(s, {}, seen, "failed") \/ d = Fail(s, {}, seen, "pullRequestFailed")
  BY Zenon DEF AfterPublish
<1>5. "failed" \in ErrorCode /\ "pullRequestFailed" \in ErrorCode /\ Quiet({})
  BY Zenon DEF ErrorCode, Quiet
<1>6. PassFits(s, Fail(s, {}, seen, "failed")) /\ PassFits(s, Fail(s, {}, seen, "pullRequestFailed"))
  BY Zenon, <1>0, <1>5, FailFits
<1> HIDE DEF c, d, e
<1>7. "idle" \in Phase
  BY Zenon DEF Phase
<1>8. PassDoc(s, Decide(Enter(c, "idle"), {}))
  BY Zenon, <1>0, <1>2, <1>7, MovePassDoc
<1>9. Doc(e)
  BY Zenon, <1>3, TouchDoc
<1>10. PassDoc(s, Decide(e, {}))
  BY Zenon, <1>3, <1>9 DEF PassDoc, Decide
<1>11. StagesFit(Decide(Enter(c, "idle"), {})) /\ StagesFit(Decide(e, {}))
  BY Zenon DEF StagesFit, Decide
<1> QED
  BY Zenon, <1>4, <1>6, <1>8, <1>10, <1>11 DEF d, PassFits

(* A completed turn: the document names it as the last one.                *)
LEMMA CompleteDoc ==
  ASSUME NEW s, Doc(s), s.phase # "done", NEW seen, NEW t \in Turns, NEW req,
         req.pushed \in BOOLEAN
  PROVE  LET d == completeDecision(s, seen, t, req)
         IN Doc(d.s) /\ d.s.last = t /\ d.s.turn = None
<1> DEFINE pu == s.pushed \/ req.pushed
           br == s.branch \/ req.pushed
           ex == s.existing \/ req.pushed
           c1 == [s EXCEPT !.last = t, !.turn = None]
           c  == [s EXCEPT !.last = t, !.turn = None, !.pushed = pu,
                           !.branch = br, !.existing = ex]
           g  == [c EXCEPT !.stop = TRUE]
           d  == completeDecision(s, seen, t, req)
<1>0. s \in Session /\ s.phase \in Phase
  BY Zenon DEF Doc, Session
<1>1. pu \in BOOLEAN /\ br \in BOOLEAN /\ ex \in BOOLEAN
  BY Zenon
<1>2. \/ d = Decide(c, {})
      \/ /\ c.phase # "stopping"
         /\ \/ \E p \in {"publishing", "idle", "awaitingUser"} : d = Decide(Enter(c, p), {})
            \/ d = Decide(Enter(g, "stopping"), {})
      \/ \E code \in {"pullRequestFailed", "failed"} : d = Fail(c, {}, seen, code)
  <2>1. d = IF c.stop \/ c.phase = "stopping" THEN Decide(c, {})
            ELSE CASE req.status = "success" ->
                        Decide(Enter(c, IF c.pushed /\ req.publishes
                                        THEN "publishing" ELSE "idle"), {})
                   [] req.status = "awaitingInput" -> Decide(Enter(c, "awaitingUser"), {})
                   [] req.status = "stopped" -> Decide(Enter(g, "stopping"), {})
                   [] req.status = "pushFailed" -> Fail(c, {}, seen, "pullRequestFailed")
                   [] OTHER -> Fail(c, {}, seen, "failed")
    BY Zenon DEF completeDecision
  <2> HIDE DEF c, g, d
  <2> QED
    BY Zenon, <2>1
<1> HIDE DEF pu, br, ex
<1>3. /\ c1 \in Session /\ c1.phase = s.phase /\ c1.state = s.state /\ c1.error = s.error
      /\ c1.ended = s.ended /\ c1.deadline = s.deadline /\ c1.sandbox = s.sandbox
      /\ c1.turn = None /\ c1.last = t
  BY ZenonT(30), <1>0 DEF Session
<1>4. c = [c1 EXCEPT !.pushed = pu, !.branch = br, !.existing = ex]
  BY Zenon
<1> HIDE DEF c, c1
<1>5. c \in Session
  BY Zenon, <1>1, <1>3, <1>4, FlagsType
<1>6. /\ c.phase = s.phase /\ c.state = s.state /\ c.error = s.error
      /\ c.ended = s.ended /\ c.deadline = s.deadline /\ c.sandbox = s.sandbox
      /\ c.turn = None /\ c.last = t
  BY Zenon, <1>3, <1>4 DEF Session
<1>7. g \in Session /\ g.error = s.error /\ g.turn = None /\ g.last = t
  BY ZenonT(30), <1>5, <1>6 DEF Session
<1> HIDE DEF g, d
<1>8. Doc(c)
  BY Zenon, <1>5, <1>6 DEF Doc, CoherentSession
<1>9. s.phase # "stopping" => s.error = ""
  BY Zenon, DocError
<1>a. ASSUME s.phase # "stopping", NEW p \in {"publishing", "idle", "awaitingUser"}
      PROVE  LET e == Enter(c, p) IN Doc(e) /\ e.last = t /\ e.turn = None
  <2>1. p \in Phase \ {"awaitingApproval"}
    BY Zenon DEF Phase
  <2> QED
    BY Zenon, <1>a, <1>5, <1>6, <1>9, <2>1, EnterDoc
<1>b. ASSUME s.phase # "stopping"
      PROVE  LET e == Enter(g, "stopping") IN Doc(e) /\ e.last = t /\ e.turn = None
  <2>1. "stopping" \in Phase \ {"awaitingApproval"} /\ "stopping" \notin {"publishing", "idle"}
    BY Zenon DEF Phase
  <2> QED
    BY Zenon, <1>b, <1>7, <1>9, <2>1, EnterDoc
<1>c. ASSUME NEW code \in {"pullRequestFailed", "failed"}
      PROVE  LET e == Fail(c, {}, seen, code).s IN Doc(e) /\ e.last = t /\ e.turn = None
  <2>1. code \in ErrorCode
    BY Zenon DEF ErrorCode
  <2> QED
    BY ZenonT(30), <1>5, <1>6, <2>1, FailDoc
<1>d. Decide(c, {}).s = c /\ Decide(Enter(g, "stopping"), {}).s = Enter(g, "stopping")
      /\ \A p : Decide(Enter(c, p), {}).s = Enter(c, p)
  BY Zenon DEF Decide
<1> QED
  BY Zenon, <1>2, <1>6, <1>8, <1>a, <1>b, <1>c, <1>d DEF d

(* The other writes.  n is the document that replaces s.                   *)
LEMMA ResetDoc ==
  ASSUME NEW s \in Session, NEW rec
  PROVE  LET n == resetForTurn(s, rec)
         IN /\ Doc(n) /\ n.phase = "queued" /\ n.sandbox = None /\ n.turn = None
            /\ n.last = s.last /\ n.error = "" /\ ~n.stop
<1> DEFINE ex == branchPublished(s, rec)
           c  == [s EXCEPT !.error = "", !.stop = FALSE, !.sandbox = None,
                           !.starts = 0, !.turn = None, !.pushed = FALSE,
                           !.existing = ex]
<1>1. ex \in BOOLEAN
  BY Zenon DEF branchPublished
<1>2. resetForTurn(s, rec) = Enter(c, "queued")
  BY Zenon DEF resetForTurn
<1>3. 0 \in 0 .. StartRetries
  BY RetriesAssumption
<1>4. "" \in ErrorCode
  BY Zenon DEF ErrorCode
<1> HIDE DEF ex
<1>5. c \in Session /\ c.sandbox = None /\ c.turn = None /\ c.last = s.last
      /\ c.error = "" /\ c.stop = FALSE
  BY ZenonT(60), <1>1, <1>3, <1>4 DEF Session
<1> HIDE DEF c
<1>6. "queued" \in Phase \ {"awaitingApproval", "publishing", "idle"}
  BY Zenon DEF Phase
<1>7. /\ Enter(c, "queued").error = c.error /\ Enter(c, "queued").stop = c.stop
  BY Zenon, <1>5, <1>6, EnterShows, EnterKeeps
<1>8. c.turn # None => c.turn # c.last
  BY Zenon, <1>5
<1>9. /\ Doc(Enter(c, "queued")) /\ Enter(c, "queued").phase = "queued"
      /\ Enter(c, "queued").turn = c.turn /\ Enter(c, "queued").last = c.last
      /\ Enter(c, "queued").sandbox = c.sandbox
  BY Zenon, <1>5, <1>6, <1>8, ActiveDoc
<1> QED
  BY Zenon, <1>2, <1>5, <1>7, <1>9

LEMMA NewDoc == Doc(NewSession)
<1>1. /\ NewSession.phase = "queued" /\ NewSession.state = "pending" /\ NewSession.error = ""
      /\ NewSession.deadline = TRUE /\ NewSession.ended = FALSE /\ NewSession.turn = None
      /\ NewSession.last = None /\ NewSession.sandbox = None
  BY Zenon DEF NewSession
<1>2. NewSession \in Session
  <2>1. 0 \in 0 .. StartRetries /\ 0 \in Nat /\ "queued" \in Phase /\ "pending" \in State
    BY RetriesAssumption DEF Phase, State
  <2>2. "" \in ErrorCode /\ OnPRBranch \in BOOLEAN
    BY Zenon, OnPRBranchAssumption DEF ErrorCode
  <2> QED
    BY ZenonT(30), <2>1, <2>2 DEF NewSession, Session
<1>3. PolicyState["queued"] = "pending"
  BY Zenon DEF PolicyState, Phase
<1> HIDE DEF NewSession
<1> QED
  BY Zenon, <1>1, <1>2, <1>3 DEF Doc, CoherentSession

LEMMA StartedDoc ==
  ASSUME NEW s, Doc(s), s.phase = "starting", NEW t \in Turns \cup {None},
         t # None => t # s.last, NEW p \in {"running", "setup"}
  PROVE  LET n == Enter(Started(s, t), p)
         IN Doc(n) /\ n.phase = p /\ n.last = s.last
<1> DEFINE u == IF t # None THEN t ELSE s.turn
           c == [s EXCEPT !.starts = 0, !.turn = u]
<1>0. s \in Session /\ s.error = ""
  BY Zenon, DocError DEF Doc
<1>1. Started(s, t) = c
  BY Zenon DEF Started
<1>2. u \in Turns \cup {None} /\ (u # None => u # s.last)
  BY Zenon, <1>0 DEF Doc, Session
<1> HIDE DEF u
<1>3. 0 \in 0 .. StartRetries
  BY RetriesAssumption
<1>4. c \in Session /\ c.turn = u /\ c.last = s.last /\ c.error = s.error
  BY ZenonT(30), <1>0, <1>2, <1>3 DEF Session
<1> HIDE DEF c
<1>5. p \in Phase \ {"awaitingApproval", "publishing", "idle"}
  BY Zenon DEF Phase
<1>6. c.error = "" /\ (c.turn # None => c.turn # c.last)
  BY Zenon, <1>0, <1>2, <1>4
<1>7. Doc(Enter(c, p)) /\ Enter(c, p).phase = p /\ Enter(c, p).last = c.last
  BY Zenon, <1>4, <1>5, <1>6, ActiveDoc
<1> QED
  BY Zenon, <1>1, <1>4, <1>7

LEMMA DeliverDoc ==
  ASSUME NEW s, Doc(s), s.phase \notin {"publishing", "awaitingApproval"},
         NEW t \in Turns, t # s.last
  PROVE  LET n == Deliver(s, t)
         IN /\ Doc(n) /\ n.last = s.last
            /\ n.phase = s.phase \/ (s.phase \in {"idle", "awaitingUser"} /\ n.phase = "running")
<1> DEFINE u == IF s.turn = None THEN t ELSE s.turn
           c == [s EXCEPT !.turn = u]
<1>0. s \in Session
  BY Zenon DEF Doc
<1>1. Deliver(s, t) = IF s.phase \in {"idle", "awaitingUser"} THEN Enter(c, "running") ELSE c
  BY Zenon DEF Deliver
<1>2. u \in Turns \cup {None} /\ (u # None => u # s.last)
  BY Zenon, <1>0 DEF Doc, Session
<1> HIDE DEF u
<1>3. /\ c \in Session /\ c.phase = s.phase /\ c.state = s.state /\ c.error = s.error
      /\ c.ended = s.ended /\ c.deadline = s.deadline /\ c.sandbox = s.sandbox
      /\ c.turn = u /\ c.last = s.last
  BY ZenonT(30), <1>0, <1>2 DEF Session
<1> HIDE DEF c
<1>4. CASE s.phase \in {"idle", "awaitingUser"}
  <2>1. s.error = ""
    BY Zenon, <1>4, DocError
  <2>2. "running" \in Phase \ {"awaitingApproval", "publishing", "idle"}
    BY Zenon DEF Phase
  <2>3. c.error = "" /\ (c.turn # None => c.turn # c.last)
    BY Zenon, <1>2, <1>3, <2>1
  <2>4. Doc(Enter(c, "running")) /\ Enter(c, "running").phase = "running" /\ Enter(c, "running").last = c.last
    BY Zenon, <1>3, <2>2, <2>3, ActiveDoc
  <2> QED
    BY Zenon, <1>1, <1>3, <1>4, <2>4
<1>5. CASE s.phase \notin {"idle", "awaitingUser"}
  <2>1. Doc(c)
    BY Zenon, <1>2, <1>3, <1>5 DEF Doc, CoherentSession
  <2> QED
    BY Zenon, <1>1, <1>3, <1>5, <2>1
<1> QED
  BY Zenon, <1>4, <1>5

LEMMA EndIdleDoc ==
  ASSUME NEW s, Doc(s), s.phase = "idle"
  PROVE  LET n == EndIdle(s)
         IN Doc(n) /\ n.phase = "done" /\ n.turn = None /\ n.last = s.last
<1> DEFINE n == EndIdle(s)
<1>0. s \in Session /\ s.error = "" /\ s.turn = None
  BY Zenon, DocError DEF Doc
<1>1. "done" \in Phase /\ "complete" \in State
  BY Zenon DEF Phase, State
<1>2. /\ n \in Session /\ n.phase = "done" /\ n.state = "complete" /\ n.ended = TRUE
      /\ n.error = s.error /\ n.turn = s.turn /\ n.last = s.last
  BY ZenonT(30), <1>0, <1>1 DEF Session, EndIdle
<1> HIDE DEF n
<1>3. Doc(n)
  BY Zenon, <1>0, <1>2 DEF Doc, CoherentSession
<1> QED
  BY Zenon, <1>0, <1>2, <1>3 DEF n

LEMMA MarkDoc ==
  ASSUME NEW s, Doc(s)
  PROVE  /\ Doc([s EXCEPT !.stop = TRUE]) /\ Doc([s EXCEPT !.archived = TRUE])
         /\ Doc([s EXCEPT !.archived = TRUE, !.stop = TRUE])
         /\ \A n \in {[s EXCEPT !.stop = TRUE], [s EXCEPT !.archived = TRUE],
                      [s EXCEPT !.archived = TRUE, !.stop = TRUE]} :
              n.phase = s.phase /\ n.last = s.last /\ n.turn = s.turn
<1>0. s \in Session
  BY Zenon DEF Doc
<1>1. ASSUME NEW n \in {[s EXCEPT !.stop = TRUE], [s EXCEPT !.archived = TRUE],
                        [s EXCEPT !.archived = TRUE, !.stop = TRUE]}
      PROVE  /\ Doc(n) /\ n.phase = s.phase /\ n.last = s.last /\ n.turn = s.turn
  <2>1. /\ n \in Session /\ n.phase = s.phase /\ n.state = s.state /\ n.error = s.error
        /\ n.ended = s.ended /\ n.deadline = s.deadline /\ n.sandbox = s.sandbox
        /\ n.turn = s.turn /\ n.last = s.last
    BY ZenonT(60), <1>0 DEF Session
  <2>2. Doc(n)
    BY Zenon, <2>1, TouchDoc
  <2> QED
    BY Zenon, <2>1, <2>2
<1> QED
  BY Zenon, <1>1

LEMMA ArchiveDoc ==
  ASSUME NEW s, Doc(s)
  PROVE  LET n == archive(s)
         IN /\ Doc(n) /\ n.last = s.last /\ n.turn = s.turn
            /\ n.phase = s.phase \/ (s.phase = "idle" /\ n.phase = "done")
<1> DEFINE a == [s EXCEPT !.archived = TRUE]
           b == [a EXCEPT !.stop = TRUE]
<1>1. Doc(a) /\ a.phase = s.phase /\ a.last = s.last /\ a.turn = s.turn
  BY Zenon, MarkDoc
<1>2. archive(s) = CASE s.phase = "done" -> a [] s.phase = "idle" -> EndIdle(a) [] OTHER -> b
  BY Zenon DEF archive
<1> HIDE DEF a
<1>3. Doc(b) /\ b.phase = s.phase /\ b.last = s.last /\ b.turn = s.turn
  BY Zenon, <1>1, MarkDoc
<1> HIDE DEF b
<1>4. s.phase = "idle" => s.turn = None
  BY Zenon DEF Doc
<1>5. s.phase = "idle" => LET n == EndIdle(a) IN Doc(n) /\ n.phase = "done" /\ n.turn = None /\ n.last = s.last
  BY Zenon, <1>1, EndIdleDoc
<1>6. \/ archive(s) = a \/ archive(s) = b \/ (s.phase = "idle" /\ archive(s) = EndIdle(a))
  BY Zenon, <1>2
<1> QED
  BY Zenon, <1>1, <1>3, <1>4, <1>5, <1>6

LEMMA PullRequestDoc ==
  ASSUME Doc(session)
  PROVE  /\ Doc(PullRequestMade) /\ PullRequestMade.phase = session.phase
         /\ PullRequestMade.last = session.last /\ PullRequestMade.turn = session.turn
<1> DEFINE c == [session EXCEPT !.pr = TRUE]
           e == [c EXCEPT !.error = "", !.state = TerminalState("", c.stop)]
<1>0. session \in Session
  BY Zenon DEF Doc
<1>1. /\ c \in Session /\ c.phase = session.phase /\ c.state = session.state /\ c.error = session.error
      /\ c.ended = session.ended /\ c.deadline = session.deadline /\ c.sandbox = session.sandbox
      /\ c.turn = session.turn /\ c.last = session.last
  BY ZenonT(30), <1>0 DEF Session
<1>2. PullRequestMade = IF c.error = "pullRequestFailed" THEN e ELSE c
  BY Zenon DEF PullRequestMade
<1> HIDE DEF c
<1>3. Doc(c)
  BY Zenon, <1>1, TouchDoc
<1>4. TerminalState("", c.stop) \in {"complete", "stale"}
  BY Zenon DEF TerminalState
<1>5. TerminalState("", c.stop) \in State /\ "" \in ErrorCode
  BY Zenon, <1>4 DEF State, ErrorCode
<1>6. /\ e \in Session /\ e.phase = c.phase /\ e.error = "" /\ e.ended = c.ended
      /\ e.state = TerminalState("", c.stop) /\ e.turn = c.turn /\ e.last = c.last
  BY ZenonT(30), <1>1, <1>5 DEF Session
<1> HIDE DEF e
<1>7. c.error = "pullRequestFailed" => c.phase = "done" /\ c.ended
  BY Zenon, <1>3 DEF Doc, CoherentSession
<1>8. c.error = "pullRequestFailed" => Doc(e)
  <2>1. SUFFICES ASSUME c.error = "pullRequestFailed" PROVE Doc(e)
    BY Zenon
  <2>2. e.phase = "done" /\ e.ended /\ e.state \in {"complete", "stale"} /\ e.error = ""
    BY Zenon, <1>4, <1>6, <1>7, <2>1
  <2>3. e.turn # None => e.turn # e.last
    BY Zenon, <1>3, <1>6 DEF Doc
  <2>4. CoherentSession(e)
    <3>1. e.state \in {"complete", "error", "stale"} /\ e.state # "error"
      BY Zenon, <2>2
    <3> QED
      BY Zenon, <2>2, <3>1 DEF CoherentSession
  <2>5. e.phase \notin {"awaitingApproval", "publishing", "idle"}
    BY Zenon, <2>2
  <2> QED
    BY Zenon, <1>6, <2>3, <2>4, <2>5 DEF Doc
<1> QED
  BY Zenon, <1>1, <1>2, <1>3, <1>6, <1>8

(* Approve, an answered question, the first heartbeat, an elicitation.     *)
LEMMA MovedDoc ==
  ASSUME Doc(session), session.phase \notin {"stopping", "done"},
         NEW c \in {session, [session EXCEPT !.env = TRUE]},
         NEW p \in {"queued", "running", "awaitingUser"}
  PROVE  Doc(Enter(c, p)) /\ Enter(c, p).phase = p /\ Enter(c, p).last = session.last
<1>0. session \in Session /\ session.error = "" /\ (session.turn # None => session.turn # session.last)
  BY Zenon, DocError DEF Doc
<1>1. c \in Session /\ c.error = session.error /\ c.turn = session.turn /\ c.last = session.last
  BY ZenonT(30), <1>0 DEF Session
<1>2. p \in Phase \ {"awaitingApproval", "publishing", "idle"}
  BY Zenon DEF Phase
<1>3. c.error = "" /\ (c.turn # None => c.turn # c.last)
  BY Zenon, <1>0, <1>1
<1>4. Doc(Enter(c, p)) /\ Enter(c, p).phase = p /\ Enter(c, p).last = c.last
  BY Zenon, <1>1, <1>2, <1>3, ActiveDoc
<1> QED
  BY Zenon, <1>1, <1>4

LEMMA RejectedDoc ==
  ASSUME Doc(session), session.phase = "awaitingApproval"
  PROVE  LET n == Enter([session EXCEPT !.rejected = TRUE], "done")
         IN Doc(n) /\ n.phase = "done" /\ n.last = session.last /\ n.turn = None
<1> DEFINE c == [session EXCEPT !.rejected = TRUE]
<1>0. session \in Session /\ session.error = "" /\ session.turn = None
  BY Zenon, DocError DEF Doc
<1>1. c \in Session /\ c.error = session.error /\ c.turn = session.turn /\ c.last = session.last
  BY ZenonT(30), <1>0 DEF Session
<1>2. "done" \in Phase \ {"awaitingApproval", "publishing", "idle"}
  BY Zenon DEF Phase
<1> HIDE DEF c
<1>3. /\ Doc(Enter(c, "done")) /\ Enter(c, "done").phase = "done"
      /\ Enter(c, "done").last = c.last /\ Enter(c, "done").turn = c.turn
  BY Zenon, <1>0, <1>1, <1>2, ActiveDoc
<1> QED
  BY Zenon, <1>0, <1>1, <1>3 DEF c

-----------------------------------------------------------------------------
(* The calls.  What a call becomes, n, fits the documents.                 *)
CallFits(p, n, f) ==
  /\ CallDoc(n) /\ (f => FreshDoc(n, session))
  /\ p \in Handlers => HandlerDoc(n, session)
  /\ p \in Reconcilers => n.kind \in {"none", "reconcile"}

LEMMA NoOpFits ==
  ASSUME NEW p
  PROVE  CallFits(p, NoOp, FALSE) /\ \A d : HandlerDoc(NoOp, d)
<1>1. NoOp.kind = "none" /\ NoOp.pc = "idle" /\ NoOp.s = NewSession
  BY Zenon DEF NoOp
<1> HIDE DEF NoOp
<1>2. CallDoc(NoOp)
  BY Zenon, <1>1, NewDoc DEF CallDoc
<1>3. \A d : HandlerDoc(NoOp, d)
  BY Zenon, <1>1 DEF HandlerDoc
<1> QED
  BY Zenon, <1>1, <1>2, <1>3 DEF CallFits

LEMMA BeginsFits ==
  ASSUME DocsOK, NEW p \in Procs, NEW n, NEW f, Begins(p, n, f)
  PROVE  CallFits(p, n, f)
<1>1. Doc(session)
  BY Zenon DEF DocsOK
<1>2. p \in Handlers => p \notin Reconcilers
  BY Zenon, ProcsAssumption
<1>3. CASE f /\ BeginsWithCopy(p, n)
  <2>1. CallDoc(n)
    BY Zenon, <1>1, <1>3 DEF BeginsWithCopy, CallDoc
  <2>2. FreshDoc(n, session)
    BY Zenon, <1>3 DEF BeginsWithCopy, FreshDoc
  <2>3. p \in Handlers => HandlerDoc(n, session)
    BY Zenon, <1>2, <1>3 DEF BeginsWithCopy, HandlerDoc
  <2>4. p \in Reconcilers => n.kind \in {"none", "reconcile"}
    BY Zenon, <1>2, <1>3 DEF BeginsWithCopy
  <2> QED
    BY Zenon, <2>1, <2>2, <2>3, <2>4 DEF CallFits
<1>4. CASE ~f /\ BeginsWithout(p, n)
  <2>1. n.s = NewSession /\ p \in Handlers /\ n.pc \in {"enqueue", "update"}
        /\ n.kind \in {"prompt", "restart", "createPR", "heartbeat", "events", "answer"}
    BY Zenon, <1>4 DEF BeginsWithout
  <2>2. CallDoc(n)
    BY Zenon, <2>1, NewDoc DEF CallDoc
  <2>3. HandlerDoc(n, session)
    BY Zenon, <2>1 DEF HandlerDoc
  <2> QED
    BY Zenon, <1>2, <1>4, <2>1, <2>2, <2>3 DEF CallFits
<1> QED
  BY Zenon, <1>3, <1>4 DEF Begins

LEMMA LooksAgainFits ==
  ASSUME IInv, DocsOK, NEW p \in Procs, NEW n, NEW f, LooksAgain(p, n, f)
  PROVE  CallFits(p, n, f)
<1>1. Doc(session) /\ HandlerDoc(op[p], session)
  BY Zenon DEF DocsOK, LooksAgain
<1>2. p \in Handlers /\ p \notin Reconcilers /\ n.s = session /\ n.kind \in {"complete", "fail"}
      /\ n.pc = "read" /\ n.kind = op[p].kind
  BY Zenon, ProcsAssumption DEF LooksAgain
<1>3. session.phase # "done"
  <2>1. op[p].kind = "complete" => op[p].turn \in Turns
    BY Zenon DEF IInv, CallsOK, GoodCall
  <2>2. CASE n.kind = "complete"
    <3>1. session.turn = op[p].turn
      BY Zenon, <2>2 DEF LooksAgain
    <3>2. session.turn # None
      BY Zenon, <1>2, <2>1, <2>2, <3>1, NoneAssumption
    <3> QED
      BY Zenon, <1>1, <1>2, <2>2, <3>2 DEF HandlerDoc
  <2>3. CASE n.kind = "fail"
    BY Zenon, <2>3 DEF LooksAgain
  <2> QED
    BY Zenon, <1>2, <2>2, <2>3
<1>4. CallDoc(n)
  BY Zenon, <1>1, <1>2, <1>3 DEF CallDoc
<1>5. FreshDoc(n, session)
  BY Zenon, <1>2, <1>3 DEF FreshDoc
<1>6. HandlerDoc(n, session)
  BY Zenon, <1>2, <1>3 DEF HandlerDoc
<1> QED
  BY Zenon, <1>2, <1>4, <1>5, <1>6 DEF CallFits

(* A turn that was not delivered is not the last one that was completed.   *)
LEMMA PickedNotLast ==
  ASSUME UniqueTurns, DocsOK, NEW i \in DOMAIN inbox, undelivered(i)
  PROVE  inbox[i].id # None => inbox[i].id # session.last
<1>1. SUFFICES ASSUME inbox[i].id # None, inbox[i].id = session.last PROVE FALSE
  BY Zenon
<1>2. session.last \in Delivered
  BY Zenon, <1>1 DEF DocsOK
<1>3. PICK j \in DOMAIN inbox : inbox[j].kind = "turn" /\ inbox[j].id = session.last /\ inbox[j].delivered
  BY Zenon, <1>2 DEF Delivered
<1>4. i = j
  BY Zenon, <1>1, <1>3 DEF UniqueTurns, undelivered
<1> QED
  BY Zenon, <1>3, <1>4 DEF undelivered

LEMMA StageFits ==
  ASSUME UniqueTurns, DocsOK, NEW p \in Procs, NEW n, GoesToStage(p, n)
  PROVE  CallFits(p, n, fresh[p])
<1> DEFINE c == op[p]
<1>1. CallDoc(c) /\ (fresh[p] => FreshDoc(c, session)) /\ (p \in Handlers => HandlerDoc(c, session))
      /\ (p \in Reconcilers => c.kind \in {"none", "reconcile"})
  BY Zenon DEF DocsOK
<1>2. n.kind = c.kind /\ n.s = c.s
  BY Zenon DEF GoesToStage, Keep
<1>3. \/ n.pc = "update" /\ c.pc = "mark" /\ n.turn = c.turn
      \/ n.pc = "commit" /\ c.pc = "effects" /\ n.turn = c.turn
      \/ n.pc = "update" /\ c.kind \in {"prompt", "restart"}
      \/ n.pc = "update" /\ c.kind = "bootstrap" /\ n.turn \in {c.turn, c.s.turn}
      \/ /\ n.pc = "mark" /\ (n.turn # None => n.turn # session.last)
         /\ c.kind = "bootstrap" \/ (c.kind = "inbox" /\ acceptTurn(c.s))
  <2>1. CASE PicksTurn(p, n)
    BY Zenon, <2>1, PickedNotLast DEF PicksTurn, BootstrapPick, InboxPick, At
  <2>2. CASE MarkPicked(p) /\ n.pc = "update" /\ n.turn = op[p].turn
    BY Zenon, <2>2 DEF MarkPicked
  <2>3. CASE RunSandboxActions(p) /\ n.pc = "commit" /\ n.turn = op[p].turn
    BY Zenon, <2>3 DEF RunSandboxActions
  <2> QED
    BY Zenon, <1>2, <2>1, <2>2, <2>3 DEF GoesToStage
<1>4. p \in Handlers /\ c.kind \in {"bootstrap", "inbox"} => (n.turn # None => n.turn # session.last)
  <2>1. p \in Handlers /\ c.kind \in {"bootstrap", "inbox"} =>
          c.s.last = session.last /\ (c.turn # None => c.turn # session.last)
    BY ZenonT(30), <1>1 DEF HandlerDoc
  <2>2. c.s.turn # None => c.s.turn # c.s.last
    BY Zenon, <1>1 DEF CallDoc, Doc
  <2> QED
    BY Zenon, <1>3, <2>1, <2>2
<1> HIDE DEF c
<1>5. CallDoc(n)
  BY Zenon, <1>1, <1>2, <1>3 DEF CallDoc
<1>6. fresh[p] => FreshDoc(n, session)
  BY Zenon, <1>1, <1>2 DEF FreshDoc
<1>7. p \in Handlers => HandlerDoc(n, session)
  BY Zenon, <1>1, <1>2, <1>4 DEF HandlerDoc
<1> QED
  BY ZenonT(30), <1>1, <1>2, <1>5, <1>6, <1>7 DEF CallFits

(* A decision of a pass.                                                   *)
LEMMA PassCallFits ==
  ASSUME DocsOK, NEW p \in Procs, NEW n, NEW d, op[p].kind = "reconcile", n.kind = "reconcile",
         PassFits(op[p].s, d), IsDecision(n, d), n.pc = NextStage(n.acts)
  PROVE  CallFits(p, n, fresh[p])
<1>1. (fresh[p] => FreshDoc(op[p], session)) /\ p \notin Handlers
  BY Zenon DEF DocsOK, HandlerDoc
<1>2. Doc(n.s) /\ (n.s.phase = "done" => n.s.turn = None)
      /\ (n.s.phase = "publishing" => op[p].s.phase = "publishing")
  BY Zenon DEF PassFits, PassDoc, IsDecision
<1>3. /\ Provision \in n.acts => n.s.phase = "provisioning" /\ Publish \notin n.acts
      /\ Publish \in n.acts => n.s.phase = "publishing"
  BY Zenon DEF PassFits, StagesFit, IsDecision
<1>4. /\ n.pc # "read" /\ (n.pc = "provision" => Provision \in n.acts)
      /\ (n.pc = "publish" => Publish \in n.acts)
  BY Zenon DEF NextStage
<1>5. CallDoc(n)
  BY Zenon, <1>2, <1>3, <1>4 DEF CallDoc
<1>6. fresh[p] => FreshDoc(n, session)
  BY Zenon, <1>1, <1>2 DEF FreshDoc
<1> QED
  BY Zenon, <1>1, <1>5, <1>6 DEF CallFits

LEMMA DecidesFits ==
  ASSUME IInv, DocsOK, NEW p \in Procs, NEW n, DecidesCall(p, n)
  PROVE  CallFits(p, n, fresh[p])
<1> DEFINE c == op[p]
<1>1. CallDoc(c) /\ Doc(c.s) /\ (fresh[p] => FreshDoc(c, session)) /\ (p \in Handlers => HandlerDoc(c, session))
      /\ (p \in Reconcilers => c.kind \in {"none", "reconcile"})
  BY Zenon DEF DocsOK, CallDoc
<1>2. n.kind = c.kind /\ n.turn = c.turn /\ c.s \in Session
  BY Zenon, <1>1 DEF DecidesCall, Keep, Doc
<1>3. CASE StepDecides(p, n)
  <2>1. c.kind = "reconcile" /\ c.pc = "read" /\ n.pc = NextStage(n.acts)
    BY Zenon, <1>3 DEF StepDecides
  <2>2. PICK fact \in Fact : IsDecision(n, Step(c.s, Observe(c.s, fact)))
    BY Zenon, <1>3 DEF StepDecides
  <2>3. c.s.phase # "done"
    BY Zenon, <1>1, <2>1 DEF CallDoc
  <2>4. PassFits(c.s, Step(c.s, Observe(c.s, fact)))
    BY Zenon, <1>1, <2>3, StepDoc
  <2> QED
    BY Zenon, <1>2, <2>1, <2>2, <2>4, PassCallFits
<1>4. CASE ProvisionDecides(p, n)
  <2>1. c.kind = "reconcile" /\ c.pc = "provision" /\ n.pc = NextStage(n.acts)
    BY Zenon, <1>4 DEF ProvisionDecides, At
  <2>2. PICK outcome \in ProvisionOutcome(c.s, c.rows), restored \in Restorable(c.s) :
          IsDecision(n, AfterProvision(c.s, c.acts \ {Provision}, c.rows, outcome, restored))
    BY Zenon, <1>4 DEF ProvisionDecides
  <2>3. c.s.phase = "provisioning" /\ Quiet(c.acts \ {Provision})
    BY Zenon, <1>1, <2>1 DEF CallDoc, Quiet
  <2>4. (outcome.kind = "sandbox" => outcome.box \in Sandboxes) /\ restored \in BOOLEAN
    BY Zenon, OutcomeType
  <2>5. PassFits(c.s, AfterProvision(c.s, c.acts \ {Provision}, c.rows, outcome, restored))
    BY Zenon, <1>1, <2>3, <2>4, AfterProvisionDoc
  <2> QED
    BY Zenon, <1>2, <2>1, <2>2, <2>5, PassCallFits
<1>5. CASE PublishDecides(p, n)
  <2>1. c.kind = "reconcile" /\ c.pc = "publish" /\ n.pc = NextStage(n.acts)
    BY Zenon, <1>5 DEF PublishDecides, At
  <2>2. PICK outcome \in {"pr", "transient", "refused", "failed"} :
          IsDecision(n, AfterPublish(c.s, c.rows, outcome))
    BY Zenon, <1>5 DEF PublishDecides
  <2>3. c.s.phase = "publishing"
    BY Zenon, <1>1, <2>1 DEF CallDoc
  <2>4. PassFits(c.s, AfterPublish(c.s, c.rows, outcome))
    BY Zenon, <1>1, <2>3, AfterPublishDoc
  <2> QED
    BY Zenon, <1>2, <2>1, <2>2, <2>4, PassCallFits
<1>6. CASE EndDecides(p, n)
  <2>1. n.pc = "effects" /\ c.kind \in {"restart", "fail"}
    BY Zenon, <1>6 DEF EndDecides
  <2>2. "failed" \in ErrorCode
    BY Zenon DEF ErrorCode
  <2>3. \/ n.s = finish(c.s, {}, rows).s
        \/ n.s = Fail(c.s, {}, rows, "failed").s
    BY Zenon, <1>6 DEF EndDecides, IsDecision
  <2>3a. LET e == finish(c.s, {}, rows).s IN Doc(e) /\ e.phase = "done" /\ e.turn = None
    BY <1>2, FinishDoc
  <2>3b. LET e == Fail(c.s, {}, rows, "failed").s IN Doc(e) /\ e.phase = "done" /\ e.turn = None
    BY <1>2, <2>2, FailDoc
  <2>4. Doc(n.s) /\ n.s.phase = "done" /\ n.s.turn = None
    BY Zenon, <2>3, <2>3a, <2>3b
  <2>5. CallDoc(n)
    BY Zenon, <1>2, <2>1, <2>4 DEF CallDoc
  <2>6. fresh[p] => FreshDoc(n, session)
    BY Zenon, <1>1, <1>2, <2>1 DEF FreshDoc
  <2>7. p \in Handlers => HandlerDoc(n, session)
    BY ZenonT(30), <1>2, <2>1 DEF HandlerDoc
  <2> QED
    BY Zenon, <1>1, <1>2, <2>5, <2>6, <2>7 DEF CallFits
<1>7. CASE CompletionDecides(p, n)
  <2> DEFINE d == completeDecision(c.s, Seen(p), c.turn, c.req)
  <2>1. c.kind = "complete" /\ c.pc = "read" /\ n.pc = "effects" /\ n.s = d.s
    BY Zenon, <1>7 DEF CompletionDecides, IsDecision
  <2>2. c.turn \in Turns /\ c.req.pushed \in BOOLEAN
    BY Zenon, <2>1 DEF IInv, CallsOK, GoodCall, CallInFlight, Request
  <2>3. c.s.phase # "done"
    BY Zenon, <1>1, <2>1 DEF CallDoc
  <2>4. Doc(d.s)
    BY <1>1, <2>2, <2>3, CompleteDoc
  <2> HIDE DEF d
  <2>5. CallDoc(n)
    BY Zenon, <1>2, <2>1, <2>4 DEF CallDoc
  <2>6. fresh[p] => FreshDoc(n, session)
    BY Zenon, <1>1, <1>2, <2>1 DEF FreshDoc
  <2>7. p \in Handlers => HandlerDoc(n, session)
    BY Zenon, <1>1, <1>2, <2>1 DEF HandlerDoc
  <2> QED
    BY Zenon, <1>1, <1>2, <2>5, <2>6, <2>7 DEF CallFits
<1> QED
  BY Zenon, <1>3, <1>4, <1>5, <1>6, <1>7 DEF DecidesCall

LEMMA CallFormFits ==
  ASSUME IInv, UniqueTurns, DocsOK, NEW p \in Procs, NEW n, NEW f, CallForm(p, n, f)
  PROVE  CallFits(p, n, f)
<1>1. CASE n = NoOp /\ ~f
  BY Zenon, <1>1, NoOpFits DEF CallFits
<1> QED
  BY Zenon, <1>1, BeginsFits, LooksAgainFits, StageFits, DecidesFits DEF CallForm

-----------------------------------------------------------------------------
(* The writes.  A write that does not concern the request in flight:       *)
SafeWrite(n) ==
  /\ Doc(n) /\ n.last = session.last
  /\ n.phase = "done" => n.turn = None \/ (session.phase = "done" /\ n.turn = session.turn)
  /\ n.phase = "publishing" => session.phase = "publishing"

LEMMA SafeWriteKeeps ==
  ASSUME NEW n, SafeWrite(n), NEW c, HandlerDoc(c, session)
  PROVE  HandlerDoc(c, n)
BY Zenon DEF SafeWrite, HandlerDoc

LEMMA AtOnceSafe ==
  ASSUME Doc(session), NEW n, WritesAtOnce(n)
  PROVE  SafeWrite(n)
<1>1. CASE session.phase # "done" /\ n = [session EXCEPT !.stop = TRUE]
  <2>1. Doc(n) /\ n.phase = session.phase /\ n.last = session.last /\ n.turn = session.turn
    BY Zenon, <1>1, MarkDoc
  <2> QED
    BY Zenon, <1>1, <2>1 DEF SafeWrite
<1>2. CASE session.phase = "awaitingApproval" /\ n = Enter([session EXCEPT !.rejected = TRUE], "done")
  <2>1. Doc(n) /\ n.phase = "done" /\ n.last = session.last /\ n.turn = None
    BY Zenon, <1>2, RejectedDoc
  <2> QED
    BY Zenon, <2>1 DEF SafeWrite
<1>3. CASE session.phase = "awaitingApproval" /\ n = Enter(session, "queued")
  <2>1. Doc(n) /\ n.phase = "queued" /\ n.last = session.last
    BY Zenon, <1>3, MovedDoc
  <2> QED
    BY Zenon, <2>1 DEF SafeWrite
<1>4. CASE n = archive(session)
  <2>1. /\ Doc(n) /\ n.last = session.last /\ n.turn = session.turn
        /\ n.phase = session.phase \/ (session.phase = "idle" /\ n.phase = "done")
    BY Zenon, <1>4, ArchiveDoc
  <2>2. session.phase = "idle" => session.turn = None
    BY Zenon DEF Doc
  <2> QED
    BY Zenon, <2>1, <2>2 DEF SafeWrite
<1>5. CASE session.phase = "idle" /\ n = EndIdle(session)
  <2>1. Doc(n) /\ n.phase = "done" /\ n.turn = None /\ n.last = session.last
    BY Zenon, <1>5, EndIdleDoc
  <2> QED
    BY Zenon, <2>1 DEF SafeWrite
<1>6. CASE n = session
  BY Zenon, <1>6 DEF SafeWrite
<1> QED
  BY ZenonT(30), <1>1, <1>2, <1>3, <1>4, <1>5, <1>6 DEF WritesAtOnce

(* A pass writes the copy that the document still is.                      *)
LEMMA PassWriteSafe ==
  ASSUME FreshTracks, DocsOK, NEW p \in Reconcilers, NEW n, WritesLast(p, n)
  PROVE  SafeWrite(n)
<1>1. p \in Procs /\ op[p].kind \in {"none", "reconcile"}
  BY Zenon DEF Procs, DocsOK
<1>2. fresh[p] /\ n = op[p].s /\ op[p].kind = "reconcile"
  BY Zenon, <1>1 DEF WritesLast, WritesCopy, WritesReset, WritesPhase
<1>3. CallDoc(op[p]) /\ FreshDoc(op[p], session)
  BY Zenon, <1>1, <1>2 DEF DocsOK
<1>4. op[p].s.last = session.last
  BY Zenon, <1>1, <1>2 DEF FreshTracks, DecidedFrom
<1> QED
  BY ZenonT(30), <1>2, <1>3, <1>4 DEF SafeWrite, CallDoc, FreshDoc

(* A request writes a document.                                            *)
LEMMA RequestWriteDoc ==
  ASSUME IInv, DocsOK, NEW p \in Handlers, NEW n, WritesLast(p, n)
  PROVE  Doc(n)
<1>1. p \in Procs /\ Doc(session) /\ CallDoc(op[p]) /\ HandlerDoc(op[p], session)
  BY Zenon DEF Procs, DocsOK
<1>2. session \in Session
  BY Zenon, <1>1 DEF Doc
<1>3. CASE WritesCopy(p, n)
  BY Zenon, <1>1, <1>3 DEF WritesCopy, CallDoc
<1>4. CASE WritesReset(p, n)
  <2>1. n = resetForTurn(session, op[p].rec)
    BY Zenon, <1>4 DEF WritesReset
  <2> QED
    BY Zenon, <1>2, <2>1, ResetDoc
<1>5. CASE n \in {session, PullRequestMade}
  BY Zenon, <1>1, <1>5, PullRequestDoc
<1>6. CASE session.phase = "awaitingUser" /\ n = Enter([session EXCEPT !.env = TRUE], "queued")
  BY Zenon, <1>1, <1>6, MovedDoc
<1>7. CASE session.phase = "setup" /\ n = Enter(session, "running")
  BY Zenon, <1>1, <1>7, MovedDoc
<1>8. CASE session.phase = "running" /\ n = Enter(session, "awaitingUser")
  BY Zenon, <1>1, <1>8, MovedDoc
<1>9. CASE /\ op[p].kind = "bootstrap" /\ op[p].pc = "update" /\ session.phase = "starting"
           /\ n \in {Enter(Started(session, op[p].turn), "running"),
                     Enter(Started(session, op[p].turn), "setup")}
  <2>1. op[p].turn \in Turns \cup {None}
    BY Zenon, <1>1 DEF IInv, CallsOK, CallInFlight
  <2>2. op[p].turn # None => op[p].turn # session.last
    BY Zenon, <1>1, <1>9 DEF HandlerDoc
  <2>3. PICK q \in {"running", "setup"} : n = Enter(Started(session, op[p].turn), q)
    BY Zenon, <1>9
  <2> QED
    BY Zenon, <1>1, <1>9, <2>1, <2>2, <2>3, StartedDoc
<1>10. CASE /\ op[p].kind = "inbox" /\ op[p].pc = "update"
            /\ session.sandbox = op[p].s.sandbox /\ n = Deliver(session, op[p].turn)
  <2>1. op[p].turn \in Turns /\ op[p].s.sandbox # None
    <3>1. op[p].turn \in Delivered /\ op[p].s.sandbox \in Exists
      BY Zenon, <1>1, <1>10 DEF IInv, CallsOK, GoodCall
    <3> QED
      BY Zenon, <3>1, NoneAssumption DEF Delivered, Exists
  <2>2. op[p].turn # session.last
    BY Zenon, <1>1, <1>10, <2>1, NoneAssumption DEF HandlerDoc
  <2>3. session.phase # "publishing"
    BY Zenon, <1>1, <1>10 DEF HandlerDoc, CallDoc, acceptTurn
  <2>4. session.phase # "awaitingApproval"
    BY Zenon, <1>1, <1>10, <2>1 DEF Doc
  <2> QED
    BY SMTT(20), <1>1, <1>10, <2>1, <2>2, <2>3, <2>4, DeliverDoc
<1>11. CASE WritesPhase(p, n)
  BY ZenonT(30), <1>6, <1>7, <1>8, <1>9, <1>10, <1>11 DEF WritesPhase
<1> QED
  BY Zenon, <1>3, <1>4, <1>5, <1>11 DEF WritesLast

-----------------------------------------------------------------------------
(* Every step keeps the documents.                                         *)

(* What a call becomes when it has written.                                *)
LEMMA AfterWriteFits ==
  ASSUME NEW p, NEW n, AfterWrite(p, n)
  PROVE  CallDoc(n) /\ (\A d : HandlerDoc(n, d))
         /\ (op[p].kind # "restart" => n.kind = "none")
<1>1. CASE n = NoOp
  <2>1. CallDoc(NoOp) /\ (\A d : HandlerDoc(NoOp, d))
    BY Zenon, NoOpFits DEF CallFits
  <2>2. NoOp.kind = "none"
    BY Zenon DEF NoOp
  <2> QED
    BY Zenon, <1>1, <2>1, <2>2
<1>2. CASE n # NoOp
  <2>1. n.kind = "restart" /\ n.pc = "enqueue" /\ n.s = NewSession /\ op[p].kind = "restart"
    BY Zenon, <1>2 DEF AfterWrite, Keep
  <2>2. CallDoc(n)
    BY Zenon, <2>1, NewDoc DEF CallDoc
  <2> QED
    BY Zenon, <2>1, <2>2 DEF HandlerDoc
<1> QED
  BY Zenon, <1>1, <1>2

LEMMA DocsStep ==
  ASSUME OneRequest, IInv, FreshTracks, UniqueTurns, DocsOK, Form,
         Keeps(session, session'), Delivered \subseteq Delivered'
  PROVE  DocsOK'
<1>0. session'.last \in Delivered' \cup {None}
  <2>1. session.turn \in Delivered \cup {None} /\ session.last \in Delivered \cup {None}
    BY Zenon DEF IInv, SessionOK, GoodSession, DocsOK
  <2> QED
    BY Zenon, <2>1 DEF Keeps
<1>1. /\ Doc(session)
      /\ \A p \in Procs : CallDoc(op[p]) /\ (fresh[p] => FreshDoc(op[p], session))
      /\ \A h \in Handlers : HandlerDoc(op[h], session)
      /\ \A r \in Reconcilers : op[r].kind \in {"none", "reconcile"}
  BY Zenon DEF DocsOK
<1>2. SUFFICES /\ Doc(session')
               /\ \A p \in Procs : CallDoc(op'[p]) /\ (fresh'[p] => FreshDoc(op'[p], session'))
               /\ \A h \in Handlers : HandlerDoc(op'[h], session')
               /\ \A r \in Reconcilers : op'[r].kind \in {"none", "reconcile"}
  BY Zenon, <1>0 DEF DocsOK
<1>3. Handlers \subseteq Procs /\ Reconcilers \subseteq Procs
  BY Zenon DEF Procs
<1>4. CASE UNCHANGED <<session, op, fresh>>
  BY Zenon, <1>1, <1>4
<1>5. CASE Write(session') /\ op' = op /\ WritesAtOnce(session')
  <2>1. SafeWrite(session')
    BY Zenon, <1>1, <1>5, AtOnceSafe
  <2>2. \A p \in Procs : ~fresh'[p]
    BY Zenon, <1>5 DEF Write
  <2>3. \A h \in Handlers : HandlerDoc(op'[h], session')
    BY Zenon, <1>1, <1>5, <2>1, SafeWriteKeeps
  <2> QED
    BY ZenonT(30), <1>1, <1>5, <2>1, <2>2, <2>3 DEF SafeWrite
<1>6. ASSUME NEW p \in Procs, Write(session'), OnlyCall(p), WritesLast(p, session'), AfterWrite(p, op'[p])
      PROVE  /\ Doc(session')
             /\ \A q \in Procs : CallDoc(op'[q]) /\ (fresh'[q] => FreshDoc(op'[q], session'))
             /\ \A h \in Handlers : HandlerDoc(op'[h], session')
             /\ \A r \in Reconcilers : op'[r].kind \in {"none", "reconcile"}
  <2>1. \A q \in Procs : ~fresh'[q]
    BY Zenon, <1>6 DEF Write
  <2>2. CallDoc(op'[p]) /\ (\A d : HandlerDoc(op'[p], d)) /\ (op[p].kind # "restart" => op'[p].kind = "none")
    BY Zenon, <1>6, AfterWriteFits
  <2>3. \A q \in Procs : CallDoc(op'[q])
    BY Zenon, <1>1, <1>6, <2>2 DEF OnlyCall
  <2>4. \A r \in Reconcilers : op'[r].kind \in {"none", "reconcile"}
    BY Zenon, <1>1, <1>3, <1>6, <2>2 DEF OnlyCall
  <2>5. CASE p \in Reconcilers
    <3>1. SafeWrite(session')
      BY Zenon, <1>6, <2>5, PassWriteSafe
    <3>2. \A h \in Handlers : HandlerDoc(op'[h], session')
      BY Zenon, <1>1, <1>3, <1>6, <2>2, <3>1, SafeWriteKeeps DEF OnlyCall
    <3> QED
      BY ZenonT(30), <2>1, <2>3, <2>4, <3>1, <3>2 DEF SafeWrite
  <2>6. CASE p \in Handlers
    <3>1. Doc(session')
      BY Zenon, <1>6, <2>6, RequestWriteDoc
    <3>2. \A h \in Handlers : HandlerDoc(op'[h], session')
      BY Zenon, <2>2, <2>6 DEF OneRequest
    <3> QED
      BY ZenonT(30), <2>1, <2>3, <2>4, <3>1, <3>2
  <2> QED
    BY Zenon, <2>5, <2>6 DEF Procs
<1>7. ASSUME NEW p \in Procs, OnlyCall(p), \A q \in Procs : q # p => fresh'[q] = fresh[q],
             session' = session, CallForm(p, op'[p], fresh'[p])
      PROVE  /\ Doc(session')
             /\ \A q \in Procs : CallDoc(op'[q]) /\ (fresh'[q] => FreshDoc(op'[q], session'))
             /\ \A h \in Handlers : HandlerDoc(op'[h], session')
             /\ \A r \in Reconcilers : op'[r].kind \in {"none", "reconcile"}
  <2>1. CallFits(p, op'[p], fresh'[p])
    BY Zenon, <1>7, CallFormFits
  <2>2. \A q \in Procs : CallDoc(op'[q]) /\ (fresh'[q] => FreshDoc(op'[q], session'))
    BY Zenon, <1>1, <1>7, <2>1 DEF OnlyCall, CallFits
  <2>3. \A h \in Handlers : HandlerDoc(op'[h], session')
    BY Zenon, <1>1, <1>3, <1>7, <2>1 DEF OnlyCall, CallFits
  <2>4. \A r \in Reconcilers : op'[r].kind \in {"none", "reconcile"}
    BY Zenon, <1>1, <1>3, <1>7, <2>1 DEF OnlyCall, CallFits
  <2> QED
    BY Zenon, <1>1, <1>7, <2>2, <2>3, <2>4
<1> QED
  BY ZenonT(30), <1>4, <1>5, <1>6, <1>7 DEF Form

(* An ended session leaves done only by a reset.                           *)
LEMMA EndedStep ==
  ASSUME DocsOK, Form, session.phase = "done", session'.phase # "done"
  PROVE  /\ session'.phase = "queued" /\ session'.sandbox = None
         /\ session'.error = "" /\ ~session'.stop
<1>1. Doc(session) /\ session \in Session
  BY Zenon DEF DocsOK, Doc
<1>2. session' # session
  BY Zenon
<1>3. ~WritesAtOnce(session')
  <2>1. ~(session' = archive(session))
    BY Zenon, <1>1, ArchiveDoc
  <2> QED
    BY Zenon, <1>2, <2>1 DEF WritesAtOnce
<1>4. PICK p \in Procs : WritesLast(p, session')
  BY Zenon, <1>2, <1>3 DEF Form
<1>5. ~WritesCopy(p, session')
  <2>1. CallDoc(op[p]) /\ (fresh[p] => FreshDoc(op[p], session))
    BY Zenon DEF DocsOK
  <2> QED
    BY Zenon, <2>1 DEF WritesCopy, CallDoc, FreshDoc
<1>6. ~WritesPhase(p, session')
  <2>1. ASSUME NEW t PROVE Deliver(session, t).phase = "done"
    <3>1. Deliver(session, t) = [session EXCEPT !.turn = IF @ = None THEN t ELSE @]
      BY Zenon DEF Deliver
    <3> QED
      BY Zenon, <1>1, <3>1 DEF Session
  <2> QED
    BY Zenon, <2>1 DEF WritesPhase
<1>7. session' # PullRequestMade
  BY Zenon, <1>1, PullRequestDoc
<1>8. WritesReset(p, session')
  BY Zenon, <1>2, <1>4, <1>5, <1>6, <1>7 DEF WritesLast
<1>9. session' = resetForTurn(session, op[p].rec)
  BY Zenon, <1>8 DEF WritesReset
<1> QED
  BY ZenonT(30), <1>1, <1>9, ResetDoc

-----------------------------------------------------------------------------
(* The inbox.  Items are appended, turns once; the items there keep their  *)
(* place.                                                                  *)
LEMMA MadeItem ==
  /\ \A t \in Turns, b \in BOOLEAN : TurnItem(t, b) \in Item
  /\ \A b \in Sandboxes \cup {None} : StopItem(b) \in Item
BY Zenon DEF TurnItem, StopItem, Item

LEMMA InboxPlace ==
  ASSUME InboxOK, NEW i \in DOMAIN inbox
  PROVE  /\ inbox[i] \in Item /\ i \in 1 .. Len(inbox) /\ i \in Nat
         /\ inbox[i].kind = "turn" => inbox[i].id \in Turns
BY DEF InboxOK, Item

LEMMA EnqueueInbox ==
  ASSUME NEW x \in Item, x.kind = "turn" => ~InInbox(x.id), inbox' = Enqueue(x)
  PROVE  InboxStep
BY Zenon DEF Enqueue, InboxStep

LEMMA EnqueueTurnInbox ==
  ASSUME NEW t \in Turns, NEW pending \in BOOLEAN, inbox' = EnqueueTurn(t, pending)
  PROVE  InboxStep
<1>1. TurnItem(t, pending) \in Item /\ TurnItem(t, pending).id = t
  BY Zenon, MadeItem DEF TurnItem
<1>2. CASE InInbox(t)
  BY Zenon, <1>2 DEF EnqueueTurn, InboxStep
<1>3. CASE ~InInbox(t)
  BY Zenon, <1>1, <1>3, EnqueueInbox DEF EnqueueTurn
<1> QED
  BY Zenon, <1>2, <1>3

LEMMA EffectsInbox ==
  ASSUME NEW p \in Procs, RunSandboxActions(p)
  PROVE  InboxStep
<1>1. PICK acts : inbox' = AfterEnqueueStop(acts)
  BY Zenon DEF RunSandboxActions
<1>2. CASE \E b \in Sandboxes \cup {None} : EnqueueStop(b) \in acts
  <2> DEFINE b == CHOOSE b \in Sandboxes \cup {None} : EnqueueStop(b) \in acts
  <2>1. b \in Sandboxes \cup {None}
    BY Zenon, <1>2
  <2>2. inbox' = Enqueue(StopItem(b))
    BY Zenon, <1>1, <1>2 DEF AfterEnqueueStop
  <2> HIDE DEF b
  <2>3. StopItem(b) \in Item /\ StopItem(b).kind = "stop"
    BY Zenon, <2>1, MadeItem DEF StopItem
  <2> QED
    BY Zenon, <2>2, <2>3, EnqueueInbox
<1>3. CASE ~ \E b \in Sandboxes \cup {None} : EnqueueStop(b) \in acts
  BY Zenon, <1>1, <1>3 DEF AfterEnqueueStop, InboxStep
<1> QED
  BY Zenon, <1>2, <1>3

LEMMA PickInbox ==
  ASSUME NEW h \in Handlers, NEW i \in DOMAIN inbox, turnReady(i)
  PROVE  InboxStep
BY Zenon DEF turnReady, InboxStep

LEMMA ReconcilerInbox ==
  ASSUME ReconcilerNext
  PROVE  InboxStep
<1>1. PICK r \in Reconcilers :
        \/ RunSandboxActions(r)
        \/ Lease(r) \/ (\E fact \in Fact : StepOnce(r, fact)) \/ provision(r) \/ publish(r) \/ CommitPass(r)
  BY Zenon DEF ReconcilerNext
<1>2. CASE RunSandboxActions(r)
  BY Zenon, <1>2, EffectsInbox DEF Procs
<1>3. CASE Lease(r) \/ (\E fact \in Fact : StepOnce(r, fact)) \/ provision(r) \/ publish(r) \/ CommitPass(r)
  <2>1. inbox' = inbox
    BY ZenonT(30), <1>3 DEF Lease, StepOnce, provision, publish, CommitPass
  <2> QED
    BY Zenon, <2>1 DEF InboxStep
<1> QED
  BY Zenon, <1>1, <1>2, <1>3

LEMMA ServiceInbox ==
  ASSUME IInv, ServiceNext
  PROVE  InboxStep
<1>1. CASE StopSession \/ Archive \/ dispatchPullRequest \/ \E reject \in BOOLEAN : Approve(reject)
  <2>1. inbox' = inbox
    BY ZenonT(30), <1>1 DEF StopSession, Archive, dispatchPullRequest, Approve
  <2> QED
    BY Zenon, <2>1 DEF InboxStep
<1>2. ASSUME NEW i \in DOMAIN inbox, settleTurnScope(i)
      PROVE  InboxStep
  BY Zenon, <1>2 DEF settleTurnScope, InboxStep
<1>3. ASSUME NEW h \in Handlers,
             \/ \E t \in Turns : Prompt(h, t) \/ Restart(h, t) \/ StartOver(h, t)
             \/ PromptUpdate(h) \/ Answer(h) \/ AnswerUpdate(h)
             \/ StartOverFinish(h) \/ StartOverCommit(h) \/ RestartUpdate(h)
             \/ FailSession(h) \/ FailDecide(h) \/ FailCommit(h)
             \/ CreatePullRequest(h) \/ CreatePullRequestUpdate(h)
      PROVE  InboxStep
  <2>1. inbox' = inbox
    BY ZenonT(60), <1>3 DEF Prompt, Restart, StartOver, PromptUpdate, Answer, AnswerUpdate,
       StartOverFinish, StartOverCommit, RestartUpdate, FailSession, FailDecide, FailCommit,
       CreatePullRequest, CreatePullRequestUpdate
  <2> QED
    BY Zenon, <2>1 DEF InboxStep
<1>4. ASSUME NEW h \in Handlers, PromptEnqueue(h) \/ RestartEnqueue(h)
      PROVE  InboxStep
  <2>1. op[h].kind \in {"prompt", "restart"} /\ h \in Procs
    BY Zenon, <1>4 DEF PromptEnqueue, RestartEnqueue, At, Procs
  <2>2. op[h].turn \in Turns
    BY Zenon, <2>1 DEF IInv, CallsOK, GoodCall
  <2>3. inbox' = inbox \/ \E pending \in BOOLEAN : inbox' = EnqueueTurn(op[h].turn, pending)
    BY ZenonT(30), <1>4 DEF PromptEnqueue, RestartEnqueue
  <2> QED
    BY Zenon, <2>2, <2>3, EnqueueTurnInbox DEF InboxStep
<1>5. ASSUME NEW h \in Handlers, RunSandboxActions(h)
      PROVE  InboxStep
  BY Zenon, <1>5, EffectsInbox DEF Procs
<1> QED
  BY ZenonT(60), <1>1, <1>2, <1>3, <1>4, <1>5 DEF ServiceNext

LEMMA RuntimeInbox ==
  ASSUME RuntimeNext
  PROVE  InboxStep
<1>1. ASSUME NEW b \in Sandboxes, RunnerNext(b)
      PROVE  InboxStep
  <2>1. inbox' = inbox
    BY ZenonT(60), <1>1 DEF RunnerNext, BootstrapGone, Prepared, PrepareFailed, TakeNext, Ask,
       EndTurn, CompleteRefused, CompleteLate, HeartbeatStop, SandboxUp, SandboxDown,
       SandboxKilled, ObserveEnd
  <2> QED
    BY Zenon, <2>1 DEF InboxStep
<1>2. ASSUME NEW h \in Handlers, HandlerNext(h)
      PROVE  InboxStep
  <2>1. CASE BootstrapPick(h) \/ InboxPick(h)
    <3>1. inbox' = inbox \/ \E i \in DOMAIN inbox : turnReady(i)
      BY ZenonT(60), <2>1 DEF BootstrapPick, InboxPick, Pick, Oldest, UndeliveredCodingInbox, NextTurns
    <3> QED
      BY Zenon, <3>1, PickInbox DEF InboxStep
  <2>2. CASE MarkPicked(h)
    BY Zenon, <2>2 DEF InboxStep
  <2>3. CASE RunSandboxActions(h)
    BY Zenon, <2>3, EffectsInbox DEF Procs
  <2>4. CASE \/ \E b \in Sandboxes : \/ Bootstrap(h, b) \/ CompleteTurn(h, b)
                                     \/ HeartbeatRunning(h, b) \/ Events(h, b) \/ Inbox(h, b)
             \/ BootstrapUpdate(h) \/ CompleteDecide(h) \/ CompleteCommit(h)
             \/ FinishSetup(h) \/ EventsUpdate(h) \/ InboxUpdate(h)
    <3>1. inbox' = inbox
      BY ZenonT(60), <2>4 DEF Bootstrap, CompleteTurn, HeartbeatRunning, Events, Inbox,
         BootstrapUpdate, CompleteDecide, CompleteCommit, FinishSetup, EventsUpdate, InboxUpdate
    <3> QED
      BY Zenon, <3>1 DEF InboxStep
  <2> QED
    BY ZenonT(60), <1>2, <2>1, <2>2, <2>3, <2>4 DEF HandlerNext
<1> QED
  BY Zenon, <1>1, <1>2 DEF RuntimeNext

LEMMA NextInbox ==
  ASSUME IInv, [Next]_vars
  PROVE  InboxStep
<1>1. CASE UNCHANGED vars
  BY Zenon, <1>1 DEF vars, InboxStep
<1>2. ASSUME NEW p \in Procs, Crash(p)
      PROVE  InboxStep
  BY Zenon, <1>2 DEF Crash, InboxStep
<1> QED
  BY Zenon, <1>1, <1>2, ReconcilerInbox, ServiceInbox, RuntimeInbox DEF Next

LEMMA AppendContinues ==
  ASSUME InboxOK, UniqueTurns, NEW x \in Item, inbox' = Append(inbox, x),
         x.kind = "turn" => ~InInbox(x.id)
  PROVE  Continued /\ UniqueTurns'
<1>1. /\ Len(inbox') = Len(inbox) + 1 /\ DOMAIN inbox' = 1 .. (Len(inbox) + 1)
      /\ Len(inbox) \in Nat /\ DOMAIN inbox = 1 .. Len(inbox)
      /\ inbox'[Len(inbox) + 1] = x
      /\ \A i \in DOMAIN inbox : inbox'[i] = inbox[i]
  BY DEF InboxOK
<1>2. Continued
  BY <1>1 DEF Continued
<1>3. ASSUME NEW i \in DOMAIN inbox', NEW j \in DOMAIN inbox',
             inbox'[i].kind = "turn", inbox'[j].kind = "turn", inbox'[i].id = inbox'[j].id
      PROVE  i = j
  <2>1. i \in DOMAIN inbox \/ i = Len(inbox) + 1
    BY <1>1
  <2>2. j \in DOMAIN inbox \/ j = Len(inbox) + 1
    BY <1>1
  <2>3. CASE i \in DOMAIN inbox /\ j \in DOMAIN inbox
    BY Zenon, <1>1, <1>3, <2>3 DEF UniqueTurns
  <2>4. CASE i \in DOMAIN inbox /\ j = Len(inbox) + 1
    BY Zenon, <1>1, <1>3, <2>4 DEF InInbox
  <2>5. CASE j \in DOMAIN inbox /\ i = Len(inbox) + 1
    BY Zenon, <1>1, <1>3, <2>5 DEF InInbox
  <2> QED
    BY Zenon, <2>1, <2>2, <2>3, <2>4, <2>5
<1>4. UniqueTurns'
  BY Zenon, <1>3 DEF UniqueTurns
<1> QED
  BY Zenon, <1>2, <1>4

LEMMA TouchContinues ==
  ASSUME InboxOK, UniqueTurns, NEW i \in DOMAIN inbox, NEW e,
         inbox' = [inbox EXCEPT ![i] = e],
         e.kind = inbox[i].kind, e.id = inbox[i].id, inbox[i].delivered => e.delivered
  PROVE  Continued /\ UniqueTurns'
<1>1. /\ DOMAIN inbox' = DOMAIN inbox /\ Len(inbox') = Len(inbox) /\ Len(inbox) \in Nat
      /\ \A j \in DOMAIN inbox : inbox'[j] = IF j = i THEN e ELSE inbox[j]
  BY DEF InboxOK
<1>2. Continued
  BY <1>1 DEF Continued
<1>3. UniqueTurns'
  BY <1>1, <1>2 DEF Continued, UniqueTurns
<1> QED
  BY Zenon, <1>2, <1>3

LEMMA PlaceOfHeld ==
  ASSUME IInv, NEW h \in Procs, op[h].pc = "mark" \/ At(h, "inbox", "update")
  PROVE  HasPlace(op[h].turn, SeqOf(op[h].turn))
<1>1. op[h].turn \in Known
  BY ZenonT(30) DEF IInv, CallsOK, GoodCall, At, Delivered, Known, InInbox
<1> QED
  BY Zenon, <1>1 DEF Known, InInbox, SeqOf, HasPlace

LEMMA MarkContinues ==
  ASSUME IInv, UniqueTurns, NEW h \in Procs, MarkPicked(h)
  PROVE  Continued /\ UniqueTurns'
<1> DEFINE i == SeqOf(op[h].turn)
           e == [inbox[i] EXCEPT !.delivered = TRUE]
<1>1. i \in DOMAIN inbox
  BY Zenon, PlaceOfHeld DEF MarkPicked, HasPlace
<1>2. inbox' = [inbox EXCEPT ![i] = e]
  BY Zenon DEF MarkPicked, MarkCodingInboxDelivered
<1> HIDE DEF i
<1>3. inbox[i] \in Item
  BY Zenon, <1>1, InboxPlace DEF IInv
<1>4. e.kind = inbox[i].kind /\ e.id = inbox[i].id /\ e.delivered = TRUE
  BY Zenon, <1>3 DEF Item
<1> HIDE DEF e
<1> QED
  BY Zenon, <1>1, <1>2, <1>4, TouchContinues DEF IInv

LEMMA PendingContinues ==
  ASSUME IInv, UniqueTurns, NEW i \in DOMAIN inbox, inbox' = [inbox EXCEPT ![i].pending = FALSE]
  PROVE  Continued /\ UniqueTurns'
<1> DEFINE e == [inbox[i] EXCEPT !.pending = FALSE]
<1>1. inbox' = [inbox EXCEPT ![i] = e]
  BY Zenon
<1>2. inbox[i] \in Item
  BY Zenon, InboxPlace DEF IInv
<1>3. e.kind = inbox[i].kind /\ e.id = inbox[i].id /\ e.delivered = inbox[i].delivered
  BY Zenon, <1>2 DEF Item
<1> HIDE DEF e
<1> QED
  BY Zenon, <1>1, <1>3, TouchContinues DEF IInv

LEMMA InboxContinues ==
  ASSUME IInv, UniqueTurns, InboxStep
  PROVE  Continued /\ UniqueTurns'
<1>1. CASE inbox' = inbox
  <2>1. Len(inbox) \in Nat
    BY DEF IInv, InboxOK
  <2> QED
    BY <1>1, <2>1 DEF Continued, UniqueTurns
<1>2. ASSUME NEW x \in Item, inbox' = Append(inbox, x), x.kind = "turn" => ~InInbox(x.id)
      PROVE  Continued /\ UniqueTurns'
  BY Zenon, <1>2, AppendContinues DEF IInv
<1>3. ASSUME NEW i \in DOMAIN inbox, inbox' = [inbox EXCEPT ![i].pending = FALSE]
      PROVE  Continued /\ UniqueTurns'
  BY Zenon, <1>3, PendingContinues
<1>4. ASSUME NEW h \in Handlers, MarkPicked(h)
      PROVE  Continued /\ UniqueTurns'
  BY Zenon, <1>4, MarkContinues DEF Procs
<1> QED
  BY ZenonT(30), <1>1, <1>2, <1>3, <1>4 DEF InboxStep

LEMMA ServedContinues ==
  ASSUME IInv, Continued, InboxOK', NEW n \in Nat, n <= Len(inbox), ServedTo(n)
  PROVE  ServedTo(n)'
<1>1. /\ DOMAIN inbox = 1 .. Len(inbox) /\ DOMAIN inbox' = 1 .. Len(inbox')
      /\ Len(inbox) \in Nat /\ Len(inbox') \in Nat
  BY DEF IInv, InboxOK
<1>2. ASSUME NEW j \in DOMAIN inbox', j <= n
      PROVE  ~undelivered(j)'
  <2>1. j \in DOMAIN inbox
    BY <1>1, <1>2
  <2> QED
    BY Zenon, <1>2, <2>1 DEF Continued, ServedTo, undelivered
<1> QED
  BY Zenon, <1>2 DEF ServedTo

LEMMA PlaceContinues ==
  ASSUME Continued, NEW t, NEW i, HasPlace(t, i)
  PROVE  HasPlace(t, i)'
BY Zenon DEF Continued, HasPlace

LEMMA DeliveredContinues ==
  ASSUME Continued
  PROVE  Delivered \subseteq Delivered'
BY Zenon DEF Continued, Delivered

(* The place of a turn is its own.                                         *)
LEMMA PlaceUnique ==
  ASSUME UniqueTurns, NEW t, NEW i, HasPlace(t, i)
  PROVE  SeqOf(t) = i
<1>1. HasPlace(t, SeqOf(t))
  BY Zenon DEF HasPlace, SeqOf
<1> QED
  BY Zenon, <1>1 DEF UniqueTurns, HasPlace

-----------------------------------------------------------------------------
LEMMA CursorFrame ==
  ASSUME RunnersOK, NEW b \in Sandboxes, NEW e, runner' = [runner EXCEPT ![b] = e],
         RunnerFollows(e, runner[b])
  PROVE  CursorsKept
<1>1. \A c \in Sandboxes : runner'[c] = IF c = b THEN e ELSE runner[c]
  BY Zenon DEF RunnersOK
<1>2. \A o : RunnerFollows(o, o)
  BY Zenon DEF RunnerFollows, ReqFollows
<1> QED
  BY Zenon, <1>1, <1>2 DEF CursorsKept

LEMMA CursorUnchanged ==
  ASSUME runner' = runner
  PROVE  CursorsKept
BY Zenon DEF CursorsKept, RunnerFollows, ReqFollows

LEMMA GoneCursor == \A o : RunnerFollows(Gone, o)
<1>1. Gone.after = 0 /\ Gone.req = NoReq
  BY Zenon DEF Gone, NoRunner
<1> QED
  BY Zenon, <1>1 DEF RunnerFollows, ReqFollows

LEMMA SameCursor ==
  ASSUME NEW n, NEW o, n.after = o.after, n.req = o.req
  PROVE  RunnerFollows(n, o)
BY Zenon DEF RunnerFollows, ReqFollows

LEMMA ExitCursor ==
  ASSUME RunnersOK, NEW b \in Sandboxes, Exit(b)
  PROVE  CursorsKept
BY Zenon, GoneCursor, CursorFrame DEF Exit

LEMMA AnsweredCursor ==
  ASSUME RunnersOK, NEW b \in Sandboxes, NEW t, Answered(b, t)
  PROVE  CursorsKept
<1> DEFINE r == runner[b]
           n == [r EXCEPT !.cur = None, !.req = NoReq, !.asked = "no"]
<1>1. \/ runner' = runner \/ runner' = [runner EXCEPT ![b] = Gone]
      \/ runner' = [runner EXCEPT ![b] = n]
  BY Zenon DEF Answered, Completed
<1>2. r \in Runner
  BY Zenon DEF RunnersOK
<1>3. n.after = r.after /\ n.req = NoReq
  BY Zenon, <1>2 DEF Runner
<1> HIDE DEF n
<1>4. RunnerFollows(n, r)
  BY Zenon, <1>3 DEF RunnerFollows, ReqFollows
<1> QED
  BY ZenonT(30), <1>1, <1>4, GoneCursor, CursorFrame, CursorUnchanged

LEMMA RunnerCursor ==
  ASSUME RunnersOK, NEW b \in Sandboxes, RunnerNext(b)
  PROVE  CursorsKept
<1> DEFINE r == runner[b]
<1>1. r \in Runner
  BY Zenon DEF RunnersOK
<1>2. CASE \/ BootstrapGone(b) \/ SandboxKilled(b) \/ SandboxDown(b) \/ Exit(b)
  BY Zenon, <1>2, ExitCursor DEF BootstrapGone, SandboxKilled, SandboxDown
<1>3. CASE runner' = runner
  BY Zenon, <1>3, CursorUnchanged
<1>4. ASSUME NEW e, runner' = [runner EXCEPT ![b] = e], e.after = r.after,
             e.req = r.req \/ ReqFollows(e, r)
      PROVE  CursorsKept
  BY Zenon, <1>4, CursorFrame DEF RunnerFollows, ReqFollows
<1>5. CASE Prepared(b)
  <2>1. runner' = [runner EXCEPT ![b] = [r EXCEPT !.st = "loop"]] \/ Exit(b)
    BY Zenon, <1>5 DEF Prepared
  <2>2. [r EXCEPT !.st = "loop"].after = r.after /\ [r EXCEPT !.st = "loop"].req = r.req
    BY Zenon, <1>1 DEF Runner
  <2> QED
    BY ZenonT(30), <1>2, <1>4, <2>1, <2>2
<1>6. CASE PrepareFailed(b)
  <2>1. runner' = [runner EXCEPT ![b] = [r EXCEPT !.st = "last", !.req = ErrorReq]] \/ Exit(b)
    BY Zenon, <1>6 DEF PrepareFailed
  <2>2. /\ [r EXCEPT !.st = "last", !.req = ErrorReq].after = r.after
        /\ ReqFollows([r EXCEPT !.st = "last", !.req = ErrorReq], r)
    BY Zenon, <1>1, <1>6 DEF Runner, ReqFollows, PrepareFailed
  <2> QED
    BY ZenonT(30), <1>2, <1>4, <2>1, <2>2
<1>7. CASE TakeNext(b)
  <2>1. runner' = [runner EXCEPT ![b] = [r EXCEPT !.cur = Head(r.queue), !.queue = Tail(r.queue)]] \/ Exit(b)
    BY Zenon, <1>7 DEF TakeNext
  <2>2. /\ [r EXCEPT !.cur = Head(r.queue), !.queue = Tail(r.queue)].after = r.after
        /\ [r EXCEPT !.cur = Head(r.queue), !.queue = Tail(r.queue)].req = r.req
    BY Zenon, <1>1 DEF Runner
  <2> QED
    BY ZenonT(30), <1>2, <1>4, <2>1, <2>2
<1>8. CASE Ask(b)
  <2>1. runner' = [runner EXCEPT ![b] = [r EXCEPT !.asked = "asked"]]
    BY Zenon, <1>8 DEF Ask
  <2>2. [r EXCEPT !.asked = "asked"].after = r.after /\ [r EXCEPT !.asked = "asked"].req = r.req
    BY Zenon, <1>1 DEF Runner
  <2> QED
    BY Zenon, <1>4, <2>1, <2>2
<1>9. CASE EndTurn(b)
  <2>1. PICK req \in TurnEnd(r) : runner' = [runner EXCEPT ![b] = [r EXCEPT !.req = req]]
    BY Zenon, <1>9 DEF EndTurn
  <2>3. EndsWell(req) \/ "turnError" \in Ops
    BY Zenon, <2>1 DEF TurnEnd, EndsWell
  <2>2. /\ [r EXCEPT !.req = req].after = r.after
        /\ ReqFollows([r EXCEPT !.req = req], r)
    <3>1. [r EXCEPT !.req = req].after = r.after /\ [r EXCEPT !.req = req].req = req
      BY Zenon, <1>1 DEF Runner
    <3> QED
      BY Zenon, <2>3, <3>1 DEF ReqFollows
  <2> QED
    BY Zenon, <1>4, <2>1, <2>2
<1>10. CASE CompleteRefused(b)
  <2>1. runner' = runner \/ Exit(b)
    BY Zenon, <1>10 DEF CompleteRefused, Refused, Exit
  <2> QED
    BY Zenon, <1>2, <1>3, <2>1
<1>11. CASE CompleteLate(b)
  BY Zenon, <1>11, AnsweredCursor DEF CompleteLate
<1>12. CASE HeartbeatStop(b)
  <2>1. runner' = [runner EXCEPT ![b] = requestStop(b)]
    BY Zenon, <1>12 DEF HeartbeatStop
  <2>2. requestStop(b).after = r.after /\ requestStop(b).req = r.req
    BY Zenon, <1>1 DEF Runner, requestStop
  <2> QED
    BY Zenon, <1>4, <2>1, <2>2
<1>13. CASE SandboxUp(b)
  <2>1. runner' = [runner EXCEPT ![b] = [r EXCEPT !.st = "boot"]]
    BY Zenon, <1>13 DEF SandboxUp
  <2>2. [r EXCEPT !.st = "boot"].after = r.after /\ [r EXCEPT !.st = "boot"].req = r.req
    BY Zenon, <1>1 DEF Runner
  <2> QED
    BY Zenon, <1>4, <2>1, <2>2
<1>14. CASE ObserveEnd(b)
  BY Zenon, <1>3, <1>14 DEF ObserveEnd
<1> QED
  BY ZenonT(30), <1>2, <1>5, <1>6, <1>7, <1>8, <1>9, <1>10, <1>11, <1>12, <1>13, <1>14 DEF RunnerNext

LEMMA StopsCursor ==
  ASSUME RunnersOK, NEW b \in Sandboxes, runner' = HandleStops(b)
  PROVE  CursorsKept
<1>1. runner' = runner \/ runner' = [runner EXCEPT ![b] = requestStop(b)]
  BY Zenon DEF HandleStops
<1>2. runner[b] \in Runner
  BY Zenon DEF RunnersOK
<1>3. requestStop(b).after = runner[b].after /\ requestStop(b).req = runner[b].req
  BY Zenon, <1>2 DEF Runner, requestStop
<1> QED
  BY ZenonT(30), <1>1, <1>3, SameCursor, CursorFrame, CursorUnchanged

LEMMA HandlerCursor ==
  ASSUME IInv, NEW h \in Handlers, HandlerNext(h)
  PROVE  CursorsKept \/ CursorMoved(h)
<1>0. RunnersOK /\ h \in Procs
  BY Zenon DEF IInv, Procs
<1>1. op[h].kind \in RunnerCalls => op[h].box \in Sandboxes
  BY Zenon, <1>0 DEF IInv, CallsOK, GoodCall
<1>2. CASE runner' = runner
  BY Zenon, <1>2, CursorUnchanged
<1>3. CASE BootstrapUpdate(h)
  <2> DEFINE b == op[h].box
             n == [runner[b] EXCEPT !.st = "prep", !.cur = op[h].turn, !.seen = {op[h].turn} \ {None}]
  <2>1. b \in Sandboxes
    BY Zenon, <1>1, <1>3 DEF BootstrapUpdate, At, RunnerCalls
  <2>2. runner' = runner \/ runner' = [runner EXCEPT ![b] = Gone] \/ runner' = [runner EXCEPT ![b] = n]
    BY ZenonT(30), <1>3 DEF BootstrapUpdate, Bootstrapped
  <2>3. runner[b] \in Runner
    BY Zenon, <1>0, <2>1 DEF RunnersOK
  <2>4. n.after = runner[b].after /\ n.req = runner[b].req
    BY Zenon, <2>3 DEF Runner
  <2> HIDE DEF n, b
  <2> QED
    BY ZenonT(30), <1>0, <2>1, <2>2, <2>4, SameCursor, GoneCursor, CursorFrame, CursorUnchanged
<1>4. CASE CompleteCommit(h)
  <2> DEFINE b == op[h].box
  <2>1. b \in Sandboxes
    BY Zenon, <1>1, <1>4 DEF CompleteCommit, At, RunnerCalls
  <2>2. runner' = runner \/ runner' = [runner EXCEPT ![b] = Gone] \/ Answered(b, op[h].turn)
    BY ZenonT(30), <1>4 DEF CompleteCommit, Refused
  <2> HIDE DEF b
  <2> QED
    BY ZenonT(30), <1>0, <2>1, <2>2, GoneCursor, CursorFrame, CursorUnchanged, AnsweredCursor
<1>5. ASSUME NEW b \in Sandboxes, Events(h, b)
      PROVE  CursorsKept
  <2>1. runner' = [runner EXCEPT ![b] = [runner[b] EXCEPT !.asked = "posted"]]
    BY Zenon, <1>5 DEF Events
  <2>2. runner[b] \in Runner
    BY Zenon, <1>0 DEF RunnersOK
  <2>3. /\ [runner[b] EXCEPT !.asked = "posted"].after = runner[b].after
        /\ [runner[b] EXCEPT !.asked = "posted"].req = runner[b].req
    BY Zenon, <2>2 DEF Runner
  <2> QED
    BY Zenon, <1>0, <2>1, <2>3, SameCursor, CursorFrame
<1>6. CASE InboxPick(h)
  <2>1. op[h].box \in Sandboxes
    BY Zenon, <1>1, <1>6 DEF InboxPick, At, RunnerCalls
  <2>2. runner' = runner \/ runner' = HandleStops(op[h].box)
    BY ZenonT(30), <1>6 DEF InboxPick
  <2> QED
    BY Zenon, <1>0, <1>2, <2>1, <2>2, StopsCursor
<1>7. CASE InboxUpdate(h)
  <2> DEFINE b == op[h].box
             t == op[h].turn
             n == [runner[b] EXCEPT !.after = SeqOf(t), !.seen = @ \cup {t},
                     !.queue = IF t \in runner[b].seen \/ runner[b].stop THEN @ ELSE Append(@, t)]
  <2>1. b \in Sandboxes /\ At(h, "inbox", "update") /\ inbox' = inbox
    BY Zenon, <1>1, <1>7 DEF InboxUpdate, At, RunnerCalls
  <2>2. runner' = runner \/ runner' = HandleStops(b) \/ runner' = [runner EXCEPT ![b] = n]
    BY ZenonT(30), <1>7 DEF InboxUpdate, HandleTurn
  <2>3. CASE runner' = [runner EXCEPT ![b] = n]
    <3>1. runner[b] \in Runner
      BY Zenon, <1>0, <2>1 DEF RunnersOK
    <3>2. n.after = SeqOf(t) /\ n.req = runner[b].req
      BY Zenon, <3>1 DEF Runner
    <3> HIDE DEF n, b
    <3>3. \A c \in Sandboxes : runner'[c] = IF c = b THEN n ELSE runner[c]
      BY Zenon, <1>0, <2>3 DEF RunnersOK
    <3> QED
      BY ZenonT(30), <2>1, <3>2, <3>3 DEF CursorMoved
  <2> HIDE DEF n, b
  <2> QED
    BY ZenonT(30), <1>0, <1>2, <2>1, <2>2, <2>3, StopsCursor
<1>8. CASE \/ \E b \in Sandboxes : Bootstrap(h, b) \/ CompleteTurn(h, b) \/ HeartbeatRunning(h, b) \/ Inbox(h, b)
           \/ BootstrapPick(h) \/ MarkPicked(h) \/ CompleteDecide(h) \/ RunSandboxActions(h)
           \/ FinishSetup(h) \/ EventsUpdate(h)
  <2>1. runner' = runner
    BY ZenonT(60), <1>8 DEF Bootstrap, CompleteTurn, HeartbeatRunning, Inbox, BootstrapPick,
       MarkPicked, CompleteDecide, RunSandboxActions, FinishSetup, EventsUpdate
  <2> QED
    BY Zenon, <1>2, <2>1
<1> QED
  BY ZenonT(30), <1>3, <1>4, <1>5, <1>6, <1>7, <1>8 DEF HandlerNext

LEMMA NextCursor ==
  ASSUME IInv, [Next]_vars
  PROVE  CursorsKept \/ \E h \in Handlers : CursorMoved(h)
<1>1. CASE UNCHANGED vars
  BY Zenon, <1>1, CursorUnchanged DEF vars
<1>2. CASE ReconcilerNext \/ ServiceNext \/ \E p \in Procs : Crash(p)
  <2>1. runner' = runner
    <3>1. CASE ReconcilerNext
      BY ZenonT(30), <3>1 DEF ReconcilerNext, Lease, StepOnce, provision, publish, CommitPass, RunSandboxActions
    <3>2. CASE ServiceNext
      BY ZenonT(60), <3>2 DEF ServiceNext, StopSession, Archive, dispatchPullRequest, Approve,
         settleTurnScope, Prompt, Restart, StartOver, PromptEnqueue, RestartEnqueue, PromptUpdate,
         Answer, AnswerUpdate, StartOverFinish, StartOverCommit, RestartUpdate, FailSession,
         FailDecide, FailCommit, CreatePullRequest, CreatePullRequestUpdate, RunSandboxActions
    <3>3. CASE \E p \in Procs : Crash(p)
      BY Zenon, <3>3 DEF Crash
    <3> QED
      BY Zenon, <1>2, <3>1, <3>2, <3>3
  <2> QED
    BY Zenon, <2>1, CursorUnchanged
<1>3. CASE RuntimeNext
  BY Zenon, <1>3, RunnerCursor, HandlerCursor DEF RuntimeNext, IInv
<1> QED
  BY Zenon, <1>1, <1>2, <1>3 DEF Next

-----------------------------------------------------------------------------
(* The order of delivery is kept.                                          *)

LEMMA HeldNot ==
  ASSUME NEW q \in Procs, op'[q].pc # "mark", ~(op'[q].kind = "inbox" /\ op'[q].pc = "update")
  PROVE  HoldsOldest(op[q])'
BY Zenon DEF HoldsOldest

(* What a call held, it holds after a step of the inbox.                   *)
LEMMA PlaceServed ==
  ASSUME IInv, InboxOK', Continued, NEW t, NEW i, HasPlace(t, i)
  PROVE  /\ HasPlace(t, i)' /\ i \in Nat /\ i - 1 \in Nat
         /\ ServedTo(i) => ServedTo(i)'
         /\ ServedTo(i - 1) => ServedTo(i - 1)'
<1>1. i \in 1 .. Len(inbox) /\ Len(inbox) \in Nat
  BY InboxPlace DEF HasPlace, IInv, InboxOK
<1>2. i \in Nat /\ i - 1 \in Nat /\ i <= Len(inbox) /\ i - 1 <= Len(inbox)
  BY <1>1
<1> QED
  BY Zenon, <1>2, ServedContinues, PlaceContinues

LEMMA HeldStays ==
  ASSUME IInv, InboxOK', Continued, NEW q \in Procs, HoldsOldest(op[q]), op'[q] = op[q]
  PROVE  HoldsOldest(op[q])'
<1> DEFINE c == op[q]
<1>1. ASSUME c.pc = "mark"
      PROVE  \E i : HasPlace(c.turn, i)' /\ ServedTo(i - 1)'
  <2>1. PICK i : HasPlace(c.turn, i) /\ ServedTo(i - 1)
    BY Zenon, <1>1 DEF HoldsOldest
  <2>2. i \in DOMAIN inbox' /\ inbox'[i].kind = "turn" /\ inbox'[i].id = op'[q].turn
    BY Zenon, <2>1 DEF Continued, HasPlace
  <2>3. ServedTo(i - 1)'
    BY Zenon, <2>1, PlaceServed
  <2> QED
    BY Zenon, <2>2, <2>3 DEF HasPlace, ServedTo, undelivered
<1>2. ASSUME c.kind = "inbox", c.pc = "update"
      PROVE  \E i : HasPlace(c.turn, i)' /\ ServedTo(i)'
  <2>1. PICK i : HasPlace(c.turn, i) /\ ServedTo(i)
    BY Zenon, <1>2 DEF HoldsOldest
  <2>2. i \in DOMAIN inbox' /\ inbox'[i].kind = "turn" /\ inbox'[i].id = op'[q].turn
    BY Zenon, <2>1 DEF Continued, HasPlace
  <2>3. ServedTo(i)'
    BY ZenonT(30), <2>1, PlaceServed
  <2> QED
    BY Zenon, <2>2, <2>3 DEF HasPlace, ServedTo, undelivered
<1> QED
  BY Zenon, <1>1, <1>2 DEF HoldsOldest

(* The oldest turn that is not delivered, or the oldest behind a cursor.   *)
LEMMA PickedOldest ==
  ASSUME IInv, InOrder, NEW q \in Procs, NEW n, PicksTurn(q, n)
  PROVE  \E i : HasPlace(n.turn, i) /\ ServedTo(i - 1)
<1>1. PICK i \in DOMAIN inbox :
        /\ undelivered(i) /\ n.turn = inbox[i].id
        /\ \/ i \in Oldest(UndeliveredCodingInbox)
           \/ InboxPick(q) /\ i \in Oldest(NextTurns(op[q].box))
  BY Zenon DEF PicksTurn
<1>2. /\ DOMAIN inbox = 1 .. Len(inbox) /\ Len(inbox) \in Nat /\ i \in Nat
  BY DEF IInv, InboxOK
<1>3. HasPlace(n.turn, i)
  BY Zenon, <1>1 DEF HasPlace, undelivered
<1>4. CASE i \in Oldest(UndeliveredCodingInbox)
  <2>1. \A j \in DOMAIN inbox : undelivered(j) => i <= j
    BY Zenon, <1>4 DEF Oldest, UndeliveredCodingInbox
  <2>2. ASSUME NEW j \in DOMAIN inbox, j <= i - 1 PROVE ~undelivered(j)
    BY SMTT(20), <1>2, <2>1, <2>2
  <2> QED
    BY Zenon, <1>3, <2>2 DEF ServedTo
<1>5. CASE InboxPick(q) /\ i \in Oldest(NextTurns(op[q].box))
  <2> DEFINE a == runner[op[q].box].after
  <2>1. op[q].box \in Sandboxes
    BY Zenon, <1>5 DEF IInv, CallsOK, GoodCall, InboxPick, At, RunnerCalls
  <2>2. a \in 0 .. Len(inbox) /\ ServedTo(a)
    BY Zenon, <2>1 DEF InOrder, CursorServed
  <2>3. \A j \in DOMAIN inbox : undelivered(j) /\ j > a => i <= j
    BY Zenon, <1>5 DEF Oldest, NextTurns, UndeliveredCodingInbox
  <2> HIDE DEF a
  <2>4. ASSUME NEW j \in DOMAIN inbox, j <= i - 1 PROVE ~undelivered(j)
    <3>1. CASE j <= a
      BY Zenon, <2>2, <3>1 DEF ServedTo
    <3>2. CASE j > a
      BY <1>2, <2>3, <2>4, <3>2
    <3> QED
      BY <1>2, <2>2, <3>1, <3>2
  <2> QED
    BY Zenon, <1>3, <2>4 DEF ServedTo
<1> QED
  BY Zenon, <1>1, <1>4, <1>5

LEMMA HeldPicked ==
  ASSUME IInv, InboxOK', Continued, InOrder, NEW q \in Procs, PicksTurn(q, op'[q])
  PROVE  HoldsOldest(op[q])'
<1>1. PICK i : HasPlace(op'[q].turn, i) /\ ServedTo(i - 1)
  BY Zenon, PickedOldest
<1>2. i \in DOMAIN inbox' /\ inbox'[i].kind = "turn" /\ inbox'[i].id = op'[q].turn
  BY Zenon, <1>1 DEF Continued, HasPlace
<1>3. ServedTo(i - 1)'
  BY Zenon, <1>1, PlaceServed
<1>4. op'[q].pc = "mark"
  BY Zenon DEF PicksTurn
<1> QED
  BY Zenon, <1>2, <1>3, <1>4 DEF HoldsOldest, HasPlace, ServedTo, undelivered

(* The stamp: the turn that is marked is the one the call holds.           *)
LEMMA MarkedPlace ==
  ASSUME IInv, InOrder, NEW q \in Procs, MarkPicked(q)
  PROVE  LET i == SeqOf(op[q].turn)
         IN /\ HasPlace(op[q].turn, i) /\ ServedTo(i - 1)
            /\ inbox' = [inbox EXCEPT ![i].delivered = TRUE]
<1>1. PICK i : HasPlace(op[q].turn, i) /\ ServedTo(i - 1)
  BY Zenon DEF InOrder, HoldsOldest, MarkPicked
<1>2. SeqOf(op[q].turn) = i
  BY Zenon, <1>1, PlaceUnique DEF InOrder
<1> QED
  BY Zenon, <1>1, <1>2 DEF MarkPicked, MarkCodingInboxDelivered

LEMMA HeldMarked ==
  ASSUME IInv, InboxOK', Continued, InOrder, NEW q \in Procs, MarkPicked(q), op'[q].turn = op[q].turn,
         op'[q].pc = "update"
  PROVE  HoldsOldest(op[q])'
<1>1. PICK i : /\ HasPlace(op[q].turn, i) /\ ServedTo(i - 1)
               /\ inbox' = [inbox EXCEPT ![i].delivered = TRUE]
  BY Zenon, MarkedPlace
<1>2. i \in DOMAIN inbox' /\ inbox'[i].kind = "turn" /\ inbox'[i].id = op'[q].turn
  BY Zenon, <1>1 DEF Continued, HasPlace
<1>3. inbox'[i].delivered
  <2>1. inbox[i] \in Item /\ i \in DOMAIN inbox
    BY Zenon, <1>1, InboxPlace DEF HasPlace, IInv
  <2>2. inbox'[i] = [inbox[i] EXCEPT !.delivered = TRUE]
    BY Zenon, <1>1, <2>1 DEF IInv, InboxOK
  <2> QED
    BY Zenon, <2>1, <2>2 DEF Item
<1>4. ServedTo(i - 1)' /\ i \in Nat
  BY Zenon, <1>1, PlaceServed
<1>5. DOMAIN inbox' = 1 .. Len(inbox') /\ Len(inbox') \in Nat
  BY DEF InboxOK
<1>6. ASSUME NEW j \in DOMAIN inbox', j <= i PROVE ~undelivered(j)'
  <2>1. CASE j = i
    BY Zenon, <1>3, <2>1 DEF undelivered
  <2>2. CASE j <= i - 1
    BY Zenon, <1>4, <2>2 DEF ServedTo
  <2> QED
    BY SMTT(20), <1>4, <1>5, <1>6, <2>1, <2>2
<1>7. ServedTo(i)'
  BY Zenon, <1>6 DEF ServedTo
<1> QED
  BY Zenon, <1>2, <1>7 DEF HoldsOldest, HasPlace, ServedTo, undelivered

LEMMA HeldCalled ==
  ASSUME IInv, InboxOK', Continued, InOrder, NEW q \in Procs,
         CallForm(q, op'[q], fresh'[q])
  PROVE  HoldsOldest(op[q])'
<1> DEFINE n == op'[q]
<1>1. CASE n = NoOp
  <2>1. NoOp.pc = "idle"
    BY Zenon DEF NoOp
  <2>2. n.pc \notin {"mark", "update"}
    BY Zenon, <1>1, <2>1
  <2> QED
    BY Zenon, <2>2, HeldNot
<1>2. CASE Begins(q, n, fresh'[q])
  <2>1. n.pc # "mark" /\ ~(n.kind = "inbox" /\ n.pc = "update")
    BY Zenon, <1>2 DEF Begins, BeginsWithCopy, BeginsWithout
  <2> QED
    BY ZenonT(30), <2>1, HeldNot
<1>3. CASE LooksAgain(q, n, fresh'[q])
  <2>1. n.pc = "read"
    BY Zenon, <1>3 DEF LooksAgain
  <2> QED
    BY Zenon, <2>1, HeldNot
<1>4. CASE GoesToStage(q, n)
  <2>1. CASE PicksTurn(q, n)
    BY Zenon, <2>1, HeldPicked
  <2>2. CASE MarkPicked(q) /\ n.pc = "update" /\ n.turn = op[q].turn
    BY ZenonT(30), <2>2, HeldMarked
  <2>3. CASE \/ n.pc = "commit"
             \/ n.pc = "update" /\ n.kind # "inbox"
    <3>1. n.pc # "mark" /\ ~(n.kind = "inbox" /\ n.pc = "update")
      BY Zenon, <2>3
    <3> QED
      BY Zenon, <3>1, HeldNot
  <2>4. CASE n.kind \in {"prompt", "restart"} /\ n.pc = "update"
    BY Zenon, <2>3, <2>4
  <2>5. CASE op[q].kind = "bootstrap" /\ n.pc = "update"
    <3>1. n.kind = "bootstrap"
      BY ZenonT(30), <1>4, <2>5 DEF GoesToStage, Keep
    <3> QED
      BY Zenon, <2>3, <2>5, <3>1
  <2> QED
    BY ZenonT(30), <1>4, <2>1, <2>2, <2>3, <2>4, <2>5 DEF GoesToStage
<1>5. CASE DecidesCall(q, n)
  <2>1. n.pc = "effects" \/ n.pc = NextStage(n.acts)
    BY Zenon, <1>5 DEF DecidesCall, StepDecides, ProvisionDecides, PublishDecides, EndDecides,
       CompletionDecides
  <2>2. n.pc \notin {"mark", "update"}
    BY Zenon, <2>1 DEF NextStage
  <2> QED
    BY Zenon, <2>2, HeldNot
<1> QED
  BY ZenonT(30), <1>1, <1>2, <1>3, <1>4, <1>5 DEF CallForm

LEMMA HeldStep ==
  ASSUME IInv, InboxOK', Continued, InOrder, Form, NEW q \in Procs
  PROVE  HoldsOldest(op[q])'
<1>0. HoldsOldest(op[q])
  BY Zenon DEF InOrder
<1>1. CASE op'[q] = op[q]
  BY Zenon, <1>0, <1>1, HeldStays
<1>2. CASE AfterWrite(q, op'[q])
  <2>0. NoOp.pc = "idle"
    BY Zenon DEF NoOp
  <2>1. op'[q].pc \in {"idle", "enqueue"}
    BY Zenon, <1>2, <2>0 DEF AfterWrite
  <2>2. op'[q].pc \notin {"mark", "update"}
    BY Zenon, <2>1
  <2> QED
    BY Zenon, <2>2, HeldNot
<1>3. CASE CallForm(q, op'[q], fresh'[q])
  BY Zenon, <1>3, HeldCalled
<1> QED
  BY Zenon, <1>1, <1>2, <1>3 DEF Form, OnlyCall

(* The cursors point to places that are served.                            *)
LEMMA CursorStep ==
  ASSUME IInv, InboxOK', Continued, InOrder, NEW b \in Sandboxes,
         CursorsKept \/ \E h \in Handlers : CursorMoved(h)
  PROVE  CursorServed(b)'
<1> DEFINE a == runner[b].after
           m == runner'[b].after
<1>1. a \in 0 .. Len(inbox) /\ ServedTo(a)
  BY Zenon DEF InOrder, CursorServed
<1>2. Len(inbox) \in Nat /\ Len(inbox') \in Nat /\ Len(inbox) <= Len(inbox')
      /\ DOMAIN inbox' = 1 .. Len(inbox')
  BY DEF IInv, InboxOK, Continued
<1>3. ASSUME NEW k \in 0 .. Len(inbox), ServedTo(k), m = k
      PROVE  CursorServed(b)'
  <2>1. k \in Nat /\ k <= Len(inbox) /\ k \in 0 .. Len(inbox')
    BY <1>2
  <2>2. ServedTo(k)'
    BY Zenon, <1>3, <2>1, ServedContinues
  <2> QED
    BY ZenonT(30), <1>3, <2>1, <2>2 DEF CursorServed, ServedTo, undelivered
<1>4. CASE m = 0
  <2>1. 0 \in 0 .. Len(inbox) /\ ServedTo(0)
    BY <1>2 DEF ServedTo, IInv, InboxOK
  <2> QED
    BY ZenonT(30), <1>3, <1>4, <2>1
<1>5. CASE m = a
  BY Zenon, <1>1, <1>3, <1>5
<1>6. ASSUME NEW h \in Handlers, CursorMoved(h), m = SeqOf(op[h].turn)
      PROVE  CursorServed(b)'
  <2>1. h \in Procs
    BY Zenon DEF Procs
  <2>2. PICK i : HasPlace(op[h].turn, i) /\ ServedTo(i)
    BY Zenon, <1>6, <2>1 DEF InOrder, HoldsOldest, CursorMoved, At
  <2>3. SeqOf(op[h].turn) = i
    BY ZenonT(30), <2>2, PlaceUnique DEF InOrder
  <2>4. i \in 0 .. Len(inbox)
    BY <2>2 DEF HasPlace, IInv, InboxOK
  <2> QED
    BY ZenonT(30), <1>3, <1>6, <2>2, <2>3, <2>4
<1> QED
  BY Zenon, <1>4, <1>5, <1>6 DEF CursorsKept, RunnerFollows, CursorMoved

LEMMA OrderStep ==
  ASSUME IInv, InboxOK', InOrder, Form, InboxStep,
         CursorsKept \/ \E h \in Handlers : CursorMoved(h)
  PROVE  InOrder'
<1>1. Continued /\ UniqueTurns'
  BY Zenon, InboxContinues DEF InOrder
<1>2. ASSUME NEW q \in Procs PROVE HoldsOldest(op[q])'
  BY Zenon, <1>1, HeldStep
<1>3. ASSUME NEW b \in Sandboxes PROVE CursorServed(b)'
  BY Zenon, <1>1, CursorStep
<1> QED
  BY Zenon, <1>1, <1>2, <1>3 DEF InOrder

(* An item that becomes delivered is the turn that a call marks.           *)
LEMMA StampOrder ==
  ASSUME IInv, InOrder, InboxStep, NEW i \in DOMAIN inbox, undelivered(i), inbox'[i].delivered
  PROVE  \A j \in 1 .. (i - 1) : ~undelivered(j)
<1>0. /\ DOMAIN inbox = 1 .. Len(inbox) /\ Len(inbox) \in Nat /\ i \in Nat
      /\ inbox \in Seq(Item) /\ ~inbox[i].delivered /\ inbox[i] \in Item
  BY InboxPlace DEF IInv, InboxOK, undelivered
<1>1. CASE inbox' = inbox
  BY Zenon, <1>0, <1>1
<1>2. ASSUME NEW x \in Item, inbox' = Append(inbox, x) PROVE FALSE
  BY <1>0, <1>2
<1>3. ASSUME NEW k \in DOMAIN inbox, inbox' = [inbox EXCEPT ![k].pending = FALSE] PROVE FALSE
  <2>1. inbox'[i] = inbox[i] \/ inbox'[i] = [inbox[i] EXCEPT !.pending = FALSE]
    BY Zenon, <1>3
  <2>2. [inbox[i] EXCEPT !.pending = FALSE].delivered = inbox[i].delivered
    BY Zenon, <1>0 DEF Item
  <2> QED
    BY Zenon, <1>0, <2>1, <2>2
<1>4. ASSUME NEW h \in Handlers, MarkPicked(h)
      PROVE  \A j \in 1 .. (i - 1) : ~undelivered(j)
  <2>1. h \in Procs
    BY Zenon DEF Procs
  <2>2. PICK k : /\ HasPlace(op[h].turn, k) /\ ServedTo(k - 1)
                 /\ inbox' = [inbox EXCEPT ![k].delivered = TRUE]
    BY ZenonT(30), <1>4, <2>1, MarkedPlace
  <2>3. i = k
    BY Zenon, <1>0, <2>2
  <2> QED
    BY <1>0, <2>2, <2>3 DEF ServedTo
<1> QED
  BY ZenonT(30), <1>1, <1>2, <1>3, <1>4 DEF InboxStep

-----------------------------------------------------------------------------
(* The initial states.                                                     *)

LEMMA InitOrder == Init => InOrder
<1> SUFFICES ASSUME Init PROVE InOrder
  BY Zenon
<1>1. PICK x : inbox = <<x>>
  BY Zenon DEF Init
<1>2. DOMAIN inbox = 1 .. 1 /\ Len(inbox) = 1
  BY <1>1
<1>3. UniqueTurns
  BY <1>2 DEF UniqueTurns
<1>4. NoOp.kind = "none" /\ NoOp.pc = "idle"
  BY Zenon DEF NoOp
<1>5. HoldsOldest(NoOp)
  BY Zenon, <1>4 DEF HoldsOldest
<1>6. \A p \in Procs : op[p] = NoOp
  BY Zenon DEF Init
<1>7. \A b \in Sandboxes : runner[b].after = 0
  <2>1. NoRunner.after = 0
    BY Zenon DEF NoRunner
  <2> QED
    BY Zenon, <2>1 DEF Init
<1>8. 0 \in 0 .. Len(inbox) /\ ServedTo(0)
  BY <1>2 DEF ServedTo
<1>9. \A b \in Sandboxes : CursorServed(b)
  BY Zenon, <1>7, <1>8 DEF CursorServed
<1> QED
  BY ZenonT(30), <1>3, <1>5, <1>6, <1>9 DEF InOrder

LEMMA InitDocs == Init => DocsOK
<1> SUFFICES ASSUME Init PROVE DocsOK
  BY Zenon
<1>1. Doc(NewSession) /\ NewSession.last = None /\ NewSession.turn = None
      /\ NewSession.error = "" /\ NewSession.sandbox = None
  BY Zenon, NewDoc DEF NewSession
<1>2. /\ Doc(Enter(NewSession, "awaitingApproval"))
      /\ Enter(NewSession, "awaitingApproval").last = None
  <2> DEFINE n == Enter(NewSession, "awaitingApproval")
  <2>1. "awaitingApproval" \in Phase /\ "awaitingApproval" \in Timed /\ "awaitingApproval" # "done"
    BY Zenon DEF Phase, Timed
  <2>2. NewSession \in Session
    BY Zenon, <1>1 DEF Doc
  <2>3. /\ n \in Session /\ n.phase = "awaitingApproval" /\ n.turn = None /\ n.last = None
        /\ n.sandbox = None
    BY ZenonT(30), <1>1, <2>1, <2>2, EnterKeeps
  <2>4. /\ n.error = "" /\ n.ended = FALSE /\ n.deadline = TRUE
        /\ n.state = PolicyState["awaitingApproval"]
    BY ZenonT(30), <1>1, <2>1, <2>2, EnterShows
  <2> HIDE DEF n
  <2>5. n.phase # "done"
    BY Zenon, <2>3
  <2>6. CoherentSession(n)
    BY ZenonT(30), <2>3, <2>4, <2>5 DEF CoherentSession
  <2> QED
    BY Zenon, <2>3, <2>6 DEF Doc, n
<1>3. Doc(session) /\ session.last = None
  BY Zenon, <1>1, <1>2 DEF Init, Starts
<1>4. ASSUME NEW p PROVE CallFits(p, NoOp, FALSE)
  BY Zenon, NoOpFits
<1>5. \A p \in Procs : op[p] = NoOp /\ fresh[p] = FALSE
  BY Zenon DEF Init
<1>6. NoOp.kind = "none"
  BY ZenonT(30) DEF NoOp
<1> QED
  BY ZenonT(30), <1>3, <1>4, <1>5, <1>6 DEF DocsOK, CallFits, Procs

-----------------------------------------------------------------------------
(* Every step has this form. *)

LEMMA FormCall ==
  ASSUME IInv, NEW p \in Procs, NEW n, NEW f,
         op' = [op EXCEPT ![p] = n], fresh' = [fresh EXCEPT ![p] = f],
         session' = session, CallForm(p, n, f)
  PROVE  Form
<1>1. op'[p] = n /\ fresh'[p] = f
  BY Zenon, CallsType
<1>2. \A q \in Procs : q # p => op'[q] = op[q] /\ fresh'[q] = fresh[q]
  BY Zenon, CallsType
<1> QED
  BY ZenonT(30), <1>1, <1>2 DEF Form, OnlyCall

LEMMA FormMove ==
  ASSUME IInv, NEW p \in Procs, NEW n,
         op' = [op EXCEPT ![p] = n], UNCHANGED <<session, fresh>>,
         GoesToStage(p, n) \/ DecidesCall(p, n)
  PROVE  Form
<1>1. fresh' = [fresh EXCEPT ![p] = fresh[p]]
  BY Zenon, CallsType
<1>2. CallForm(p, n, fresh[p])
  BY Zenon DEF CallForm
<1> QED
  BY ZenonT(30), <1>1, <1>2, FormCall

LEMMA FormForget ==
  ASSUME IInv, NEW p \in Procs, Forget(p), session' = session
  PROVE  Form
<1>1. CallForm(p, NoOp, FALSE)
  BY SMTT(20) DEF CallForm
<1> QED
  BY ZenonT(30), <1>1, FormCall DEF Forget, Return

(* A call without a copy starts or, for a full inbox, ends.                *)
LEMMA FormStale ==
  ASSUME IInv, NEW p \in Procs, NEW n, ~fresh[p],
         op' = [op EXCEPT ![p] = n], UNCHANGED <<session, fresh>>,
         CallForm(p, n, FALSE)
  PROVE  Form
<1>1. fresh' = [fresh EXCEPT ![p] = FALSE]
  BY Zenon, CallsType
<1> QED
  BY ZenonT(30), <1>1, FormCall

LEMMA FormRead ==
  ASSUME IInv, NEW p \in Procs, NEW c, NEW n, Read(p, c), n = [c EXCEPT !.s = session],
         Begins(p, n, TRUE) \/ LooksAgain(p, n, TRUE)
  PROVE  Form
<1>1. CallForm(p, n, TRUE)
  BY Zenon DEF CallForm
<1> QED
  BY ZenonT(30), <1>1, FormCall DEF Read

LEMMA FormWrite ==
  ASSUME IInv, NEW p \in Procs, NEW s, NEW n, Write(s), op' = [op EXCEPT ![p] = n],
         WritesLast(p, s), AfterWrite(p, n)
  PROVE  Form
<1>1. op'[p] = n /\ \A q \in Procs : q # p => op'[q] = op[q]
  BY Zenon, CallsType
<1>2. session' = s /\ Write(session')
  BY SMTT(20) DEF Write
<1> QED
  BY ZenonT(30), <1>1, <1>2 DEF Form, OnlyCall

LEMMA FormReturn ==
  ASSUME IInv, NEW p \in Procs, NEW s, Write(s), Return(p), WritesLast(p, s)
  PROVE  Form
<1>1. AfterWrite(p, NoOp)
  BY SMTT(20) DEF AfterWrite
<1> QED
  BY ZenonT(30), <1>1, FormWrite DEF Return

-----------------------------------------------------------------------------
(* The reconciler. *)

LEMMA LeaseForm ==
  ASSUME IInv, NEW r \in Reconcilers, Lease(r)
  PROVE  Form
<1> DEFINE c == [NoOp EXCEPT !.kind = "reconcile", !.pc = "read"]
           n == [c EXCEPT !.s = session]
<1>1. /\ n.kind = "reconcile" /\ n.pc = "read" /\ n.s = session
      /\ n.acts = {} /\ n.rows = NoRows
  BY Zenon DEF NoOp
<1>2. Read(r, c) /\ op[r].pc = "idle" /\ session.phase # "done" /\ r \in Procs
  BY SMTT(20) DEF Lease, Idle, Procs
<1> HIDE DEF n
<1>3. Begins(r, n, TRUE)
  BY SMTT(20), <1>1, <1>2 DEF Begins, BeginsWithCopy
<1>4. n = [c EXCEPT !.s = session]
  BY SMTT(20) DEF n
<1> HIDE DEF c
<1> QED
  BY ZenonT(30), <1>2, <1>3, <1>4, FormRead

LEMMA StepOnceForm ==
  ASSUME IInv, NEW r \in Reconcilers, NEW fact \in Fact, StepOnce(r, fact)
  PROVE  Form
<1> DEFINE d    == Step(op[r].s, Observe(op[r].s, fact))
           seen == IF {Provision, Publish} \cap d.acts # {} THEN rows ELSE NoRows
           n    == [op[r] EXCEPT !.s = d.s, !.acts = d.acts, !.rows = seen,
                                 !.pc = NextStage(d.acts)]
<1>1. Forget(r) \/ (op' = [op EXCEPT ![r] = n] /\ UNCHANGED fresh)
  BY ZenonT(30) DEF StepOnce
<1>2. session' = session /\ r \in Procs /\ op[r].kind = "reconcile" /\ op[r].pc = "read"
  BY ZenonT(30) DEF StepOnce, Procs, At
<1>2a. op[r] \in CallInFlight
  BY SMTT(20), <1>2, CallHeld
<1> HIDE DEF d, seen
<1>3. /\ n.s = d.s /\ n.acts = d.acts /\ n.rows = seen /\ n.pc = NextStage(d.acts)
      /\ Keep(op[r], n) /\ n.turn = op[r].turn
  BY SMTT(20), <1>2a DEF CallInFlight, Keep
<1> HIDE DEF n
<1> USE DEF d, seen
<1>4. IsDecision(n, Step(op[r].s, Observe(op[r].s, fact)))
  BY ZenonT(30), <1>3 DEF IsDecision
<1> HIDE DEF d
<1>5. StepDecides(r, n)
  BY SMTT(20), <1>2, <1>3, <1>4 DEF StepDecides
<1>6. DecidesCall(r, n)
  BY ZenonT(30), <1>3, <1>5 DEF DecidesCall
<1> QED
  BY ZenonT(30), <1>1, <1>2, <1>6, FormForget, FormMove

LEMMA ProvisionForm ==
  ASSUME IInv, NEW r \in Reconcilers, provision(r)
  PROVE  Form
<1>1. /\ r \in Procs /\ UNCHANGED <<session, fresh>> /\ OnlyCall(r)
      /\ ProvisionDecides(r, op'[r]) /\ Keep(op[r], op'[r]) /\ op'[r].turn = op[r].turn
  BY ZenonT(30), ProvisionDecided
<1>2. CallForm(r, op'[r], fresh'[r])
  BY ZenonT(30), <1>1 DEF CallForm, DecidesCall
<1> QED
  BY ZenonT(30), <1>1, <1>2 DEF Form

LEMMA PublishForm ==
  ASSUME IInv, NEW r \in Reconcilers, publish(r)
  PROVE  Form
<1>1. PICK outcome \in {"pr", "transient", "refused", "failed"} :
        Decided(r, AfterPublish(op[r].s, op[r].rows, outcome))
  BY SMTT(20) DEF publish
<1>2. At(r, "reconcile", "publish") /\ UNCHANGED <<session, fresh>> /\ r \in Procs
  BY SMTT(20) DEF publish, Procs
<1> DEFINE d == AfterPublish(op[r].s, op[r].rows, outcome)
           n == [op[r] EXCEPT !.s = d.s, !.acts = d.acts, !.rows = NoRows,
                              !.pc = NextStage(d.acts)]
<1>3. op' = [op EXCEPT ![r] = n]
  BY ZenonT(30), <1>1 DEF Decided
<1>3a. op[r] \in CallInFlight
  BY SMTT(20), <1>2, CallHeld
<1> HIDE DEF d
<1>4. /\ n.s = d.s /\ n.acts = d.acts /\ n.rows = NoRows /\ n.pc = NextStage(d.acts)
      /\ Keep(op[r], n) /\ n.turn = op[r].turn
  BY SMTT(20), <1>3a DEF CallInFlight, Keep
<1> HIDE DEF n
<1> USE DEF d
<1>5. IsDecision(n, d) /\ n.pc = NextStage(n.acts)
  BY ZenonT(30), <1>4 DEF IsDecision
<1>6. PublishDecides(r, n)
  BY ZenonT(30), <1>1, <1>2, <1>4, <1>5 DEF PublishDecides
<1>7. DecidesCall(r, n)
  BY ZenonT(30), <1>4, <1>6 DEF DecidesCall
<1> QED
  BY ZenonT(30), <1>2, <1>3, <1>7, FormMove

LEMMA EffectsForm ==
  ASSUME IInv, NEW p \in Procs, RunSandboxActions(p)
  PROVE  Form
<1> DEFINE n == [op[p] EXCEPT !.pc = "commit", !.acts = {}]
<1>1. op' = [op EXCEPT ![p] = n] /\ UNCHANGED <<session, fresh>>
  BY ZenonT(30) DEF RunSandboxActions
<1>2. /\ Keep(op[p], n) /\ n.s = op[p].s /\ n.rows = op[p].rows
      /\ n.pc = "commit" /\ n.turn = op[p].turn /\ n.acts = {}
  BY SMTT(20), CallHeld DEF CallInFlight, Keep
<1> HIDE DEF n
<1>3. GoesToStage(p, n)
  BY ZenonT(30), <1>2 DEF GoesToStage
<1> QED
  BY ZenonT(30), <1>1, <1>3, FormMove

LEMMA CommitPassForm ==
  ASSUME IInv, NEW r \in Reconcilers, CommitPass(r)
  PROVE  Form
<1>1. r \in Procs /\ op[r].kind = "reconcile" /\ op[r].pc = "commit"
  BY SMTT(20) DEF CommitPass, At, Procs
<1>2. CASE fresh[r] /\ op[r].s # session
  <2>1. WritesLast(r, op[r].s)
    BY SMTT(20), <1>1, <1>2 DEF WritesLast, WritesCopy
  <2>2. Write(op[r].s) /\ Return(r)
    BY SMTT(20), <1>2 DEF CommitPass
  <2> QED
    BY ZenonT(30), <1>1, <2>1, <2>2, FormReturn
<1>3. CASE ~(fresh[r] /\ op[r].s # session)
  BY SMTT(20), <1>1, <1>3, FormForget DEF CommitPass
<1> QED
  BY SMTT(20), <1>2, <1>3

LEMMA ReconcilerForm ==
  ASSUME IInv, ReconcilerNext
  PROVE  Form
<1>1. PICK r \in Reconcilers :
        \/ Lease(r) \/ (\E fact \in Fact : StepOnce(r, fact))
        \/ provision(r) \/ publish(r) \/ RunSandboxActions(r) \/ CommitPass(r)
  BY SMTT(20) DEF ReconcilerNext
<1>2. r \in Procs
  BY SMTT(20) DEF Procs
<1> QED
  BY SMTT(20), <1>1, <1>2, LeaseForm, StepOnceForm, ProvisionForm, PublishForm, EffectsForm, CommitPassForm

-----------------------------------------------------------------------------
(* People, triggers and metering. *)

LEMMA AtOnceForm ==
  ASSUME NEW s, Write(s), op' = op, WritesAtOnce(s)
  PROVE  Form
<1>1. session' = s /\ Write(session')
  BY SMTT(20) DEF Write
<1> QED
  BY ZenonT(30), <1>1 DEF Form

LEMMA UpdatesForm ==
  ASSUME StopSession \/ Archive \/ dispatchPullRequest \/ \E reject \in BOOLEAN : Approve(reject)
  PROVE  Form
<1>1. CASE StopSession
  <2> DEFINE s == [session EXCEPT !.stop = TRUE]
  <2>1. Write(s) /\ op' = op /\ WritesAtOnce(s)
    BY ZenonT(30), <1>1 DEF StopSession, WritesAtOnce
  <2> HIDE DEF s
  <2> QED
    BY ZenonT(30), <2>1, AtOnceForm
<1>2. CASE Archive
  BY ZenonT(30), <1>2, AtOnceForm DEF Archive, WritesAtOnce
<1>3. CASE dispatchPullRequest
  BY ZenonT(30), <1>3, AtOnceForm DEF dispatchPullRequest, WritesAtOnce
<1>4. ASSUME NEW reject \in BOOLEAN, Approve(reject) PROVE Form
  <2> DEFINE s == Enter([session EXCEPT !.rejected = TRUE], "done")
             t == Enter(session, "queued")
  <2>1. op' = op /\ (Write(s) \/ Write(t)) /\ WritesAtOnce(s) /\ WritesAtOnce(t)
    BY ZenonT(30), <1>4 DEF Approve, WritesAtOnce
  <2> HIDE DEF s, t
  <2> QED
    BY ZenonT(30), <2>1, AtOnceForm
<1> QED
  BY SMTT(20), <1>1, <1>2, <1>3, <1>4

(* A call without a copy starts. *)
LEMMA StartForm ==
  ASSUME IInv, FreshTracks, NEW h \in Handlers, op[h].pc = "idle", NEW n,
         op' = [op EXCEPT ![h] = n], UNCHANGED <<session, fresh>>,
         n.acts = {}, n.rows = NoRows, BeginsWithout(h, n)
  PROVE  Form
<1>1. h \in Procs /\ ~fresh[h]
  BY SMTT(20), NotCopied DEF Idle, Procs
<1>2. CallForm(h, n, FALSE)
  BY ZenonT(30) DEF CallForm, Begins
<1> QED
  BY ZenonT(30), <1>1, <1>2, FormStale

LEMMA ServiceStartForm ==
  ASSUME IInv, FreshTracks, NEW h \in Handlers,
         \/ \E t \in Turns : Prompt(h, t) \/ Restart(h, t)
         \/ Answer(h) \/ CreatePullRequest(h)
  PROVE  Form
<1>1. ASSUME NEW t \in Turns, NEW kind \in {"prompt", "restart"}, op[h].pc = "idle",
             op' = [op EXCEPT ![h] = [NoOp EXCEPT !.kind = kind, !.pc = "enqueue", !.turn = t]],
             UNCHANGED <<session, fresh>>
      PROVE  Form
  <2> DEFINE n == [NoOp EXCEPT !.kind = kind, !.pc = "enqueue", !.turn = t]
  <2>1. n.kind = kind /\ n.pc = "enqueue" /\ n.s = NewSession /\ n.acts = {} /\ n.rows = NoRows
    BY ZenonT(30) DEF NoOp
  <2>2. op' = [op EXCEPT ![h] = n]
    BY ZenonT(30), <1>1
  <2> HIDE DEF n
  <2>3. BeginsWithout(h, n)
    BY SMTT(20), <2>1 DEF BeginsWithout
  <2> QED
    BY ZenonT(30), <1>1, <2>1, <2>2, <2>3, StartForm
<1>2. ASSUME NEW kind \in {"answer", "createPR"}, kind = "answer" => AwaitsSelection(session),
             op[h].pc = "idle", UNCHANGED <<session, fresh>>,
             op' = [op EXCEPT ![h] = [NoOp EXCEPT !.kind = kind, !.pc = "update"]]
      PROVE  Form
  <2> DEFINE n == [NoOp EXCEPT !.kind = kind, !.pc = "update"]
  <2>1. n.kind = kind /\ n.pc = "update" /\ n.s = NewSession /\ n.acts = {} /\ n.rows = NoRows
    BY ZenonT(30) DEF NoOp
  <2>2. op' = [op EXCEPT ![h] = n]
    BY ZenonT(30), <1>2
  <2> HIDE DEF n
  <2>3. BeginsWithout(h, n)
    BY SMTT(20), <1>2, <2>1 DEF BeginsWithout
  <2> QED
    BY ZenonT(30), <1>2, <2>1, <2>2, <2>3, StartForm
<1>3. ASSUME NEW t \in Turns, Prompt(h, t) PROVE Form
  BY ZenonT(30), <1>1, <1>3 DEF Prompt, Idle
<1>4. ASSUME NEW t \in Turns, Restart(h, t) PROVE Form
  BY ZenonT(30), <1>1, <1>4 DEF Restart, Idle
<1>5. CASE Answer(h)
  BY ZenonT(30), <1>2, <1>5 DEF Answer, Idle
<1>6. CASE CreatePullRequest(h)
  BY ZenonT(30), <1>2, <1>6 DEF CreatePullRequest, Idle
<1> QED
  BY SMTT(20), <1>3, <1>4, <1>5, <1>6

LEMMA EnqueueForm ==
  ASSUME IInv, FreshTracks, NEW h \in Handlers, PromptEnqueue(h) \/ RestartEnqueue(h)
  PROVE  Form
<1> DEFINE n == [op[h] EXCEPT !.pc = "update", !.rec = recorded]
<1>1. /\ h \in Procs /\ op[h].kind \in {"prompt", "restart"} /\ op[h].pc = "enqueue"
      /\ UNCHANGED <<session, fresh>>
  BY ZenonT(30) DEF PromptEnqueue, RestartEnqueue, At, Procs
<1>2. op' = [op EXCEPT ![h] = n] \/ (op[h].kind = "prompt" /\ Return(h))
  BY ZenonT(30) DEF PromptEnqueue, RestartEnqueue, At
<1>3. op[h] \in CallInFlight
  BY SMTT(20), <1>1, CallHeld
<1>4. /\ Keep(op[h], n) /\ n.s = op[h].s /\ n.rows = op[h].rows
      /\ n.pc = "update" /\ n.turn = op[h].turn /\ n.acts = op[h].acts
  BY SMTT(20), <1>3 DEF CallInFlight, Keep
<1> HIDE DEF n
<1>5. n.kind = op[h].kind
  BY SMTT(20), <1>4 DEF Keep
<1>6. GoesToStage(h, n)
  BY ZenonT(30), <1>1, <1>4, <1>5 DEF GoesToStage
<1>7. CASE op[h].kind = "prompt" /\ Return(h)
  <2>1. ~fresh[h]
    BY SMTT(20), <1>1, <1>7, NotCopied DEF CopyingCalls
  <2>2. CallForm(h, NoOp, FALSE)
    BY SMTT(20) DEF CallForm
  <2> QED
    BY ZenonT(30), <1>1, <1>7, <2>1, <2>2, FormStale DEF Return
<1> QED
  BY ZenonT(30), <1>1, <1>2, <1>6, <1>7, FormMove

LEMMA FailReads ==
  ASSUME IInv, NEW h \in Procs, session.phase # "done", h \in Handlers,
         Read(h, [NoOp EXCEPT !.kind = "fail", !.pc = "read"]),
         \/ op[h].pc = "idle" /\ "fail" \in Ops
         \/ At(h, "fail", "commit") /\ ~fresh[h]
  PROVE  Form
<1> DEFINE c == [NoOp EXCEPT !.kind = "fail", !.pc = "read"]
           n == [c EXCEPT !.s = session]
<1>1. n.kind = "fail" /\ n.pc = "read" /\ n.s = session /\ n.acts = {} /\ n.rows = NoRows
  BY ZenonT(30) DEF NoOp
<1>2. Read(h, c) /\ n = [c EXCEPT !.s = session]
  BY ZenonT(30)
<1> HIDE DEF n, c
<1>3. Begins(h, n, TRUE) \/ LooksAgain(h, n, TRUE)
  BY SMTT(20), <1>1 DEF Begins, BeginsWithCopy, LooksAgain, At
<1> QED
  BY ZenonT(30), <1>2, <1>3, FormRead

LEMMA StartOverForm ==
  ASSUME IInv, NEW h \in Handlers, NEW t \in Turns, StartOver(h, t)
  PROVE  Form
<1> DEFINE pc == IF session.phase = "idle" THEN "finish" ELSE "enqueue"
           c  == [NoOp EXCEPT !.kind = "restart", !.turn = t, !.pc = pc]
           n  == [c EXCEPT !.s = session]
<1>1. Read(h, c) /\ op[h].pc = "idle" /\ h \in Procs /\ "startOver" \in Ops
  BY ZenonT(30) DEF StartOver, Idle, Procs
<1> HIDE DEF pc
<1>2. n.kind = "restart" /\ n.pc = pc /\ n.s = session /\ n.acts = {} /\ n.rows = NoRows
  BY ZenonT(30) DEF NoOp
<1>3. n = [c EXCEPT !.s = session]
  BY SMTT(20)
<1> HIDE DEF n, c
<1>4. Begins(h, n, TRUE)
  BY SMTT(20), <1>1, <1>2 DEF Begins, BeginsWithCopy, pc
<1> QED
  BY ZenonT(30), <1>1, <1>3, <1>4, FormRead

LEMMA EndDecidedForm ==
  ASSUME IInv, NEW h \in Handlers, StartOverFinish(h) \/ FailDecide(h)
  PROVE  Form
<1>1. PICK d :
        /\ op' = [op EXCEPT ![h] = [op[h] EXCEPT !.s = d.s, !.acts = d.acts, !.pc = "effects"]]
        /\ \/ At(h, "restart", "finish") /\ d = finish(op[h].s, {}, rows)
           \/ At(h, "fail", "read") /\ d = Fail(op[h].s, {}, rows, "failed")
  BY ZenonT(30) DEF StartOverFinish, FailDecide
<1>2. h \in Procs /\ UNCHANGED <<session, fresh>>
  BY SMTT(20) DEF StartOverFinish, FailDecide, Procs
<1> DEFINE n == [op[h] EXCEPT !.s = d.s, !.acts = d.acts, !.pc = "effects"]
<1>3. op[h] \in CallInFlight
  BY SMTT(20), <1>2, CallHeld
<1>4. /\ n.s = d.s /\ n.acts = d.acts /\ n.rows = op[h].rows /\ n.pc = "effects"
      /\ Keep(op[h], n) /\ n.turn = op[h].turn
  BY SMTT(20), <1>3 DEF CallInFlight, Keep
<1>5. op' = [op EXCEPT ![h] = n]
  BY ZenonT(30), <1>1
<1> HIDE DEF n
<1>6. EndDecides(h, n)
  BY ZenonT(30), <1>1, <1>4 DEF EndDecides, IsDecision, At
<1>7. DecidesCall(h, n)
  BY ZenonT(30), <1>4, <1>6 DEF DecidesCall
<1> QED
  BY ZenonT(30), <1>2, <1>5, <1>7, FormMove

LEMMA StartOverCommitForm ==
  ASSUME IInv, NEW h \in Handlers, StartOverCommit(h)
  PROVE  Form
<1>1. h \in Procs /\ op[h].kind = "restart" /\ op[h].pc = "commit"
  BY SMTT(20) DEF StartOverCommit, At, Procs
<1>2. CASE ~fresh[h]
  BY SMTT(20), <1>1, <1>2, FormForget DEF StartOverCommit
<1>3. CASE fresh[h]
  <2> DEFINE n == [op[h] EXCEPT !.pc = "enqueue", !.s = NewSession]
  <2>1. Write(op[h].s) /\ op' = [op EXCEPT ![h] = n]
    BY ZenonT(30), <1>3 DEF StartOverCommit
  <2>2. op[h] \in CallInFlight
    BY SMTT(20), <1>1, CallHeld
  <2>3. /\ Keep(op[h], n) /\ n.pc = "enqueue" /\ n.s = NewSession
        /\ n.acts = op[h].acts /\ n.rows = op[h].rows
    BY SMTT(20), <2>2 DEF CallInFlight, Keep
  <2> HIDE DEF n
  <2>4. AfterWrite(h, n)
    BY ZenonT(30), <1>1, <2>3 DEF AfterWrite
  <2>5. WritesLast(h, op[h].s)
    BY SMTT(20), <1>1, <1>3 DEF WritesLast, WritesCopy
  <2> QED
    BY ZenonT(30), <1>1, <2>1, <2>4, <2>5, FormWrite
<1> QED
  BY SMTT(20), <1>2, <1>3

LEMMA FailCommitForm ==
  ASSUME IInv, NEW h \in Handlers, FailCommit(h)
  PROVE  Form
<1>1. h \in Procs /\ At(h, "fail", "commit")
  BY SMTT(20) DEF FailCommit, Procs
<1>2. CASE fresh[h]
  <2>1. WritesLast(h, op[h].s)
    BY SMTT(20), <1>1, <1>2 DEF WritesLast, WritesCopy, At
  <2>2. Write(op[h].s) /\ Return(h)
    BY SMTT(20), <1>2 DEF FailCommit
  <2> QED
    BY ZenonT(30), <1>1, <2>1, <2>2, FormReturn
<1>3. CASE ~fresh[h]
  <2>1. \/ Forget(h) /\ session' = session
        \/ session.phase # "done" /\ Read(h, [NoOp EXCEPT !.kind = "fail", !.pc = "read"])
    BY ZenonT(30), <1>3 DEF FailCommit
  <2> QED
    BY ZenonT(30), <1>1, <1>3, <2>1, FormForget, FailReads
<1> QED
  BY SMTT(20), <1>2, <1>3

LEMMA UpdateForm ==
  ASSUME IInv, NEW h \in Handlers,
         \/ PromptUpdate(h) \/ RestartUpdate(h) \/ AnswerUpdate(h) \/ CreatePullRequestUpdate(h)
  PROVE  Form
<1>1. h \in Procs
  BY SMTT(20) DEF Procs
<1>2. CASE PromptUpdate(h)
  <2>1. \/ Released(session) /\ Write(resetForTurn(session, op[h].rec))
        \/ Write(session)
    BY SMTT(20), <1>2 DEF PromptUpdate, Released
  <2>2. op[h].kind = "prompt" /\ op[h].pc = "update" /\ Return(h)
    BY SMTT(20), <1>2 DEF PromptUpdate, At
  <2>3. WritesLast(h, session)
    BY SMTT(20), <2>2 DEF WritesLast
  <2>4. Released(session) => WritesLast(h, resetForTurn(session, op[h].rec))
    BY SMTT(20), <2>2 DEF WritesLast, WritesReset
  <2> QED
    BY ZenonT(30), <1>1, <2>1, <2>2, <2>3, <2>4, FormReturn
<1>3. CASE RestartUpdate(h)
  <2>1. \/ session.phase = "done" /\ Write(resetForTurn(session, op[h].rec)) /\ Return(h)
        \/ Forget(h) /\ session' = session
    BY SMTT(20), <1>3 DEF RestartUpdate
  <2>2. session.phase = "done" => WritesLast(h, resetForTurn(session, op[h].rec))
    BY SMTT(20), <1>3 DEF WritesLast, WritesReset, RestartUpdate, At, Released
  <2> QED
    BY ZenonT(30), <1>1, <2>1, <2>2, FormReturn, FormForget
<1>4. CASE AnswerUpdate(h)
  <2> DEFINE s == Enter([session EXCEPT !.env = TRUE], "queued")
  <2>1. \/ session.phase = "awaitingUser" /\ Write(s) /\ Return(h)
        \/ Forget(h) /\ session' = session
    BY ZenonT(30), <1>4 DEF AnswerUpdate
  <2>2. session.phase = "awaitingUser" => WritesLast(h, s)
    BY ZenonT(30), <1>4 DEF WritesLast, WritesPhase, AnswerUpdate, At
  <2> HIDE DEF s
  <2> QED
    BY ZenonT(30), <1>1, <2>1, <2>2, FormReturn, FormForget
<1>5. CASE CreatePullRequestUpdate(h)
  <2>1. Write(PullRequestMade) /\ Return(h)
    BY ZenonT(30), <1>5 DEF CreatePullRequestUpdate, PullRequestMade
  <2>2. WritesLast(h, PullRequestMade)
    BY ZenonT(30), <1>5 DEF WritesLast, CreatePullRequestUpdate, At
  <2> QED
    BY ZenonT(30), <1>1, <2>1, <2>2, FormReturn
<1> QED
  BY SMTT(20), <1>2, <1>3, <1>4, <1>5

LEMMA ServiceForm ==
  ASSUME IInv, FreshTracks, ServiceNext
  PROVE  Form
<1>1. CASE StopSession \/ Archive \/ dispatchPullRequest \/ \E reject \in BOOLEAN : Approve(reject)
  BY SMTT(20), <1>1, UpdatesForm
<1>2. CASE \E i \in DOMAIN inbox : settleTurnScope(i)
  BY SMTT(20), <1>2 DEF settleTurnScope, Form
<1>3. ASSUME NEW h \in Handlers,
             \/ \E t \in Turns : Prompt(h, t) \/ Restart(h, t) \/ StartOver(h, t)
             \/ PromptEnqueue(h) \/ PromptUpdate(h)
             \/ Answer(h) \/ AnswerUpdate(h)
             \/ StartOverFinish(h) \/ StartOverCommit(h)
             \/ RestartEnqueue(h) \/ RestartUpdate(h)
             \/ FailSession(h) \/ FailDecide(h) \/ FailCommit(h)
             \/ CreatePullRequest(h) \/ CreatePullRequestUpdate(h)
             \/ RunSandboxActions(h)
      PROVE  Form
  <2>1. h \in Procs
    BY SMTT(20) DEF Procs
  <2>2. CASE FailSession(h)
    BY ZenonT(30), <2>1, <2>2, FailReads DEF FailSession, Idle
  <2> QED
    BY SMTT(20), <1>3, <2>1, <2>2, ServiceStartForm, EnqueueForm, StartOverForm, EndDecidedForm,
       StartOverCommitForm, FailCommitForm, UpdateForm, EffectsForm
<1> QED
  BY SMTT(20), <1>1, <1>2, <1>3 DEF ServiceNext

-----------------------------------------------------------------------------
(* The runner API. *)

LEMMA RunnerReads ==
  ASSUME IInv, NEW h \in Handlers, NEW b \in Sandboxes, Bootstrap(h, b) \/ Inbox(h, b)
  PROVE  Form
<1>1. PICK kind \in {"bootstrap", "inbox"} : Read(h, Call(b, kind, "pick"))
  BY SMTT(20) DEF Bootstrap, Inbox
<1> DEFINE c == Call(b, kind, "pick")
           n == [c EXCEPT !.s = session]
<1>2. /\ n.kind = kind /\ n.pc = "pick" /\ n.s = session /\ n.acts = {} /\ n.rows = NoRows
      /\ n.box = b /\ n.turn = None
  BY ZenonT(30) DEF NoOp, Call
<1>3. h \in Procs /\ op[h].pc = "idle" /\ session.phase # "done" /\ session.sandbox = b
  BY SMTT(20) DEF Bootstrap, Inbox, Serves, Idle, Procs
<1>4. n = [c EXCEPT !.s = session] /\ Read(h, c)
  BY ZenonT(30), <1>1
<1> HIDE DEF n, c
<1>5. Begins(h, n, TRUE)
  BY SMTT(20), <1>2, <1>3 DEF Begins, BeginsWithCopy
<1> QED
  BY ZenonT(30), <1>3, <1>4, <1>5, FormRead

LEMMA CompleteTurnForm ==
  ASSUME IInv, NEW h \in Handlers, NEW b \in Sandboxes, CompleteTurn(h, b)
  PROVE  Form
<1> DEFINE c == [Call(b, "complete", "read") EXCEPT !.turn = runner[b].cur, !.req = runner[b].req]
           n == [c EXCEPT !.s = session]
<1>1. /\ n.kind = "complete" /\ n.pc = "read" /\ n.s = session /\ n.acts = {} /\ n.rows = NoRows
      /\ n.box = b /\ n.turn = runner[b].cur /\ n.req = runner[b].req
  BY ZenonT(30) DEF NoOp, Call
<1>2. h \in Procs /\ op[h].pc = "idle" /\ CompleteCheck(b) = "decide"
  BY SMTT(20) DEF CompleteTurn, Idle, Procs
<1>3. session.phase # "done" /\ session.sandbox = b /\ runner[b].cur = session.turn
  BY SMTT(20), <1>2 DEF CompleteCheck
<1>6. runner[b].req # NoReq
  BY ZenonT(30) DEF CompleteTurn, Completes
<1>4. n = [c EXCEPT !.s = session] /\ Read(h, c)
  BY ZenonT(30) DEF CompleteTurn
<1> HIDE DEF n, c
<1>5. Begins(h, n, TRUE)
  BY SMTT(20), <1>1, <1>2, <1>3, <1>6 DEF Begins, BeginsWithCopy
<1> QED
  BY ZenonT(30), <1>2, <1>4, <1>5, FormRead

LEMMA UpdatingCallForm ==
  ASSUME IInv, FreshTracks, NEW h \in Handlers, NEW b \in Sandboxes,
         HeartbeatRunning(h, b) \/ Events(h, b)
  PROVE  Form
<1>1. op[h].pc = "idle" /\ UNCHANGED <<session, fresh>>
  BY SMTT(20) DEF HeartbeatRunning, Events, Idle
<1>2. op' = op \/ \E kind \in {"heartbeat", "events"} : op' = [op EXCEPT ![h] = Call(b, kind, "update")]
  BY SMTT(20) DEF HeartbeatRunning, Events
<1>3. ASSUME NEW kind \in {"heartbeat", "events"}, op' = [op EXCEPT ![h] = Call(b, kind, "update")]
      PROVE  Form
  <2> DEFINE n == Call(b, kind, "update")
  <2>1. n.kind = kind /\ n.pc = "update" /\ n.s = NewSession /\ n.acts = {} /\ n.rows = NoRows
    BY ZenonT(30) DEF NoOp, Call
  <2>2. op' = [op EXCEPT ![h] = n]
    BY ZenonT(30), <1>3
  <2> HIDE DEF n
  <2>3. BeginsWithout(h, n)
    BY SMTT(20), <2>1 DEF BeginsWithout
  <2> QED
    BY ZenonT(30), <1>1, <2>1, <2>2, <2>3, StartForm
<1> QED
  BY SMTT(20), <1>1, <1>2, <1>3 DEF Form

LEMMA BootstrapPickForm ==
  ASSUME IInv, NEW h \in Handlers, BootstrapPick(h)
  PROVE  Form
<1>1. h \in Procs /\ op[h].kind = "bootstrap" /\ op[h].pc = "pick" /\ UNCHANGED <<session, fresh>>
  BY SMTT(20) DEF BootstrapPick, At, Procs
<1>2. op[h] \in CallInFlight
  BY SMTT(20), <1>1, CallHeld
<1>3. CASE op[h].s.turn # None \/ UndeliveredCodingInbox = {}
  <2> DEFINE n == [op[h] EXCEPT !.turn = op[h].s.turn, !.pc = "update"]
  <2>1. op' = [op EXCEPT ![h] = n]
    BY ZenonT(30), <1>3 DEF BootstrapPick
  <2>2. /\ Keep(op[h], n) /\ n.s = op[h].s /\ n.rows = op[h].rows /\ n.acts = op[h].acts
        /\ n.pc = "update" /\ n.turn = op[h].s.turn
    BY SMTT(20), <1>2 DEF CallInFlight, Keep
  <2> HIDE DEF n
  <2>3. GoesToStage(h, n)
    BY ZenonT(30), <1>1, <2>2 DEF GoesToStage
  <2> QED
    BY ZenonT(30), <1>1, <2>1, <2>3, FormMove
<1>4. CASE op[h].s.turn = None /\ UndeliveredCodingInbox # {}
  <2>1. PICK i \in Oldest(UndeliveredCodingInbox) :
          \/ Pick(h, i)
          \/ inbox[i].pending /\ Goto(h, "update")
    BY SMTT(20), <1>4 DEF BootstrapPick
  <2>2. i \in DOMAIN inbox /\ undelivered(i)
    BY SMTT(20), <2>1 DEF Oldest, UndeliveredCodingInbox
  <2>3. CASE Pick(h, i)
    <3> DEFINE n == [op[h] EXCEPT !.turn = inbox[i].id, !.pc = "mark"]
    <3>1. op' = [op EXCEPT ![h] = n]
      BY ZenonT(30), <2>3 DEF Pick
    <3>2. /\ Keep(op[h], n) /\ n.s = op[h].s /\ n.rows = op[h].rows /\ n.acts = op[h].acts
          /\ n.pc = "mark" /\ n.turn = inbox[i].id
      BY SMTT(20), <1>2 DEF CallInFlight, Keep
    <3> HIDE DEF n
    <3>3. PicksTurn(h, n)
      BY ZenonT(30), <1>4, <2>1, <2>2, <3>2 DEF PicksTurn
    <3>4. GoesToStage(h, n)
      BY ZenonT(30), <3>2, <3>3 DEF GoesToStage
    <3> QED
      BY ZenonT(30), <1>1, <3>1, <3>4, FormMove
  <2>4. CASE Goto(h, "update")
    <3> DEFINE n == [op[h] EXCEPT !.pc = "update"]
    <3>1. op' = [op EXCEPT ![h] = n]
      BY ZenonT(30), <2>4 DEF Goto
    <3>2. /\ Keep(op[h], n) /\ n.s = op[h].s /\ n.rows = op[h].rows /\ n.acts = op[h].acts
          /\ n.pc = "update" /\ n.turn = op[h].turn
      BY SMTT(20), <1>2 DEF CallInFlight, Keep
    <3> HIDE DEF n
    <3>3. GoesToStage(h, n)
      BY ZenonT(30), <1>1, <3>2 DEF GoesToStage
    <3> QED
      BY Zenon, <1>1, <3>1, <3>3, FormMove
  <2> QED
    BY SMTT(20), <2>1, <2>3, <2>4
<1> QED
  BY SMTT(20), <1>3, <1>4

LEMMA InboxPickForm ==
  ASSUME IInv, NEW h \in Handlers, InboxPick(h)
  PROVE  Form
<1>1. h \in Procs /\ session' = session
  BY SMTT(20) DEF InboxPick, Procs
<1>2. op[h] \in CallInFlight
  BY SMTT(20), <1>1, CallHeld
<1>3. CASE Forget(h)
  BY SMTT(20), <1>1, <1>3, FormForget
<1>4. ASSUME NEW i \in Oldest(IF acceptTurn(op[h].s) /\ ~op[h].s.stop THEN NextTurns(op[h].box) ELSE {}),
             Pick(h, i), UNCHANGED fresh
      PROVE  Form
  <2>1. acceptTurn(op[h].s) /\ ~op[h].s.stop /\ i \in Oldest(NextTurns(op[h].box))
    BY SMTT(20), <1>4 DEF Oldest
  <2>2. i \in DOMAIN inbox /\ undelivered(i)
    BY SMTT(20), <2>1 DEF Oldest, NextTurns, UndeliveredCodingInbox
  <2> DEFINE n == [op[h] EXCEPT !.turn = inbox[i].id, !.pc = "mark"]
  <2>3. op' = [op EXCEPT ![h] = n]
    BY ZenonT(30), <1>4 DEF Pick
  <2>4. /\ Keep(op[h], n) /\ n.s = op[h].s /\ n.rows = op[h].rows /\ n.acts = op[h].acts
        /\ n.pc = "mark" /\ n.turn = inbox[i].id
    BY SMTT(20), <1>2 DEF CallInFlight, Keep
  <2> HIDE DEF n
  <2>5. PicksTurn(h, n)
    BY ZenonT(30), <2>1, <2>2, <2>4 DEF PicksTurn
  <2>6. GoesToStage(h, n)
    BY ZenonT(30), <2>4, <2>5 DEF GoesToStage
  <2> QED
    BY ZenonT(30), <1>1, <1>4, <2>3, <2>6, FormMove
<1> QED
  BY ZenonT(30), <1>3, <1>4 DEF InboxPick

LEMMA MarkPickedForm ==
  ASSUME IInv, NEW h \in Handlers, MarkPicked(h)
  PROVE  Form
<1> DEFINE n == [op[h] EXCEPT !.pc = "update"]
<1>1. op' = [op EXCEPT ![h] = n] /\ UNCHANGED <<session, fresh>> /\ h \in Procs
  BY ZenonT(30) DEF MarkPicked, Goto, Procs
<1>2. op[h] \in CallInFlight
  BY SMTT(20), <1>1, CallHeld
<1>3. /\ Keep(op[h], n) /\ n.s = op[h].s /\ n.rows = op[h].rows /\ n.acts = op[h].acts
      /\ n.pc = "update" /\ n.turn = op[h].turn
  BY SMTT(20), <1>2 DEF CallInFlight, Keep
<1> HIDE DEF n
<1>4. GoesToStage(h, n)
  BY ZenonT(30), <1>3 DEF GoesToStage
<1> QED
  BY ZenonT(30), <1>1, <1>4, FormMove

LEMMA CompleteDecideForm ==
  ASSUME IInv, NEW h \in Handlers, CompleteDecide(h)
  PROVE  Form
<1> DEFINE seen == Seen(h)
           d    == completeDecision(op[h].s, seen, op[h].turn, op[h].req)
           n    == [op[h] EXCEPT !.s = d.s, !.acts = d.acts, !.rows = seen, !.pc = "effects"]
<1>1. op' = [op EXCEPT ![h] = n] /\ UNCHANGED <<session, fresh>>
  BY ZenonT(30) DEF CompleteDecide, Seen
<1>2. h \in Procs /\ op[h].kind = "complete" /\ op[h].pc = "read"
  BY SMTT(20) DEF CompleteDecide, At, Procs
<1>3. op[h] \in CallInFlight
  BY SMTT(20), <1>2, CallHeld
<1> HIDE DEF seen, d
<1>4. /\ Keep(op[h], n) /\ n.s = d.s /\ n.acts = d.acts /\ n.rows = seen
      /\ n.pc = "effects" /\ n.turn = op[h].turn
  BY SMTT(20), <1>3 DEF CallInFlight, Keep
<1> HIDE DEF n
<1>5. CompletionDecides(h, n)
  BY ZenonT(30), <1>2, <1>4 DEF CompletionDecides, IsDecision, d, seen
<1>6. DecidesCall(h, n)
  BY ZenonT(30), <1>4, <1>5 DEF DecidesCall
<1> QED
  BY ZenonT(30), <1>1, <1>2, <1>6, FormMove

LEMMA CompleteCommitForm ==
  ASSUME IInv, NEW h \in Handlers, CompleteCommit(h)
  PROVE  Form
<1>1. h \in Procs /\ op[h].kind = "complete" /\ op[h].pc = "commit"
  BY SMTT(20) DEF CompleteCommit, At, Procs
<1>2. op[h] \in CallInFlight
  BY SMTT(20), <1>1, CallHeld
<1>3. CASE fresh[h]
  <2>1. Write(op[h].s) /\ Return(h)
    BY ZenonT(30), <1>3 DEF CompleteCommit
  <2>2. WritesLast(h, op[h].s)
    BY ZenonT(30), <1>1, <1>3 DEF WritesLast, WritesCopy
  <2> QED
    BY ZenonT(30), <1>1, <2>1, <2>2, FormReturn
<1>4. CASE ~fresh[h]
  <2>1. \/ Forget(h) /\ UNCHANGED session
        \/ session.turn = op[h].turn /\ Read(h, [op[h] EXCEPT !.pc = "read"])
    BY ZenonT(30), <1>4 DEF CompleteCommit
  <2>2. CASE Forget(h) /\ UNCHANGED session
    BY ZenonT(30), <1>1, <2>2, FormForget
  <2>3. CASE session.turn = op[h].turn /\ Read(h, [op[h] EXCEPT !.pc = "read"])
    <3> DEFINE c == [op[h] EXCEPT !.pc = "read"]
               n == [c EXCEPT !.s = session]
    <3>1. /\ n.kind = op[h].kind /\ n.box = op[h].box /\ n.req = op[h].req
          /\ n.turn = op[h].turn /\ n.rows = op[h].rows /\ n.pc = "read" /\ n.s = session
      BY SMTT(20), <1>2 DEF CallInFlight
    <3>2. n = [c EXCEPT !.s = session] /\ Read(h, c)
      BY ZenonT(30), <2>3
    <3> HIDE DEF n, c
    <3>3. LooksAgain(h, n, TRUE)
      BY ZenonT(30), <1>1, <1>4, <2>3, <3>1 DEF LooksAgain
    <3> QED
      BY ZenonT(30), <1>1, <3>2, <3>3, FormRead
  <2> QED
    BY SMTT(20), <2>1, <2>2, <2>3
<1> QED
  BY SMTT(20), <1>3, <1>4

LEMMA BootstrapUpdateForm ==
  ASSUME IInv, NEW h \in Handlers, BootstrapUpdate(h)
  PROVE  Form
<1>1. h \in Procs /\ op[h].kind = "bootstrap" /\ op[h].pc = "update"
  BY SMTT(20) DEF BootstrapUpdate, At, Procs
<1>2. \/ Forget(h) /\ UNCHANGED session
      \/ /\ session.phase = "starting" /\ session.sandbox = op[h].box /\ Return(h)
         /\ \E phase \in {"running", "setup"} :
              Write(Enter(Started(session, op[h].turn), phase))
  BY ZenonT(60) DEF BootstrapUpdate
<1>3. CASE Forget(h) /\ UNCHANGED session
  BY ZenonT(30), <1>1, <1>3, FormForget
<1>4. ASSUME session.phase = "starting", session.sandbox = op[h].box, Return(h),
             NEW phase \in {"running", "setup"}, Write(Enter(Started(session, op[h].turn), phase))
      PROVE  Form
  <2> DEFINE s == Enter(Started(session, op[h].turn), phase)
  <2>1. s \in {Enter(Started(session, op[h].turn), "running"),
              Enter(Started(session, op[h].turn), "setup")}
    BY ZenonT(30), <1>4
  <2>2. WritesPhase(h, s)
    BY ZenonT(30), <1>1, <1>4, <2>1 DEF WritesPhase
  <2> HIDE DEF s
  <2>3. WritesLast(h, s)
    BY ZenonT(30), <2>2 DEF WritesLast
  <2> QED
    BY ZenonT(30), <1>1, <1>4, <2>3, FormReturn DEF s
<1> QED
  BY ZenonT(30), <1>2, <1>3, <1>4

LEMMA PhaseUpdateForm ==
  ASSUME IInv, NEW h \in Handlers, FinishSetup(h) \/ EventsUpdate(h) \/ InboxUpdate(h)
  PROVE  Form
<1>1. h \in Procs
  BY SMTT(20) DEF Procs
<1>2. \/ Forget(h) /\ UNCHANGED session
      \/ \E s : Write(s) /\ Return(h) /\ WritesPhase(h, s)
  <2>1. CASE FinishSetup(h)
    BY ZenonT(60), <2>1 DEF FinishSetup, At, WritesPhase
  <2>2. CASE EventsUpdate(h)
    BY ZenonT(60), <2>2 DEF EventsUpdate, At, WritesPhase
  <2>3. CASE InboxUpdate(h)
    BY ZenonT(60), <2>3 DEF InboxUpdate, At, WritesPhase
  <2> QED
    BY SMTT(20), <2>1, <2>2, <2>3
<1>3. CASE Forget(h) /\ UNCHANGED session
  BY ZenonT(30), <1>1, <1>3, FormForget
<1>4. ASSUME NEW s, Write(s), Return(h), WritesPhase(h, s)
      PROVE  Form
  <2>1. WritesLast(h, s)
    BY ZenonT(30), <1>4 DEF WritesLast
  <2> QED
    BY ZenonT(30), <1>1, <1>4, <2>1, FormReturn
<1> QED
  BY ZenonT(30), <1>2, <1>3, <1>4

LEMMA RuntimeForm ==
  ASSUME IInv, FreshTracks, RuntimeNext
  PROVE  Form
<1>1. ASSUME NEW b \in Sandboxes, RunnerNext(b)
      PROVE  Form
  <2>1. UNCHANGED <<session, op, fresh>>
    BY ZenonT(60), <1>1 DEF RunnerNext, BootstrapGone, Prepared, PrepareFailed, TakeNext, Ask,
       EndTurn, CompleteRefused, CompleteLate, HeartbeatStop, SandboxUp, SandboxDown,
       SandboxKilled, ObserveEnd
  <2> QED
    BY SMTT(20), <2>1 DEF Form
<1>2. ASSUME NEW h \in Handlers, HandlerNext(h)
      PROVE  Form
  <2>1. ASSUME NEW b \in Sandboxes,
               \/ Bootstrap(h, b) \/ CompleteTurn(h, b)
               \/ HeartbeatRunning(h, b) \/ Events(h, b) \/ Inbox(h, b)
        PROVE  Form
    BY ZenonT(30), <2>1, RunnerReads, CompleteTurnForm, UpdatingCallForm
  <2>2. CASE BootstrapPick(h) \/ MarkPicked(h) \/ BootstrapUpdate(h)
    BY ZenonT(30), <2>2, BootstrapPickForm, MarkPickedForm, BootstrapUpdateForm
  <2>3. CASE CompleteDecide(h) \/ CompleteCommit(h) \/ (At(h, "complete", "effects") /\ RunSandboxActions(h))
    BY ZenonT(30), <2>3, CompleteDecideForm, CompleteCommitForm, EffectsForm DEF Procs
  <2>4. CASE FinishSetup(h) \/ EventsUpdate(h) \/ InboxPick(h) \/ InboxUpdate(h)
    BY ZenonT(30), <2>4, PhaseUpdateForm, InboxPickForm
  <2> QED
    BY ZenonT(30), <1>2, <2>1, <2>2, <2>3, <2>4 DEF HandlerNext
<1> QED
  BY ZenonT(30), <1>1, <1>2 DEF RuntimeNext

LEMMA NextForm ==
  ASSUME IInv, FreshTracks, [Next]_vars
  PROVE  Form
<1>1. CASE UNCHANGED vars
  BY SMTT(20), <1>1 DEF vars, Form
<1>2. ASSUME NEW p \in Procs, Crash(p)
      PROVE  Form
  BY ZenonT(30), <1>2, FormForget DEF Crash
<1> QED
  BY ZenonT(30), <1>1, <1>2, ReconcilerForm, ServiceForm, RuntimeForm DEF Next

=============================================================================
