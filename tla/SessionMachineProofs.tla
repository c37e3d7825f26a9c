------------------------ MODULE SessionMachineProofs ------------------------
(***************************************************************************)
(* What the decisions of SessionMachine keep, for every session, every set *)
(* of sandbox seen and every value of the constants.  CodingSessionsProofs *)
(* builds its invariants from these lemmas.                                *)
(***************************************************************************)
EXTENDS SessionInvariant, TLAPS

(* What every decision d made from the session s alone keeps: it is well   *)
(* typed, keeps a stop request, reports no turn as completed, makes no     *)
(* turn current, and is in a placed phase only with the sandbox of s.      *)
Follows(s, d) ==
  /\ d.s \in Session
  /\ d.acts \subseteq Action
  /\ s.stop => d.s.stop
  /\ d.s.last = s.last
  /\ d.s.turn \in {s.turn, None}
  /\ d.s.phase \in Placed => s.phase \in Placed /\ d.s.sandbox = s.sandbox

-----------------------------------------------------------------------------
(* The tables. *)

LEMMA TablesType ==
  /\ \A p \in Phase \ {"done"} : PolicyState[p] \in State
  /\ \A p \in Phase : OnTimeout[p] \in ErrorCode
  /\ \A e, b : TerminalState(e, b) \in State
BY DEF PolicyState, OnTimeout, TerminalState, Phase, State, ErrorCode

(* Enter writes a well-typed session that differs from s in the fields of  *)
(* its phase only.                                                         *)
LEMMA EnterKeeps ==
  ASSUME NEW s \in Session, NEW p \in Phase
  PROVE  /\ Enter(s, p) \in Session
         /\ Enter(s, p).phase = p
         /\ Enter(s, p).stop = s.stop
         /\ Enter(s, p).last = s.last
         /\ Enter(s, p).turn = s.turn
         /\ Enter(s, p).sandbox = s.sandbox
         /\ Enter(s, p).starts = s.starts
<1> DEFINE st == IF p = "done" THEN TerminalState(s.error, s.stop \/ s.rejected)
                 ELSE PolicyState[p]
           at == IF p # s.phase THEN 0 ELSE s.attempts
<1>1. st \in State
  BY TablesType
<1>2. at \in Nat
  BY DEF Session
<1>3. (p \in Timed) \in BOOLEAN /\ (p = "done") \in BOOLEAN
  OBVIOUS
<1>4. Enter(s, p) = [s EXCEPT !.attempts = at, !.phase = p,
                              !.deadline = (p \in Timed), !.state = st,
                              !.ended = (p = "done")]
  BY DEF Enter
<1> HIDE DEF st, at
<1> QED
  BY ZenonT(30), <1>1, <1>2, <1>3, <1>4, ZenonT(60) DEF Session

-----------------------------------------------------------------------------
(* The decisions that end or restart a session. *)

LEMMA ActionType ==
  /\ \A b \in Sandboxes \cup {None} :
       Stop(b) \in Action /\ Revoke(b) \in Action /\ EnqueueStop(b) \in Action
  /\ Provision \in Action /\ Publish \in Action
BY DEF Action, Stop, Revoke, EnqueueStop, Provision, Publish

(* finish and Fail keep what Follows says. *)
LEMMA FinishFollows ==
  ASSUME NEW s \in Session, NEW acts \in SUBSET Action, NEW seen
  PROVE  /\ Follows(s, finish(s, acts, seen))
         /\ finish(s, acts, seen).s.phase = "done"
<1> DEFINE c == [s EXCEPT !.pushed = FALSE, !.turn = None]
<1>1. /\ c \in Session /\ c.stop = s.stop /\ c.last = s.last
      /\ c.turn = None /\ c.sandbox = s.sandbox
  BY Zenon DEF Session
<1>2. "done" \in Phase /\ "done" \notin Placed
  BY DEF Phase, Placed
<1>3. Enter(c, "done") \in Session /\ Enter(c, "done").phase = "done"
      /\ Enter(c, "done").stop = s.stop /\ Enter(c, "done").last = s.last
      /\ Enter(c, "done").turn = None
  BY Zenon, <1>1, <1>2, EnterKeeps
<1>4. finish(s, acts, seen).s = Enter(c, "done")
  BY DEF finish, Decide
<1>5. finish(s, acts, seen).acts \subseteq Action
  BY Zenon, ActionType DEF finish, Decide
<1> QED
  BY <1>2, <1>3, <1>4, <1>5 DEF Follows

LEMMA FailFollows ==
  ASSUME NEW s \in Session, NEW acts \in SUBSET Action, NEW seen,
         NEW code \in ErrorCode
  PROVE  /\ Follows(s, Fail(s, acts, seen, code))
         /\ Fail(s, acts, seen, code).s.phase = "done"
<1> DEFINE c == [s EXCEPT !.error = code]
<1>1. /\ c \in Session /\ c.stop = s.stop /\ c.last = s.last
      /\ c.turn = s.turn /\ c.sandbox = s.sandbox
  BY DEF Session
<1>2. Follows(c, finish(c, acts, seen)) /\ finish(c, acts, seen).s.phase = "done"
  BY <1>1, FinishFollows
<1> QED
  BY <1>1, <1>2 DEF Follows, Fail, Placed

(* A move of s to a phase that is not placed, after fields outside Follows *)
(* were changed.                                                           *)
LEMMA MoveFollows ==
  ASSUME NEW s \in Session, NEW c \in Session, NEW p \in Phase,
         NEW acts \in SUBSET Action,
         p \notin Placed, s.stop => c.stop, c.last = s.last,
         c.turn \in {s.turn, None}
  PROVE  Follows(s, Decide(Enter(c, p), acts))
<1>1. Enter(c, p) \in Session /\ Enter(c, p).phase = p /\ Enter(c, p).stop = c.stop
      /\ Enter(c, p).last = c.last /\ Enter(c, p).turn = c.turn
  BY EnterKeeps
<1> QED
  BY <1>1 DEF Follows, Decide

LEMMA StartFailedFollows ==
  ASSUME NEW s \in Session, NEW seen, NEW bad \in BOOLEAN
  PROVE  Follows(s, startFailed(s, seen, bad))
<1>1. CASE s.starts >= StartRetries
  BY Zenon, <1>1, FailFollows DEF startFailed, ErrorCode
<1>2. CASE ~(s.starts >= StartRetries)
  <2> DEFINE snap == s.snapshot /\ ~bad
             c    == [s EXCEPT !.starts = @ + 1, !.sandbox = None,
                               !.snapshot = snap]
             acts == {Stop(s.sandbox), Revoke(s.sandbox), Provision}
  <2>1. snap \in BOOLEAN
    OBVIOUS
  <2>2. s.starts + 1 \in 0 .. StartRetries
    BY <1>2, RetriesAssumption DEF Session
  <2> HIDE DEF snap
  <2>3. c \in Session /\ c.stop = s.stop /\ c.last = s.last /\ c.turn = s.turn
    BY ZenonT(30), <2>1, <2>2 DEF Session
  <2>4. acts \in SUBSET Action
    BY ActionType DEF Session
  <2>5. startFailed(s, seen, bad) = Decide(Enter(c, "provisioning"), acts)
    BY <1>2 DEF startFailed, snap
  <2> HIDE DEF c, acts
  <2> QED
    BY <2>3, <2>4, <2>5, MoveFollows DEF Phase, Placed
<1> QED
  BY <1>1, <1>2

LEMMA RequeueFollows ==
  ASSUME NEW s \in Session, NEW seen
  PROVE  Follows(s, requeue(s, seen))
<1> DEFINE ex   == s.existing \/ s.pushed \/ s.pr
           c    == [s EXCEPT !.sandbox = None, !.starts = 0, !.turn = None,
                             !.existing = ex]
           acts == {Stop(b) : b \in {d \in Sandboxes : seen[d].desired = "running"}}
<1>1. ex \in BOOLEAN
  OBVIOUS
<1>2. requeue(s, seen) = Decide(Enter(c, "queued"), acts)
  BY DEF requeue
<1> HIDE DEF ex
<1>0. 0 \in 0 .. StartRetries
  BY RetriesAssumption
<1>3. c \in Session /\ c.stop = s.stop /\ c.last = s.last /\ c.turn = None
  BY ZenonT(30), <1>0, <1>1 DEF Session
<1>4. acts \in SUBSET Action
  BY ActionType
<1> HIDE DEF c, acts
<1> QED
  BY <1>2, <1>3, <1>4, MoveFollows DEF Phase, Placed

LEMMA EnterStoppingFollows ==
  ASSUME NEW s \in Session
  PROVE  Follows(s, EnterStopping(s))
<1>1. {EnqueueStop(s.sandbox)} \in SUBSET Action
  BY ActionType DEF Session
<1> QED
  BY <1>1, MoveFollows DEF EnterStopping, Phase, Placed

-----------------------------------------------------------------------------
(* Step. *)

LEMMA SameFollows ==
  ASSUME NEW s \in Session, NEW acts \in SUBSET Action
  PROVE  Follows(s, Decide(s, acts))
BY DEF Follows, Decide, Session

(* The switch on the phase keeps what Follows says. *)
LEMMA StepPhaseFollows ==
  ASSUME NEW s \in Session, NEW o
  PROVE  Follows(s, StepPhase(s, o))
<1> DEFINE has  == hasCurrent(s, o.rows)
           row  == IF has THEN o.rows[s.sandbox] ELSE NoRow
           late == timedOut(s, o)
           warm == has /\ liveSandbox(row) /\ row.desired = "running"
           fail == Fail(s, {}, o.rows, OnTimeout[s.phase])
           same == Decide(s, {})
           moved == Decide(Enter(s, "provisioning"), {Provision})
           bad  == o.badSnapshot /\ goneSandbox(row)
           wanted == {Stop(b) : b \in {c \in Sandboxes :
                                         o.rows[c].desired = "running"}}
<1>1. Follows(s, same) /\ Follows(s, Decide(s, {Provision}))
      /\ Follows(s, Decide(s, {Publish}))
  BY SameFollows, ActionType
<1>2. Follows(s, fail)
  BY FailFollows, TablesType DEF Session
<1>3. Follows(s, Fail(s, {}, o.rows, "failed")) /\ Follows(s, finish(s, {}, o.rows))
  BY Zenon, FailFollows, FinishFollows DEF ErrorCode
<1>4. Follows(s, moved)
  BY MoveFollows, ActionType DEF Phase, Placed, Session
<1>5. Follows(s, startFailed(s, o.rows, bad))
  <2>1. bad \in BOOLEAN
    OBVIOUS
  <2> QED
    BY Zenon, <2>1, StartFailedFollows
<1>6. Follows(s, requeue(s, o.rows))
  BY RequeueFollows
<1>7. Follows(s, EnterStopping([s EXCEPT !.error = OnTimeout["running"]]))
  <2> DEFINE c == [s EXCEPT !.error = OnTimeout["running"]]
  <2>1. OnTimeout["running"] \in ErrorCode
    BY TablesType DEF Phase
  <2>2. /\ c \in Session /\ c.stop = s.stop /\ c.last = s.last
        /\ c.turn = s.turn /\ c.sandbox = s.sandbox /\ c.phase = s.phase
    BY <2>1 DEF Session
  <2>3. Follows(c, EnterStopping(c))
    BY <2>2, EnterStoppingFollows
  <2> HIDE DEF c
  <2>4. Follows(s, EnterStopping(c))
    BY <2>2, <2>3 DEF Follows
  <2> QED
    BY <2>4 DEF c
<1>8. s.phase = "idle" => Follows(s, Decide([s EXCEPT !.sandbox = None], {}))
  <2> DEFINE c == [s EXCEPT !.sandbox = None]
  <2>1. /\ c \in Session /\ c.stop = s.stop /\ c.last = s.last
        /\ c.turn = s.turn /\ c.phase = s.phase
    BY DEF Session
  <2> HIDE DEF c
  <2>2. s.phase = "idle" => Follows(s, Decide(c, {}))
    BY <2>1 DEF Follows, Decide, Placed
  <2> QED
    BY <2>2 DEF c
<1>9. Follows(s, Decide(s, wanted))
  BY SameFollows, ActionType
<1>10. s.phase \in Phase
  BY DEF Session
<1>a. CASE s.phase \in {"awaitingApproval", "setup"}
  <2>1. StepPhase(s, o) = IF late THEN fail ELSE same
    BY <1>a DEF StepPhase
  <2> QED
    BY <2>1, <1>1, <1>2
<1>b. CASE s.phase = "queued"
  <2>1. StepPhase(s, o) = IF ~o.enabled \/ o.quota THEN Fail(s, {}, o.rows, "failed")
                          ELSE IF o.capacity THEN moved
                          ELSE IF late THEN fail ELSE same
    BY <1>b DEF StepPhase
  <2> QED
    BY <2>1, <1>1, <1>2, <1>3, <1>4
<1>c. CASE s.phase = "provisioning"
  <2>1. StepPhase(s, o) = IF late THEN fail ELSE Decide(s, {Provision})
    BY <1>c DEF StepPhase
  <2> QED
    BY <2>1, <1>1, <1>2
<1>d. CASE s.phase = "starting"
  <2>1. StepPhase(s, o) = IF ~has THEN moved
                          ELSE IF goneSandbox(row) \/ late
                               THEN startFailed(s, o.rows, bad) ELSE same
    BY <1>d DEF StepPhase
  <2> QED
    BY <2>1, <1>1, <1>4, <1>5
<1>e. CASE s.phase = "running"
  <2>1. StepPhase(s, o) = IF late
                          THEN EnterStopping([s EXCEPT !.error = OnTimeout["running"]])
                          ELSE same
    BY <1>e DEF StepPhase
  <2> QED
    BY <2>1, <1>1, <1>7
<1>f. CASE s.phase = "awaitingUser"
  <2>1. StepPhase(s, o) = IF late THEN fail
                          ELSE IF o.pending /\ ~(has /\ liveSandbox(row))
                               THEN requeue(s, o.rows) ELSE same
    BY <1>f DEF StepPhase
  <2> QED
    BY <2>1, <1>1, <1>2, <1>6
<1>g. CASE s.phase = "publishing"
  <2>1. StepPhase(s, o) = IF late THEN fail ELSE Decide(s, {Publish})
    BY <1>g DEF StepPhase
  <2> QED
    BY <2>1, <1>1, <1>2
<1>h. CASE s.phase = "idle"
  <2>1. StepPhase(s, o) = IF o.pending
                          THEN IF warm THEN same ELSE requeue(s, o.rows)
                          ELSE IF late THEN finish(s, {}, o.rows)
                          ELSE IF has /\ ~warm
                               THEN Decide([s EXCEPT !.sandbox = None], {})
                          ELSE same
    BY <1>h DEF StepPhase
  <2> QED
    BY <2>1, <1>h, <1>1, <1>3, <1>6, <1>8
<1>i. CASE s.phase = "stopping"
  <2>1. StepPhase(s, o) = IF ~anyLive(o.rows) \/ late THEN finish(s, {}, o.rows)
                          ELSE IF o.grace THEN Decide(s, wanted) ELSE same
    BY <1>i DEF StepPhase
  <2> QED
    BY <2>1, <1>1, <1>3, <1>9
<1>j. CASE s.phase = "done"
  <2>1. StepPhase(s, o) = same
    BY <1>j DEF StepPhase
  <2> QED
    BY <2>1, <1>1
<1> QED
  BY <1>10, <1>a, <1>b, <1>c, <1>d, <1>e, <1>f, <1>g, <1>h, <1>i, <1>j DEF Phase

(* Step keeps what Follows says: a pass neither drops a stop request nor   *)
(* completes or opens a turn, whatever it observes.                        *)
THEOREM StepFollows ==
  ASSUME NEW s \in Session, NEW o
  PROVE  Follows(s, Step(s, o))
<1>1. Follows(s, Decide(s, {}))
  BY SameFollows
<1>2. Follows(s, EnterStopping(s)) /\ Follows(s, finish(s, {}, o.rows))
  BY EnterStoppingFollows, FinishFollows
<1>3. Follows(s, Fail(s, {}, o.rows, "failed"))
  BY Zenon, FailFollows DEF ErrorCode
<1>4. Follows(s, StepPhase(s, o))
  BY StepPhaseFollows
<1> QED
  BY <1>1, <1>2, <1>3, <1>4 DEF Step

-----------------------------------------------------------------------------
(* The other decisions. *)

(* AfterProvision places the session in the sandbox of the outcome, or     *)
(* keeps what Follows says.                                                *)
Provisioned(s, d, outcome) ==
  \/ Follows(s, d)
  \/ /\ outcome.kind = "sandbox"
     /\ d.s \in Session /\ d.acts \subseteq Action
     /\ d.s.stop = s.stop /\ d.s.last = s.last /\ d.s.turn = s.turn
     /\ d.s.sandbox = outcome.box

LEMMA AfterProvisionKeeps ==
  ASSUME NEW s \in Session, NEW acts \in SUBSET Action, NEW seen,
         NEW outcome, outcome.kind = "sandbox" => outcome.box \in Sandboxes,
         NEW restored \in BOOLEAN
  PROVE  Provisioned(s, AfterProvision(s, acts, seen, outcome, restored), outcome)
<1> DEFINE applied == [s EXCEPT !.env = TRUE, !.snapshot = restored]
           placed  == [applied EXCEPT !.sandbox = outcome.box]
           d == AfterProvision(s, acts, seen, outcome, restored)
<1>1. CASE outcome.kind = "sandbox"
  <2>1. /\ placed \in Session /\ placed.stop = s.stop /\ placed.last = s.last
        /\ placed.turn = s.turn /\ placed.sandbox = outcome.box
    BY Zenon, <1>1 DEF Session
  <2>2. d = Decide(Enter(placed, "starting"), acts)
    BY <1>1 DEF AfterProvision
  <2> HIDE DEF placed, d
  <2>3. "starting" \in Phase
    BY DEF Phase
  <2>4. /\ Enter(placed, "starting") \in Session
        /\ Enter(placed, "starting").stop = s.stop
        /\ Enter(placed, "starting").last = s.last
        /\ Enter(placed, "starting").turn = s.turn
        /\ Enter(placed, "starting").sandbox = outcome.box
    BY <2>1, <2>3, EnterKeeps
  <2>5. /\ d.s \in Session /\ d.acts \subseteq Action
        /\ d.s.stop = s.stop /\ d.s.last = s.last /\ d.s.turn = s.turn
        /\ d.s.sandbox = outcome.box
    BY <2>2, <2>4 DEF Decide
  <2> QED
    BY <1>1, <2>5 DEF Provisioned, d
<1>2. CASE outcome.kind = "select"
  <2>1. d = Decide(Enter(s, "awaitingUser"), acts)
    BY <1>2 DEF AfterProvision
  <2>2. Follows(s, Decide(Enter(s, "awaitingUser"), acts))
    BY MoveFollows DEF Phase, Placed
  <2> QED
    BY <2>1, <2>2 DEF Provisioned
<1>3. CASE outcome.kind \notin {"sandbox", "select"}
  <2> DEFINE c == [s EXCEPT !.attempts = @ + 1]
  <2>0. s.attempts + 1 \in Nat
    BY DEF Session
  <2>1. /\ c \in Session /\ c.stop = s.stop /\ c.last = s.last /\ c.turn = s.turn
        /\ c.phase = s.phase /\ c.sandbox = s.sandbox
    BY <2>0 DEF Session
  <2>2. d = Decide(c, acts) \/ d = Fail(s, acts, seen, "failed")
    BY <1>3 DEF AfterProvision
  <2>3. Follows(s, Fail(s, acts, seen, "failed"))
    BY Zenon, FailFollows DEF ErrorCode
  <2> HIDE DEF c, d
  <2>4. Follows(s, Decide(c, acts))
    BY <2>1 DEF Follows, Decide
  <2> QED
    BY <2>2, <2>3, <2>4 DEF Provisioned, d
<1> QED
  BY <1>1, <1>2, <1>3

LEMMA AfterPublishFollows ==
  ASSUME NEW s \in Session, NEW seen, NEW outcome
  PROVE  Follows(s, AfterPublish(s, seen, outcome))
<1> DEFINE c == [s EXCEPT !.pushed = FALSE, !.pr = TRUE]
           e == [s EXCEPT !.attempts = @ + 1]
           d == AfterPublish(s, seen, outcome)
<1>0. s.attempts + 1 \in Nat
  BY DEF Session
<1>1. /\ c \in Session /\ c.stop = s.stop /\ c.last = s.last /\ c.turn = s.turn
      /\ e \in Session /\ e.stop = s.stop /\ e.last = s.last /\ e.turn = s.turn
      /\ e.phase = s.phase /\ e.sandbox = s.sandbox
  BY ZenonT(30), <1>0 DEF Session
<1>2. \/ d = Decide(Enter(c, "idle"), {}) \/ d = Decide(e, {})
      \/ d = Fail(s, {}, seen, "failed") \/ d = Fail(s, {}, seen, "pullRequestFailed")
  BY DEF AfterPublish
<1>3. Follows(s, Fail(s, {}, seen, "failed"))
      /\ Follows(s, Fail(s, {}, seen, "pullRequestFailed"))
  BY Zenon, FailFollows DEF ErrorCode
<1> HIDE DEF c, d, e
<1>4. Follows(s, Decide(Enter(c, "idle"), {}))
  BY <1>1, MoveFollows DEF Phase, Placed
<1>5. Follows(s, Decide(e, {}))
  BY <1>1 DEF Follows, Decide
<1> QED
  BY <1>2, <1>3, <1>4, <1>5 DEF d

(* resetForTurn: the queued session names no sandbox and no turn.          *)
LEMMA ResetKeeps ==
  ASSUME NEW s \in Session, NEW rec
  PROVE  LET r == resetForTurn(s, rec)
         IN /\ r \in Session /\ r.phase = "queued" /\ r.sandbox = None
            /\ r.turn = None /\ r.last = s.last
<1> DEFINE ex == branchPublished(s, rec)
           c  == [s EXCEPT !.error = "", !.stop = FALSE, !.sandbox = None,
                           !.starts = 0, !.turn = None, !.pushed = FALSE,
                           !.existing = ex]
<1>1. ex \in BOOLEAN
  BY DEF branchPublished
<1>2. resetForTurn(s, rec) = Enter(c, "queued")
  BY DEF resetForTurn
<1>3. 0 \in 0 .. StartRetries /\ "" \in ErrorCode
  BY RetriesAssumption DEF ErrorCode
<1> HIDE DEF ex
<1>4. c \in Session /\ c.sandbox = None /\ c.turn = None /\ c.last = s.last
  BY ZenonT(30), <1>1, <1>3, ZenonT(60) DEF Session
<1> HIDE DEF c
<1> QED
  BY <1>2, <1>4, EnterKeeps DEF Phase

LEMMA FlagsType ==
  ASSUME NEW s \in Session, NEW pu \in BOOLEAN, NEW br \in BOOLEAN,
         NEW ex \in BOOLEAN
  PROVE  [s EXCEPT !.pushed = pu, !.branch = br, !.existing = ex] \in Session
<1>1. [s EXCEPT !.pushed = pu] \in Session
  BY DEF Session
<1>2. [[s EXCEPT !.pushed = pu] EXCEPT !.branch = br] \in Session
  BY ZenonT(30), <1>1 DEF Session
<1> QED
  BY ZenonT(30), <1>2 DEF Session

(* What completeDecision makes of session s: turn t is the last one, none  *)
(* is current, and the rest is as Follows says.                            *)
TurnCompleted(s, t, d) ==
  /\ d.s \in Session /\ d.acts \subseteq Action
  /\ s.stop => d.s.stop
  /\ d.s.last = t /\ d.s.turn = None
  /\ d.s.phase \in Placed => s.phase \in Placed /\ d.s.sandbox = s.sandbox

(* The runner's report of an ended turn is decided that way, whatever the  *)
(* status it reports.                                                      *)
LEMMA CompleteKeeps ==
  ASSUME NEW s \in Session, NEW seen, NEW t \in Turns, NEW req,
         req.pushed \in BOOLEAN
  PROVE  TurnCompleted(s, t, completeDecision(s, seen, t, req))
<1> DEFINE pu == s.pushed \/ req.pushed
           br == s.branch \/ req.pushed
           ex == s.existing \/ req.pushed
           c  == [s EXCEPT !.last = t, !.turn = None, !.pushed = pu,
                           !.branch = br, !.existing = ex]
           g  == [c EXCEPT !.stop = TRUE]
           d  == completeDecision(s, seen, t, req)
<1>1. pu \in BOOLEAN /\ br \in BOOLEAN /\ ex \in BOOLEAN
  OBVIOUS
<1>2. \/ d = Decide(c, {})
      \/ \E p \in {"publishing", "idle", "awaitingUser"} : d = Decide(Enter(c, p), {})
      \/ d = Decide(Enter(g, "stopping"), {})
      \/ \E code \in {"pullRequestFailed", "failed"} : d = Fail(c, {}, seen, code)
  BY DEF completeDecision
<1> HIDE DEF pu, br, ex
<1>3. /\ c \in Session /\ c.stop = s.stop /\ c.last = t /\ c.turn = None
      /\ c.phase = s.phase /\ c.sandbox = s.sandbox
  <2> DEFINE c1 == [s EXCEPT !.last = t, !.turn = None]
  <2>1. /\ c1 \in Session /\ c1.stop = s.stop /\ c1.last = t /\ c1.turn = None
        /\ c1.phase = s.phase /\ c1.sandbox = s.sandbox
    BY ZenonT(30) DEF Session
  <2>2. c = [c1 EXCEPT !.pushed = pu, !.branch = br, !.existing = ex]
    OBVIOUS
  <2> HIDE DEF c, c1
  <2>3. c \in Session
    BY Zenon, <1>1, <2>1, <2>2, FlagsType
  <2>4. /\ c.stop = c1.stop /\ c.last = c1.last /\ c.turn = c1.turn
        /\ c.phase = c1.phase /\ c.sandbox = c1.sandbox
    BY <2>1, <2>2 DEF Session
  <2> QED
    BY <2>1, <2>3, <2>4
<1> HIDE DEF c
<1>4. /\ g \in Session /\ g.stop /\ g.last = t /\ g.turn = None
  BY ZenonT(30), <1>3, ZenonT(60) DEF Session
<1> HIDE DEF d, g
<1>5. Follows(c, d) \/ (Follows(g, d) /\ d.s.phase = "stopping")
  <2>1. Follows(c, Decide(c, {}))
    BY <1>3, SameFollows
  <2>2. \A p \in {"publishing", "idle", "awaitingUser"} : Follows(c, Decide(Enter(c, p), {}))
    BY <1>3, MoveFollows DEF Phase, Placed
  <2>3. Follows(g, Decide(Enter(g, "stopping"), {}))
        /\ Decide(Enter(g, "stopping"), {}).s.phase = "stopping"
    BY <1>4, MoveFollows, EnterKeeps DEF Phase, Placed, Decide
  <2>4. \A code \in {"pullRequestFailed", "failed"} : Follows(c, Fail(c, {}, seen, code))
    BY Zenon, <1>3, FailFollows DEF ErrorCode
  <2>5. CASE \E p \in {"publishing", "idle", "awaitingUser"} : d = Decide(Enter(c, p), {})
    BY <2>2, <2>5
  <2>6. CASE \E code \in {"pullRequestFailed", "failed"} : d = Fail(c, {}, seen, code)
    BY <2>4, <2>6
  <2> QED
    BY <1>2, <2>1, <2>3, <2>5, <2>6
<1>6. TurnCompleted(s, t, d)
  BY <1>3, <1>4, <1>5 DEF Follows, Placed, TurnCompleted
<1> QED
  BY <1>6 DEF d

-----------------------------------------------------------------------------
(* What several of the proofs use. *)

Quiet(acts) == Provision \notin acts /\ Publish \notin acts

LEMMA KindsDiffer ==
  /\ Provision # Publish
  /\ \A b : /\ Provision # Stop(b) /\ Publish # Stop(b)
            /\ Provision # Revoke(b) /\ Publish # Revoke(b)
            /\ Provision # EnqueueStop(b) /\ Publish # EnqueueStop(b)
<1>1. /\ Provision.kind = "provision" /\ Publish.kind = "publish"
      /\ \A b : /\ Stop(b).kind = "stopSandbox" /\ Revoke(b).kind = "revokeTokens"
                /\ EnqueueStop(b).kind = "enqueueStop"
  BY Zenon DEF Provision, Publish, Stop, Revoke, EnqueueStop
<1> QED
  BY Zenon, <1>1

LEMMA CallHeld ==
  ASSUME IInv, NEW p \in Procs
  PROVE  op[p] \in CallInFlight /\ op[p].s \in Session /\ session \in Session
BY Zenon DEF IInv, CallsOK, CallInFlight, SessionOK, GoodSession

LEMMA CallsType ==
  ASSUME IInv
  PROVE  op \in [Procs -> CallInFlight] /\ fresh \in [Procs -> BOOLEAN]
BY Zenon DEF IInv, CallsOK, FreshOK

LEMMA NotCopied ==
  ASSUME FreshTracks, NEW p \in Procs,
         Idle(p) \/ op[p].kind \notin CopyingCalls
  PROVE  ~fresh[p]
BY Zenon DEF FreshTracks, DecidedFrom, Idle

(* The documents and calls that actions start from. *)
LEMMA NewSessionType ==
  /\ NewSession \in Session /\ NewSession.phase = "queued"
  /\ NewSession.turn = None /\ NewSession.sandbox = None
<1>1. 0 \in 0 .. StartRetries /\ 0 \in Nat
  BY RetriesAssumption
<1>2. "queued" \in Phase /\ "pending" \in State /\ "" \in ErrorCode
  BY Zenon DEF Phase, State, ErrorCode
<1> QED
  BY Zenon, <1>1, <1>2, OnPRBranchAssumption DEF NewSession, Session

LEMMA NoRowsType ==
  /\ NoRows \in [Sandboxes -> Row] /\ NoRow \in Row
  /\ \A b \in Sandboxes : ~exists(NoRows[b])
  /\ NoReq \in Request
BY Zenon DEF NoRows, NoRow, Row, exists, NoReq, Request

LEMMA NoOpType ==
  /\ NoOp \in CallInFlight /\ NoOp.kind = "none" /\ NoOp.pc = "idle"
  /\ NoOp.s = NewSession /\ NoOp.rows = NoRows /\ NoOp.turn = None
  /\ NoOp.box = None /\ NoOp.acts = {} /\ NoOp.req = NoReq /\ NoOp.rec = FALSE
BY NewSessionType, NoRowsType DEF NoOp, CallInFlight

LEMMA RunnerOf ==
  ASSUME RunnersOK, NEW b \in Sandboxes
  PROVE  GoodRunner(runner[b]) /\ runner[b] \in Runner
BY Zenon DEF RunnersOK

LEMMA OutcomeType ==
  ASSUME NEW s, NEW seen, NEW outcome \in ProvisionOutcome(s, seen), NEW restored \in Restorable(s)
  PROVE  (outcome.kind = "sandbox" => outcome.box \in Sandboxes) /\ restored \in BOOLEAN
<1>1. restored \in BOOLEAN
  BY Zenon DEF Restorable
<1>2. Newest(Reusable(seen)) \subseteq Sandboxes /\ NextID \subseteq Sandboxes
  BY Zenon DEF Newest, Reusable, NextID, Unused
<1>3. outcome.kind = "sandbox" => outcome.box \in Sandboxes
  BY <1>2 DEF ProvisionOutcome
<1> QED
  BY Zenon, <1>1, <1>3

LEMMA ProvisionDecided ==
  ASSUME IInv, NEW r \in Reconcilers, provision(r)
  PROVE  /\ r \in Procs /\ UNCHANGED <<session, fresh>> /\ OnlyCall(r)
         /\ ProvisionDecides(r, op'[r]) /\ Keep(op[r], op'[r]) /\ op'[r].turn = op[r].turn
<1>1. PICK outcome \in ProvisionOutcome(op[r].s, op[r].rows), restored \in Restorable(op[r].s) :
        /\ Decided(r, AfterProvision(op[r].s, op[r].acts \ {Provision}, op[r].rows, outcome, restored))
        /\ rows' = [b \in Sandboxes |-> IF b \in Unused /\ outcome.box = b THEN NewRow ELSE rows[b]]
  BY Zenon DEF provision
<1>2. At(r, "reconcile", "provision") /\ UNCHANGED <<session, fresh>> /\ r \in Procs
  BY Zenon DEF provision, Procs
<1> DEFINE d == AfterProvision(op[r].s, op[r].acts \ {Provision}, op[r].rows, outcome, restored)
           n == [op[r] EXCEPT !.s = d.s, !.acts = d.acts, !.rows = NoRows,
                              !.pc = NextStage(d.acts)]
<1>3. op' = [op EXCEPT ![r] = n]
  BY ZenonT(30), <1>1 DEF Decided
<1>3a. op[r] \in CallInFlight
  BY Zenon, <1>2 DEF IInv, CallsOK
<1> HIDE DEF d
<1>4. /\ n.s = d.s /\ n.acts = d.acts /\ n.rows = NoRows /\ n.pc = NextStage(d.acts)
      /\ Keep(op[r], n) /\ n.turn = op[r].turn
  BY Zenon, <1>3a DEF CallInFlight, Keep
<1> HIDE DEF n
<1> USE DEF d
<1>5. IsDecision(n, d) /\ n.pc = NextStage(n.acts)
  BY Zenon, <1>4 DEF IsDecision
<1>6. ProvisionDecides(r, n)
  BY ZenonT(30), <1>1, <1>2, <1>4, <1>5 DEF ProvisionDecides
<1>7. op'[r] = n /\ OnlyCall(r)
  BY Zenon, <1>2, <1>3 DEF OnlyCall, IInv, CallsOK
<1> QED
  BY ZenonT(30), <1>2, <1>4, <1>6, <1>7

=============================================================================
