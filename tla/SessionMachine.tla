--------------------------- MODULE SessionMachine ---------------------------
(***************************************************************************)
(* The pure part of the session state machine: what StepConfig.Step and    *)
(* the decisions around it (api/internal/coding/machine.go), the service   *)
(* (service.go) and the runner API (runtime.go) compute from a session     *)
(* document and the sandbox rows they read.  Nothing here has state; the   *)
(* module CodingSessions runs these decisions against the store.           *)
(*                                                                         *)
(* A session document is a record with the fields that the control flow    *)
(* reads:                                                                  *)
(*   phase, state, error   Phase, State, ErrorCode                         *)
(*   stop, rejected        StopRequested, ApprovalState = "rejected"       *)
(*   env, snapshot         EnvironmentID # "", SnapshotID # ""             *)
(*   sandbox, starts       SandboxID, SandboxAttempts                      *)
(*   attempts              Attempts                                        *)
(*   turn, last            CurrentTurnID, LastTurnID                       *)
(*   pushed, existing, pr  Pushed, ExistingBranch, len(PullRequests) > 0   *)
(*   branch                BranchPushed                                    *)
(*   ended, deadline       EndedAt # nil, PhaseDeadline # nil              *)
(*   archived              ArchivedAt # nil                                *)
(* A sandbox row is a record [desired, live, token]: Record.Desired,       *)
(* liveSandbox(record), and the state of its runner token.  Rows that do   *)
(* not exist are NoRow.                                                    *)
(*                                                                         *)
(* Time is abstracted: an observation says whether the phase deadline, the *)
(* stop grace, the heartbeat limit and the session cap have passed.        *)
(***************************************************************************)
EXTENDS Naturals, Phases

CONSTANTS
  Sandboxes,         \* the ids NewID may return for sandbox rows
  Turns,             \* the ids of inbox turns
  None,              \* the empty id
  StartRetries,      \* Retries.Start
  ProvisionRetries,  \* Retries.Provision
  PublishRetries,    \* Retries.Publish
  OnPRBranch         \* Source = pullRequest: the session works on a PR's branch

ASSUME NoneAssumption == None \notin Sandboxes /\ None \notin Turns
ASSUME RetriesAssumption == /\ StartRetries \in Nat
                            /\ ProvisionRetries \in Nat
                            /\ PublishRetries \in Nat
ASSUME OnPRBranchAssumption == OnPRBranch \in BOOLEAN

NoRow == [desired |-> "none", live |-> FALSE, token |-> "none"]

Row == [desired : {"none", "running", "stopped"}, live : BOOLEAN,
        token : {"none", "valid", "revoked"}]

Session ==
  [ phase : Phase, state : State, error : ErrorCode,
    stop : BOOLEAN, rejected : BOOLEAN, env : BOOLEAN, snapshot : BOOLEAN,
    sandbox : Sandboxes \cup {None}, starts : 0 .. StartRetries,
    attempts : Nat, turn : Turns \cup {None}, last : Turns \cup {None},
    pushed : BOOLEAN, existing : BOOLEAN, pr : BOOLEAN, branch : BOOLEAN,
    ended : BOOLEAN, deadline : BOOLEAN, archived : BOOLEAN ]

(* The side effects of a decision.                                         *)
Stop(b)      == [kind |-> "stopSandbox", box |-> b]
Revoke(b)    == [kind |-> "revokeTokens", box |-> b]
EnqueueStop(b) == [kind |-> "enqueueStop", box |-> b]
Provision    == [kind |-> "provision", box |-> None]
Publish      == [kind |-> "publish", box |-> None]

Action == [kind : {"stopSandbox", "revokeTokens", "enqueueStop", "provision",
                   "publish"},
           box : Sandboxes \cup {None}]

(* A decision: the session to write and the actions to run before that.    *)
Decide(s, acts) == [s |-> s, acts |-> acts]

-----------------------------------------------------------------------------
(* Sandbox rows as a session sees them. *)

exists(row)      == row.desired # "none"
liveSandbox(row) == row.live
goneSandbox(row) == row.desired = "running" /\ ~row.live

hasCurrent(s, rows) == s.sandbox # None /\ exists(rows[s.sandbox])
anyLive(rows)       == \E b \in Sandboxes : liveSandbox(rows[b])

-----------------------------------------------------------------------------
(* Enter: every field a phase change writes. *)
Enter(s, phase) ==
  [ s EXCEPT !.attempts = IF phase # s.phase THEN 0 ELSE @,
             !.phase    = phase,
             !.deadline = phase \in Timed,
             !.state    = IF phase = "done"
                          THEN TerminalState(s.error, s.stop \/ s.rejected)
                          ELSE PolicyState[phase],
             !.ended    = phase = "done" ]

(* A slip: only the session's own sandbox is stopped.                      *)
finishCurrent(s, acts, rows) ==
  Decide(Enter([s EXCEPT !.pushed = FALSE, !.turn = None], "done"),
         acts \cup (IF hasCurrent(s, rows) THEN {Stop(s.sandbox)} ELSE {})
              \cup {Revoke(b) : b \in {c \in Sandboxes : exists(rows[c])}})

(* finish: stop every sandbox that may still run, revoke every token.      *)
finish(s, acts, rows) ==
  Decide(Enter([s EXCEPT !.pushed = FALSE, !.turn = None], "done"),
         acts \cup {Stop(b) : b \in {c \in Sandboxes :
                                       \/ rows[c].desired = "running"
                                       \/ liveSandbox(rows[c])}}
              \cup {Revoke(b) : b \in {c \in Sandboxes : exists(rows[c])}})

Fail(s, acts, rows, code) == finish([s EXCEPT !.error = code], acts, rows)

(* A slip: one start too many.                                             *)
startFailedOneMore(s, rows, badSnapshot) ==
  IF s.starts > StartRetries
  THEN Fail(s, {}, rows, "failed")
  ELSE Decide(Enter([s EXCEPT !.starts = @ + 1, !.sandbox = None,
                              !.snapshot = @ /\ ~badSnapshot],
                    "provisioning"),
              {Stop(s.sandbox), Revoke(s.sandbox), Provision})

(* startFailed: another sandbox while start retries remain.  badSnapshot:  *)
(* the code was snapshotFailed, so the retry runs setup inline.            *)
startFailed(s, rows, badSnapshot) ==
  IF s.starts >= StartRetries
  THEN Fail(s, {}, rows, "failed")
  ELSE Decide(Enter([s EXCEPT !.starts = @ + 1, !.sandbox = None,
                              !.snapshot = @ /\ ~badSnapshot],
                    "provisioning"),
              {Stop(s.sandbox), Revoke(s.sandbox), Provision})

requeue(s, rows) ==
  Decide(Enter([s EXCEPT !.sandbox = None, !.starts = 0, !.turn = None,
                         !.existing = @ \/ s.pushed \/ s.pr],
               "queued"),
         {Stop(b) : b \in {c \in Sandboxes : rows[c].desired = "running"}})

EnterStopping(s) == Decide(Enter(s, "stopping"), {EnqueueStop(s.sandbox)})

-----------------------------------------------------------------------------
(* An observation o: what a reconcile pass sees besides the session.       *)
(*   rows       the session's sandbox rows                                 *)
(*   late       the time since the last write reaches the phase deadline   *)
(*   grace      ... the stop grace                                         *)
(*   silent     ... the heartbeat limit                                    *)
(*   capped     the cumulative running time reached MaxSession             *)
(*   enabled    a sandbox provider is configured                           *)
(*   quota      the spend check failed with ErrQuotaExceeded               *)
(*   capacity   both concurrency limits have room                          *)
(*   pending    undelivered turns exist (read in idle and awaitingUser)    *)
(*   badSnapshot  the sandbox failed in its restore step                   *)
timedOut(s, o) == s.deadline /\ o.late

(* The checks that come before the phase's own: the sandbox is lost.       *)
SandboxLost(s, o) ==
  /\ s.phase \in {"setup", "running", "awaitingUser", "publishing"}
  /\ \/ hasCurrent(s, o.rows) /\ goneSandbox(o.rows[s.sandbox])
     \/ /\ ~hasCurrent(s, o.rows)
        /\ s.phase # "publishing"
        /\ ~(s.phase = "awaitingUser" /\ s.sandbox = None)

(* The switch on the phase at the end of Step. *)
StepPhase(s, o) ==
  LET has  == hasCurrent(s, o.rows)
      row  == IF has THEN o.rows[s.sandbox] ELSE NoRow
      late == timedOut(s, o)
      warm == has /\ liveSandbox(row) /\ row.desired = "running"
      fail == Fail(s, {}, o.rows, OnTimeout[s.phase])
      same == Decide(s, {})
      provision == Decide(Enter(s, "provisioning"), {Provision})
  IN CASE s.phase \in {"awaitingApproval", "setup"} ->
            IF late THEN fail ELSE same
       [] s.phase = "queued" ->
            IF ~o.enabled \/ o.quota THEN Fail(s, {}, o.rows, "failed")
            ELSE IF o.capacity THEN provision
            ELSE IF late THEN fail ELSE same
       [] s.phase = "provisioning" ->
            IF late THEN fail ELSE Decide(s, {Provision})
       [] s.phase = "starting" ->
            IF ~has THEN provision
            ELSE IF goneSandbox(row) \/ late
                 THEN startFailed(s, o.rows, o.badSnapshot /\ goneSandbox(row))
                 ELSE same
       [] s.phase = "running" ->
            IF late
            THEN EnterStopping([s EXCEPT !.error = OnTimeout["running"]])
            ELSE same
       [] s.phase = "awaitingUser" ->
            IF late THEN fail
            ELSE IF o.pending /\ ~(has /\ liveSandbox(row))
                 THEN requeue(s, o.rows) ELSE same
       [] s.phase = "publishing" ->
            IF late THEN fail ELSE Decide(s, {Publish})
       [] s.phase = "idle" ->
            IF o.pending THEN IF warm THEN same ELSE requeue(s, o.rows)
            ELSE IF late THEN finish(s, {}, o.rows)
            ELSE IF has /\ ~warm THEN Decide([s EXCEPT !.sandbox = None], {})
            ELSE same
       [] s.phase = "stopping" ->
            IF ~anyLive(o.rows) \/ late THEN finish(s, {}, o.rows)
            ELSE IF o.grace
                 THEN Decide(s, {Stop(b) : b \in {c \in Sandboxes :
                                            o.rows[c].desired = "running"}})
                 ELSE same
       [] s.phase = "done" -> same

(* Step: the next state of a non-terminal session. *)
Step(s, o) ==
  IF s.phase = "done" THEN Decide(s, {})
  ELSE IF s.stop /\ s.phase # "stopping"
       THEN IF anyLive(o.rows) THEN EnterStopping(s)
                               ELSE finish(s, {}, o.rows)
  ELSE IF \/ o.capped
          \/ SandboxLost(s, o)
          \/ s.phase \in {"setup", "running"} /\ o.silent
       THEN Fail(s, {}, o.rows, "failed")
  ELSE StepPhase(s, o)

-----------------------------------------------------------------------------
(* A slip: the new sandbox is not written into the session.                *)
AfterProvisionUnnamed(s, acts, rows, outcome, restored) ==
  CASE outcome.kind = "sandbox" -> Decide(Enter(s, "starting"), acts)
    [] outcome.kind = "select" -> Decide(Enter(s, "awaitingUser"), acts)
    [] outcome.kind = "transient" /\ s.attempts < ProvisionRetries ->
         Decide([s EXCEPT !.attempts = @ + 1], acts)
    [] OTHER -> Fail(s, acts, rows, "failed")

(* Outcomes of the executors.  A provision outcome is a record [kind, box]: *)
(* a "sandbox" (created, bound or found again), "select" (several           *)
(* environments match), "transient" or "failed".  Apply sets the            *)
(* environment and the snapshot the sandbox restores.                       *)
AfterProvision(s, acts, rows, outcome, restored) ==
  LET applied == [s EXCEPT !.env = TRUE, !.snapshot = restored]
  IN CASE outcome.kind = "sandbox" ->
            Decide(Enter([applied EXCEPT !.sandbox = outcome.box], "starting"),
                   acts)
       [] outcome.kind = "select" -> Decide(Enter(s, "awaitingUser"), acts)
       [] outcome.kind = "transient" /\ s.attempts < ProvisionRetries ->
            Decide([s EXCEPT !.attempts = @ + 1], acts)
       [] OTHER -> Fail(s, acts, rows, "failed")

(* A publish outcome is "pr" (opened or found), "transient", "refused" (the *)
(* pushed head or the pull request is missing) or "failed" (another code). *)
AfterPublish(s, rows, outcome) ==
  CASE outcome = "pr" ->
         Decide(Enter([s EXCEPT !.pushed = FALSE, !.pr = TRUE], "idle"), {})
    [] outcome = "transient" /\ s.attempts < PublishRetries ->
         Decide([s EXCEPT !.attempts = @ + 1], {})
    [] outcome = "failed" -> Fail(s, {}, rows, "failed")
    [] OTHER -> Fail(s, {}, rows, "pullRequestFailed")

-----------------------------------------------------------------------------
(* Decisions of the service. *)

branchPublished(s, recorded) ==
  s.pushed \/ s.pr \/ OnPRBranch \/ (s.existing /\ recorded)

(* A slip: the sandbox of the finished run stays named.                    *)
resetKeepsSandbox(s, recorded) ==
  Enter([s EXCEPT !.error = "", !.stop = FALSE,
                  !.starts = 0, !.turn = None, !.pushed = FALSE,
                  !.existing = branchPublished(s, recorded)],
        "queued")

(* A slip: the stop request of the finished run stays.                     *)
resetKeepsStop(s, recorded) ==
  Enter([s EXCEPT !.error = "", !.sandbox = None,
                  !.starts = 0, !.turn = None, !.pushed = FALSE,
                  !.existing = branchPublished(s, recorded)],
        "queued")

(* resetForTurn: a finished session is queued again for a new turn.        *)
resetForTurn(s, recorded) ==
  Enter([s EXCEPT !.error = "", !.stop = FALSE, !.sandbox = None,
                  !.starts = 0, !.turn = None, !.pushed = FALSE,
                  !.existing = branchPublished(s, recorded)],
        "queued")

(* A slip: the completed turn stays current.                               *)
completeKeepsTurn(s, rows, t, req) ==
  LET c == [s EXCEPT !.last = t, !.pushed = @ \/ req.pushed,
                     !.branch = @ \/ req.pushed,
                     !.existing = @ \/ req.pushed]
  IN IF c.stop \/ c.phase = "stopping" THEN Decide(c, {})
     ELSE IF req.status = "success" /\ c.pushed /\ req.publishes
          THEN Decide(Enter(c, "publishing"), {})
          ELSE Decide(Enter(c, "idle"), {})

(* completeDecision: a runner reports the end of turn t.  req is a record  *)
(* [status, pushed, publishes]: TurnCompleteRequest.Status (with "error" and *)
(* "pushFailed" for the codes of an error), .Pushed, publishesTurn(request). *)
completeDecision(s, rows, t, req) ==
  LET c == [s EXCEPT !.last = t, !.turn = None,
                     !.pushed = @ \/ req.pushed,
                     !.branch = @ \/ req.pushed,
                     !.existing = @ \/ req.pushed]
  IN IF c.stop \/ c.phase = "stopping" THEN Decide(c, {})
     ELSE CASE req.status = "success" ->
                 Decide(Enter(c, IF c.pushed /\ req.publishes
                                 THEN "publishing" ELSE "idle"), {})
            [] req.status = "awaitingInput" -> Decide(Enter(c, "awaitingUser"), {})
            [] req.status = "stopped" ->
                 Decide(Enter([c EXCEPT !.stop = TRUE], "stopping"), {})
            [] req.status = "pushFailed" ->
                 Fail(c, {}, rows, "pullRequestFailed")
            [] OTHER -> Fail(c, {}, rows, "failed")

=============================================================================
