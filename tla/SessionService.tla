--------------------------- MODULE SessionService ---------------------------
(***************************************************************************)
(* The calls of people, triggers and metering on a session                 *)
(* (api/internal/coding/service.go).  A call that is one UpdateCodingSession *)
(* is one action; the store retries its CAS, so it acts on the current     *)
(* document.  The others check a copy first, touch the inbox, the sandboxes *)
(* or the code host, and write afterwards: one action for each stage.      *)
(***************************************************************************)
EXTENDS SessionStore

(* Stop.  Pressing it again moves the version again.                       *)
StopSession ==
  /\ "stop" \in Ops
  /\ session.stop => "stopAgain" \in Ops
  /\ session.phase # "done"
  /\ Write([session EXCEPT !.stop = TRUE])
  /\ UNCHANGED <<rows, inbox, recorded, runner, op>>

(* Approve, with reject; Dismiss of a pending approval is a rejection.     *)
Approve(reject) ==
  /\ "approve" \in Ops
  /\ session.phase = "awaitingApproval"
  /\ Write(IF reject
           THEN Enter([session EXCEPT !.rejected = TRUE], "done")
           ELSE Enter(session, "queued"))
  /\ UNCHANGED <<rows, inbox, recorded, runner, op>>

(* Archive: an idle session ends, without Enter or finish; a busy one is   *)
(* stopped.                                                                *)
EndIdle(s) == [s EXCEPT !.phase = "done", !.state = "complete", !.ended = TRUE]

archive(s) ==
  LET a == [s EXCEPT !.archived = TRUE]
  IN CASE s.phase = "done" -> a
       [] s.phase = "idle" -> EndIdle(a)
       [] OTHER            -> [a EXCEPT !.stop = TRUE]

Archive ==
  /\ "archive" \in Ops
  /\ ~session.archived
  /\ Write(archive(session))
  /\ UNCHANGED <<rows, inbox, recorded, runner, op>>

(* The webhook of a pull request of the session: merged, it ends an idle   *)
(* session; closed, it archives the session.                               *)
dispatchPullRequest ==
  /\ "webhook" \in Ops
  /\ session.pr
  /\ \/ Write(IF session.phase = "idle" THEN EndIdle(session) ELSE session)
     \/ ~session.archived /\ Write(archive(session))
  /\ UNCHANGED <<rows, inbox, recorded, runner, op>>

-----------------------------------------------------------------------------
(* Prompt: a follow-up turn.  The phase is checked on a copy, the turn is  *)
(* enqueued, then the session is updated.                                  *)

AwaitsSelection(s) == s.phase = "awaitingUser" /\ ~s.env /\ s.sandbox = None

Prompt(h, t) ==
  /\ "prompt" \in Ops
  /\ Idle(h)
  /\ session.phase \notin {"awaitingApproval", "stopping"}
  /\ ~AwaitsSelection(session)
  /\ ~InInbox(t)
  /\ op' = [op EXCEPT ![h] = [NoOp EXCEPT !.kind = "prompt", !.pc = "enqueue",
                                          !.turn = t]]
  /\ UNCHANGED <<session, rows, inbox, recorded, runner, fresh>>

PromptEnqueue(h) ==
  /\ At(h, "prompt", "enqueue")
  /\ IF InInbox(op[h].turn) \/ Len(inbox) < MaxInbox
     THEN /\ \E pending \in IF "scope" \in Ops THEN BOOLEAN ELSE {FALSE} :
               inbox' = EnqueueTurn(op[h].turn, pending)
          /\ op' = [op EXCEPT ![h].pc = "update", ![h].rec = recorded]
     ELSE Return(h) /\ UNCHANGED inbox
  /\ UNCHANGED <<session, rows, recorded, runner, fresh>>

PromptUpdate(h) ==
  /\ At(h, "prompt", "update")
  /\ Write(IF \/ session.phase = "done"
              \/ session.phase = "awaitingUser" /\ session.sandbox = None
           THEN resetForTurn(session, op[h].rec)
           ELSE session)
  /\ Return(h)
  /\ UNCHANGED <<rows, inbox, recorded, runner>>

(* settleTurnScope, in the background; it is lost if the API restarts.     *)
settleTurnScope(i) ==
  /\ i \in UndeliveredCodingInbox /\ inbox[i].pending
  /\ inbox' = [inbox EXCEPT ![i].pending = FALSE]
  /\ UNCHANGED <<session, rows, recorded, runner, op, fresh>>

(* The answer to the repository selection: it picks the environment.       *)
Answer(h) ==
  /\ "select" \in Ops
  /\ Idle(h)
  /\ AwaitsSelection(session)
  /\ op' = [op EXCEPT ![h] = [NoOp EXCEPT !.kind = "answer", !.pc = "update"]]
  /\ UNCHANGED <<session, rows, inbox, recorded, runner, fresh>>

AnswerUpdate(h) ==
  /\ At(h, "answer", "update")
  /\ IF session.phase = "awaitingUser"
     THEN Write(Enter([session EXCEPT !.env = TRUE], "queued")) /\ Return(h)
     ELSE Forget(h) /\ UNCHANGED session
  /\ UNCHANGED <<rows, inbox, recorded, runner>>

-----------------------------------------------------------------------------
(* Restart and StartOver: a copy of the last (first) turn is enqueued if   *)
(* no turn is pending, then the finished session is queued again.          *)

HasTurn == \E i \in DOMAIN inbox : inbox[i].kind = "turn"

Restart(h, t) ==
  /\ "restart" \in Ops
  /\ Idle(h)
  /\ session.phase = "done" /\ ~session.rejected
  /\ HasTurn /\ ~InInbox(t)
  /\ op' = [op EXCEPT ![h] = [NoOp EXCEPT !.kind = "restart",
                                          !.pc = "enqueue", !.turn = t]]
  /\ UNCHANGED <<session, rows, inbox, recorded, runner, fresh>>

(* StartOver of an idle session drains its sandbox first.                  *)
StartOver(h, t) ==
  /\ "startOver" \in Ops
  /\ Idle(h)
  /\ session.phase \in {"done", "idle"} /\ ~session.rejected
  /\ HasTurn /\ ~InInbox(t)
  /\ Read(h, [NoOp EXCEPT !.kind = "restart", !.turn = t,
                          !.pc = IF session.phase = "idle"
                                 THEN "finish" ELSE "enqueue"])
  /\ UNCHANGED <<rows, inbox, recorded, runner>>

StartOverFinish(h) ==
  /\ At(h, "restart", "finish")
  /\ LET d == finish(op[h].s, {}, rows)
     IN op' = [op EXCEPT ![h].s = d.s, ![h].acts = d.acts, ![h].pc = "effects"]
  /\ UNCHANGED <<session, rows, inbox, recorded, runner, fresh>>

StartOverCommit(h) ==
  /\ At(h, "restart", "commit")
  /\ IF fresh[h]
     THEN /\ Write(op[h].s)
          /\ op' = [op EXCEPT ![h].pc = "enqueue", ![h].s = NewSession]
     ELSE Forget(h) /\ UNCHANGED session
  /\ UNCHANGED <<rows, inbox, recorded, runner>>

RestartEnqueue(h) ==
  /\ At(h, "restart", "enqueue")
  /\ inbox' = IF PendingCodingTurns THEN inbox ELSE EnqueueTurn(op[h].turn, FALSE)
  /\ op' = [op EXCEPT ![h].pc = "update", ![h].rec = recorded]
  /\ UNCHANGED <<session, rows, recorded, runner, fresh>>

RestartUpdate(h) ==
  /\ At(h, "restart", "update")
  /\ IF session.phase = "done"
     THEN Write(resetForTurn(session, op[h].rec)) /\ Return(h)
     ELSE Forget(h) /\ UNCHANGED session
  /\ UNCHANGED <<rows, inbox, recorded, runner>>

-----------------------------------------------------------------------------
(* FailSession: metering, or a prompt over quota, ends the session.  After *)
(* a version conflict it looks again, or gives up after five of them.      *)

FailSession(h) ==
  /\ "fail" \in Ops
  /\ Idle(h)
  /\ session.phase # "done"
  /\ Read(h, [NoOp EXCEPT !.kind = "fail", !.pc = "read"])
  /\ UNCHANGED <<rows, inbox, recorded, runner>>

FailDecide(h) ==
  /\ At(h, "fail", "read")
  /\ LET d == Fail(op[h].s, {}, rows, "failed")
     IN op' = [op EXCEPT ![h].s = d.s, ![h].acts = d.acts, ![h].pc = "effects"]
  /\ UNCHANGED <<session, rows, inbox, recorded, runner, fresh>>

FailCommit(h) ==
  /\ At(h, "fail", "commit")
  /\ IF fresh[h] THEN Write(op[h].s) /\ Return(h)
     ELSE \/ Forget(h) /\ UNCHANGED session
          \/ /\ session.phase # "done"
             /\ Read(h, [NoOp EXCEPT !.kind = "fail", !.pc = "read"])
  /\ UNCHANGED <<rows, inbox, recorded, runner>>

-----------------------------------------------------------------------------
(* CreatePullRequest: opens the pull request, then records it.             *)

CreatePullRequest(h) ==
  /\ "createPR" \in Ops
  /\ Idle(h)
  /\ session.pushed \/ session.existing \/ session.pr \/ recorded
  /\ session.phase \in {"idle", "done", "awaitingUser"}
  /\ op' = [op EXCEPT ![h] = [NoOp EXCEPT !.kind = "createPR",
                                          !.pc = "update"]]
  /\ UNCHANGED <<session, rows, inbox, recorded, runner, fresh>>

(* A slip: the error goes, the state stays.                                *)
CreatePullRequestKeepsState(h) ==
  /\ At(h, "createPR", "update")
  /\ Write([session EXCEPT !.pr = TRUE,
                           !.error = IF @ = "pullRequestFailed" THEN "" ELSE @])
  /\ Return(h)
  /\ UNCHANGED <<rows, inbox, recorded, runner>>

CreatePullRequestUpdate(h) ==
  /\ At(h, "createPR", "update")
  /\ LET s == [session EXCEPT !.pr = TRUE]
     IN Write(IF s.error = "pullRequestFailed"
              THEN [s EXCEPT !.error = "", !.state = TerminalState("", s.stop)]
              ELSE s)
  /\ Return(h)
  /\ UNCHANGED <<rows, inbox, recorded, runner>>

ServiceNext ==
  \/ StopSession \/ Archive \/ dispatchPullRequest
  \/ \E reject \in BOOLEAN : Approve(reject)
  \/ \E i \in DOMAIN inbox : settleTurnScope(i)
  \/ \E h \in Handlers :
       \/ \E t \in Turns : Prompt(h, t) \/ Restart(h, t) \/ StartOver(h, t)
       \/ PromptEnqueue(h) \/ PromptUpdate(h)
       \/ Answer(h) \/ AnswerUpdate(h)
       \/ StartOverFinish(h) \/ StartOverCommit(h)
       \/ RestartEnqueue(h) \/ RestartUpdate(h)
       \/ FailSession(h) \/ FailDecide(h) \/ FailCommit(h)
       \/ CreatePullRequest(h) \/ CreatePullRequestUpdate(h)
       \/ op[h].kind \in {"restart", "fail"} /\ RunSandboxActions(h)

=============================================================================
