--------------------------- MODULE CodingSessions ---------------------------
(***************************************************************************)
(* A coding session with everything that acts on it: the reconcilers, the  *)
(* calls of people and triggers, the runner API, the runners and their     *)
(* sandboxes.                                                              *)
(***************************************************************************)
EXTENDS SessionReconciler, SessionService, RunnerRuntime

(* Start: the document is written and its first turn enqueued.  A session  *)
(* that needs approval waits for it.                                       *)
Starts ==
  {NewSession} \cup
  (IF "approve" \in Ops THEN {Enter(NewSession, "awaitingApproval")} ELSE {})

Init ==
  /\ session \in Starts
  /\ rows = NoRows
  /\ inbox \in {<<TurnItem(t, FALSE)>> : t \in Turns}
  /\ recorded = FALSE
  /\ runner = [b \in Sandboxes |-> NoRunner]
  /\ op = [p \in Procs |-> NoOp]
  /\ fresh = [p \in Procs |-> FALSE]

Next ==
  \/ ReconcilerNext \/ ServiceNext \/ RuntimeNext
  \/ \E p \in Procs : Crash(p)

Spec == Init /\ [][Next]_vars

-----------------------------------------------------------------------------
(* Types. *)

Request ==
  [ status : {"none", "success", "awaitingInput", "stopped", "error",
              "pushFailed"},
    pushed : BOOLEAN, publishes : BOOLEAN ]

CallInFlight ==
  [ kind : {"none", "reconcile", "prompt", "answer", "restart", "fail",
            "createPR", "bootstrap", "complete", "heartbeat", "events",
            "inbox"},
    pc : {"idle", "read", "provision", "publish", "effects", "commit",
          "enqueue", "update", "finish", "pick", "mark"},
    s : Session, acts : SUBSET Action, rows : [Sandboxes -> Row],
    box : Sandboxes \cup {None}, turn : Turns \cup {None},
    req : Request, rec : BOOLEAN ]

Item ==
  [ kind : {"turn"}, id : Turns, delivered : BOOLEAN, pending : BOOLEAN ]
    \cup [ kind : {"stop"}, id : Sandboxes \cup {None},
           delivered : BOOLEAN, pending : BOOLEAN ]

Runner ==
  [ st : {"off", "boot", "prep", "loop", "last", "gone"}, after : Nat,
    queue : Seq(Turns), seen : SUBSET Turns, cur : Turns \cup {None},
    asked : {"no", "asked", "posted"}, req : Request, stop : BOOLEAN ]

(* Every variable has its type: in particular no start is retried more     *)
(* than StartRetries times, whichever path leads to it.                    *)
TypeOK ==
  /\ session \in Session
  /\ rows \in [Sandboxes -> Row]
  /\ inbox \in Seq(Item)
  /\ recorded \in BOOLEAN
  /\ runner \in [Sandboxes -> Runner]
  /\ op \in [Procs -> CallInFlight]
  /\ fresh \in [Procs -> BOOLEAN]

-----------------------------------------------------------------------------
(* Safety. *)

(* What a session document shows agrees with itself: the state is the one  *)
(* of its phase, an unfinished session has a deadline and no end, a        *)
(* finished one has an end, is in error exactly if it carries an error     *)
(* code, and an error code is only on a session that is ending.  Enter,    *)
(* finish, Archive and CreatePullRequest each write a part of this.        *)
CoherentSession(s) ==
  /\ s.phase # "done" => /\ s.state = PolicyState[s.phase]
                         /\ s.deadline /\ ~s.ended
  /\ s.phase = "done" => /\ s.state \in {"complete", "error", "stale"}
                         /\ s.ended
                         /\ s.state = "error" <=> s.error # ""
  /\ s.error # "" => s.phase \in {"stopping", "done"}
  /\ s.error = "pullRequestFailed" => s.phase = "done"

Coherent == CoherentSession(session)

(* A session that starts, prepares or runs names a sandbox row that        *)
(* exists, although the row is created before the pass writes the session  *)
(* and that write may be lost: currentSandbox always finds it.             *)
SandboxNamed ==
  session.phase \in {"starting", "setup", "running"} =>
    session.sandbox \in Sandboxes /\ exists(rows[session.sandbox])

(* The current turn is a turn of the inbox that carries its delivered      *)
(* stamp: currentOrNextTurn and inboxItems stamp a turn before the session *)
(* names it, so no turn is handed out twice.                               *)
CurrentTurnDelivered ==
  session.turn # None =>
    \E i \in DOMAIN inbox :
      inbox[i].kind = "turn" /\ inbox[i].id = session.turn /\ inbox[i].delivered

(* No late or repeated call of a runner makes the turn current again that  *)
(* CompleteTurn completed last.                                            *)
NoTurnReopened == session.turn # None => session.turn # session.last

(* A runner that serves the session works on the session's current turn,   *)
(* so CompleteTurn will take what it reports; inboxItems holds the next    *)
(* turn back until then.  (A stopping session takes no turn back; a        *)
(* completed turn is reported again when the answer was lost.)             *)
RunnerOnCurrentTurn ==
  \A b \in Sandboxes :
    (/\ runner[b].st \in {"prep", "loop"} /\ runner[b].cur # None
     /\ Serves(b) /\ session.phase # "stopping"
     /\ session.last # runner[b].cur) =>
    session.turn = runner[b].cur

(* At most one sandbox of a session is wanted and alive: a pass whose      *)
(* predecessor created a sandbox and died before it wrote the session      *)
(* takes that sandbox over (provision).                                    *)
OneSandbox == \A b, c \in Reusable(rows) : b = c

(* Turns are delivered in the order in which they were enqueued, by        *)
(* bootstraps and inbox calls of several runners together.                 *)
DeliveredInOrder ==
  [][\A i \in DOMAIN inbox :
       undelivered(i) /\ inbox'[i].delivered =>
         \A j \in 1 .. (i - 1) : ~undelivered(j)]_inbox

(* When a session has ended no sandbox of it is wanted and no runner token *)
(* is accepted: finish stops and revokes before the end is written, and a  *)
(* pass that would undo it loses its CAS.                                  *)
EndedUnwanted ==
  session.phase = "done" =>
    \A b \in Sandboxes : rows[b].desired # "running" /\ rows[b].token # "valid"

(* An ended session leaves done only for the queue, with its error, stop   *)
(* request and sandbox cleared (resetForTurn): no stale pass, runner call  *)
(* or event revives it.                                                    *)
EndedForGood ==
  [][session.phase = "done" /\ session'.phase # "done" =>
       /\ session'.phase = "queued" /\ session'.sandbox = None
       /\ session'.error = "" /\ ~session'.stop]_session

(* A stop request stays until the session has ended; only a new turn for   *)
(* an ended session, or for one that waits without a sandbox, clears it.   *)
(* Passes, completions and events that read the session before the request *)
(* do not write over it.                                                   *)
StopKept ==
  [][session.stop /\ ~session'.stop =>
       \/ session.phase = "done"
       \/ session.phase = "awaitingUser" /\ session.sandbox = None]_session

(* A session in the queue, or being provisioned, names no sandbox and no   *)
(* turn: the late answer of a runner of an earlier sandbox, and the calls  *)
(* that queue a session again, leave nothing of the earlier sandbox.       *)
QueuedClean ==
  session.phase \in {"queued", "provisioning"} =>
    session.sandbox = None /\ session.turn = None

(* A completion is applied to the turn that was current, once: when        *)
(* LastTurnID changes it takes the value of CurrentTurnID, although calls  *)
(* are repeated and answers lost.                                          *)
CompletionOfCurrent ==
  [][session'.last # session.last => session'.last = session.turn]_session

-----------------------------------------------------------------------------
(* Liveness. *)

(* The stages of a call that has begun; new calls need not come.           *)
Continues(p) ==
  \/ \E fact \in Fact : StepOnce(p, fact)
  \/ provision(p) \/ publish(p) \/ CommitPass(p)
  \/ op[p].kind # "none" /\ RunSandboxActions(p)
  \/ PromptEnqueue(p) \/ PromptUpdate(p) \/ AnswerUpdate(p)
  \/ StartOverFinish(p) \/ StartOverCommit(p)
  \/ RestartEnqueue(p) \/ RestartUpdate(p)
  \/ FailDecide(p) \/ FailCommit(p) \/ CreatePullRequestUpdate(p)
  \/ BootstrapPick(p) \/ MarkPicked(p) \/ BootstrapUpdate(p)
  \/ CompleteDecide(p) \/ CompleteCommit(p)
  \/ FinishSetup(p) \/ EventsUpdate(p) \/ InboxPick(p) \/ InboxUpdate(p)

(* Passes are leased again and again, calls that began are finished, and a *)
(* phase that does not end is seen late at last.                           *)
PassFairness ==
  /\ \A r \in Reconcilers : /\ WF_vars(Lease(r))
                            /\ SF_vars(StepOnce(r, "late"))
  /\ \A p \in Procs : WF_vars(Continues(p))

(* A runner that lives beats, hears that it should stop, and then leaves   *)
(* its turn; the provider starts what is wanted and sees what ended.       *)
RunnerFairness ==
  \A b \in Sandboxes :
    /\ WF_vars(SandboxUp(b)) /\ WF_vars(ObserveEnd(b))
    /\ WF_vars(BootstrapGone(b)) /\ WF_vars(Prepared(b))
    /\ WF_vars(HeartbeatStop(b))
    /\ WF_vars(runner[b].stop /\ (EndTurn(b) \/ TakeNext(b)))
    /\ WF_vars(CompleteRefused(b)) /\ WF_vars(CompleteLate(b))

PassSpec == Spec /\ PassFairness

FairSpec == Spec /\ PassFairness /\ RunnerFairness

(* A session that works reaches a phase in which it waits for a person or  *)
(* has ended, whatever its runner and its sandbox do or fail to do: every  *)
(* phase in between has a deadline that some pass acts on.                 *)
NeverStuck ==
  session.phase \notin {"awaitingApproval", "awaitingUser", "idle", "done"} ~>
    session.phase \in {"awaitingApproval", "awaitingUser", "idle", "done"}

(* A session whose stop was requested ends (unless a new turn cleared the  *)
(* request), even if the runner never reacts.                              *)
StopEnds == session.stop ~> (session.phase = "done" \/ ~session.stop)

(* No sandbox of an ended session lives on: where the end was written      *)
(* without stopping it, or stopping it failed, the runner hears of the end *)
(* from the API and leaves.                                                *)
DoneDrains ==
  session.phase = "done" ~>
    (session.phase # "done" \/ \A b \in Sandboxes : ~rows[b].live)
=============================================================================
