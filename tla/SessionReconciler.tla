-------------------------- MODULE SessionReconciler --------------------------
(***************************************************************************)
(* The session reconciler (api/internal/coding/reconcile.go) with the      *)
(* executors behind its actions (executor.go).  One pass leases and reads  *)
(* the session, observes the sandboxes and decides with Step, provisions   *)
(* or publishes, runs the sandbox actions, and only then writes its        *)
(* decision if the session is still at the version it read.                *)
(*                                                                         *)
(* The 30 s lease keeps passes of two replicas apart except when a pass    *)
(* outlives it; two Reconcilers model that case.                           *)
(***************************************************************************)
EXTENDS SessionStore

(* What a pass may observe besides the rows and the inbox.  Step looks at  *)
(* these facts in a fixed order and the first one that matters decides, so *)
(* one fact at a time covers every decision.                               *)
Fact == {"nothing", "late", "grace", "silent", "capped", "refused",
         "capacity", "badSnapshot"}

Observe(s, fact) ==
  [ rows        |-> rows,
    late        |-> fact = "late",
    grace       |-> fact = "grace",
    silent      |-> fact = "silent",
    capped      |-> fact = "capped",
    enabled     |-> fact # "refused",
    quota       |-> fact = "refused",
    capacity    |-> fact = "capacity",
    badSnapshot |-> fact = "badSnapshot",
    pending     |-> s.phase \in {"idle", "awaitingUser"}
                    /\ PendingCodingTurns ]

(* A slip: a stopping session is taken for a finished one.                 *)
LeaseActive(r) ==
  /\ Idle(r)
  /\ session.phase \notin {"stopping", "done"}
  /\ Read(r, [NoOp EXCEPT !.kind = "reconcile", !.pc = "read"])
  /\ UNCHANGED <<rows, inbox, recorded, runner>>

(* LeaseCodingSessions: done sessions are not leased.                      *)
Lease(r) ==
  /\ Idle(r)
  /\ session.phase # "done"
  /\ Read(r, [NoOp EXCEPT !.kind = "reconcile", !.pc = "read"])
  /\ UNCHANGED <<rows, inbox, recorded, runner>>

(* The stage that follows a decision.                                      *)
NextStage(acts) ==
  IF Provision \in acts THEN "provision"
  ELSE IF Publish \in acts THEN "publish"
  ELSE IF acts # {} THEN "effects" ELSE "commit"

StepOnce(r, fact) ==
  /\ At(r, "reconcile", "read")
  /\ LET s == op[r].s
         d == Step(s, Observe(s, fact))
     IN IF d = Decide(s, {})
        THEN Forget(r)
        ELSE /\ op' = [op EXCEPT
                    ![r].s = d.s, ![r].acts = d.acts,
                    ![r].rows = IF {Provision, Publish} \cap d.acts # {}
                                THEN rows ELSE NoRows,
                    ![r].pc = NextStage(d.acts)]
             /\ UNCHANGED fresh
  /\ UNCHANGED <<session, rows, inbox, recorded, runner>>

(* The decision d replaces what the pass had decided.                      *)
Decided(r, d) ==
  op' = [op EXCEPT ![r].s = d.s, ![r].acts = d.acts, ![r].rows = NoRows,
                   ![r].pc = NextStage(d.acts)]

(* provision: environment, code host, policy and snapshot lookups may fail *)
(* or ask for a choice; otherwise a live sandbox that the pass saw is used *)
(* again, or a new row is created.  Create covers binding a warm sandbox.  *)
Reusable(seen) ==
  {b \in Sandboxes : seen[b].desired = "running" /\ liveSandbox(seen[b])}

Newest(S) == {b \in S : \A c \in S : c <= b}

Unused == {b \in Sandboxes : ~exists(rows[b])}

NextID == {b \in Unused : \A c \in Unused : b <= c}

(* A slip: every pass creates its own sandbox.                             *)
ProvisionAlwaysNew(s, seen) ==
  {[kind |-> k, box |-> None] : k \in {"transient", "failed"}}
  \cup {[kind |-> "sandbox", box |-> b] :
      b \in NextID}

ProvisionOutcome(s, seen) ==
  {[kind |-> k, box |-> None] :
      k \in {"transient", "failed"}
           \cup (IF s.env \/ "select" \notin Ops THEN {} ELSE {"select"})}
  \cup {[kind |-> "sandbox", box |-> b] :
      b \in IF Reusable(seen) # {} THEN Newest(Reusable(seen)) ELSE NextID}

(* resolveSnapshot: after a failed restore the retry runs setup inline.    *)
Restorable(s) ==
  IF "snapshot" \in Ops /\ ~(s.starts > 0 /\ ~s.snapshot)
  THEN BOOLEAN ELSE {FALSE}

NewRow == [desired |-> "running", live |-> TRUE, token |-> "none"]

provision(r) ==
  /\ At(r, "reconcile", "provision")
  /\ LET s    == op[r].s
         seen == op[r].rows
         acts == op[r].acts \ {Provision}
     IN \E outcome \in ProvisionOutcome(s, seen), restored \in Restorable(s) :
          /\ Decided(r, AfterProvision(s, acts, seen, outcome, restored))
          /\ rows' = [b \in Sandboxes |->
                        IF b \in Unused /\ outcome.box = b THEN NewRow
                                                          ELSE rows[b]]
  /\ UNCHANGED <<session, inbox, recorded, runner, fresh>>

publish(r) ==
  /\ At(r, "reconcile", "publish")
  /\ \E outcome \in {"pr", "transient", "refused", "failed"} :
       Decided(r, AfterPublish(op[r].s, op[r].rows, outcome))
  /\ UNCHANGED <<session, rows, inbox, recorded, runner, fresh>>

(* A slip: the write does not compare versions.                            *)
CommitBlind(r) ==
  /\ At(r, "reconcile", "commit")
  /\ Write(op[r].s) /\ Return(r)
  /\ UNCHANGED <<rows, inbox, recorded, runner>>

(* commit: a version conflict ends the pass, the next one looks again.     *)
CommitPass(r) ==
  /\ At(r, "reconcile", "commit")
  /\ IF fresh[r] /\ op[r].s # session
     THEN Write(op[r].s) /\ Return(r)
     ELSE Forget(r) /\ UNCHANGED session
  /\ UNCHANGED <<rows, inbox, recorded, runner>>

ReconcilerNext ==
  \E r \in Reconcilers :
    \/ Lease(r) \/ (\E fact \in Fact : StepOnce(r, fact))
    \/ provision(r) \/ publish(r)
    \/ At(r, "reconcile", "effects") /\ RunSandboxActions(r)
    \/ CommitPass(r)

=============================================================================
