------------------------------- MODULE Phases -------------------------------
(***************************************************************************)
(* The phase tables of a coding session (api/internal/coding/phases.go):   *)
(* the phases, the user-visible state each of them implies, the phase      *)
(* changes CanTransition allows and the state a finished session settles   *)
(* in.  Durations are not modelled: a phase either has a deadline or not.  *)
(***************************************************************************)

(* The phases, in the order of PhasePolicies. *)
Phase == {"awaitingApproval", "queued", "provisioning", "starting", "setup",
          "running", "awaitingUser", "publishing", "idle", "stopping", "done"}

State == {"awaitingInput", "pending", "active", "stopping",
          "complete", "error", "stale"}

(* The error codes the session machine tells apart: no error, a code that  *)
(* CreatePullRequest clears again, and every other code.                   *)
ErrorCode == {"", "pullRequestFailed", "failed"}

(* PhasePolicy.State; "done" has no entry, TerminalState decides there.    *)
PolicyState ==
  [ p \in Phase \ {"done"} |->
      CASE p \in {"awaitingApproval", "awaitingUser"}     -> "awaitingInput"
        [] p \in {"queued", "provisioning", "starting"}   -> "pending"
        [] p \in {"setup", "running", "publishing"}       -> "active"
        [] p = "idle"                                     -> "complete"
        [] p = "stopping"                                 -> "stopping" ]

(* PhasePolicy.OnTimeout, as far as ErrorCode tells codes apart.           *)
OnTimeout == [ p \in Phase |->
                 CASE p = "publishing"                   -> "pullRequestFailed"
                   [] p \in {"idle", "stopping", "done"} -> ""
                   [] OTHER                              -> "failed" ]

(* A slip: the table gives setup no timeout.                               *)
TimedWithoutSetup == Phase \ {"setup", "done"}

(* The phases whose policy has a timeout, hence a deadline.                *)
Timed == Phase \ {"done"}

transitions ==
  {<<"awaitingApproval", "queued">>,
   <<"queued", "provisioning">>,
   <<"provisioning", "starting">>, <<"provisioning", "awaitingUser">>,
   <<"starting", "setup">>, <<"starting", "running">>,
   <<"starting", "provisioning">>,
   <<"setup", "running">>,
   <<"running", "awaitingUser">>, <<"running", "publishing">>,
   <<"running", "idle">>,
   <<"awaitingUser", "running">>, <<"awaitingUser", "queued">>,
   <<"publishing", "idle">>, <<"publishing", "running">>,
   <<"idle", "running">>, <<"idle", "queued">>,
   <<"stopping", "done">>,
   <<"done", "queued">>}

CanTransition(from, to) ==
  \/ from \notin {"done", "stopping"} /\ to \in {"stopping", "done"}
  \/ <<from, to>> \in transitions

(* A slip: the stop is looked at before the error.                         *)
TerminalStateStopFirst(errorCode, stoppedByUser) ==
  IF stoppedByUser THEN "stale"
  ELSE IF errorCode # "" THEN "error"
  ELSE "complete"

TerminalState(errorCode, stoppedByUser) ==
  IF errorCode # "" THEN "error"
  ELSE IF stoppedByUser THEN "stale"
  ELSE "complete"

=============================================================================
