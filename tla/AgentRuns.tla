----------------------------- MODULE AgentRuns ------------------------------
(***************************************************************************)
(* One agent run on the run queue: its row and its leases                  *)
(* (api/internal/store/agent_runs.go, api/cmd/server/agent_runtime_api.go),*)
(* the worker processes that claim and execute it                          *)
(* (agent-worker/src/queue-worker.ts) with their cancel long-poll          *)
(* (agent-worker/src/runtime-client.ts), the write tools it calls          *)
(* (api/cmd/server/agent_run_tokens.go), the reconciler that releases      *)
(* expired leases, and the people who cancel it.                           *)
(*                                                                         *)
(* A claim opens an attempt, and exec[e] is what its worker executes for   *)
(* attempt e.  A worker may claim a run again that it still executes.  The *)
(* API knows a caller by the worker's id only.  Any answer may be lost.    *)
(***************************************************************************)
EXTENDS Integers, FiniteSets

CONSTANTS
  Workers,       \* FLOW_WORKER_ID of the worker processes
  Reconcilers,   \* API processes that release expired leases
  Cancellers,    \* calls of CancelAgentRun, one each
  MaxAttempts,   \* agentRuntimeMaxAttempts
  None           \* no worker

ASSUME AgentRunConstants == None \notin Workers /\ MaxAttempts \in Nat \ {0}

VARIABLES
  run,        \* the row; `valid`: lease_until lies in the future
  tokens,     \* attempts whose run token is not revoked
  exec,       \* the executions
  call,       \* the write call that the API serves for some attempt (one at a time)
  sessions,   \* the attempt whose session a worker's map holds for the run, or 0
  stopping,   \* the run is in the `stopping` set of a worker's CancelWatcher
  rec,        \* the reconcilers: the status that a read row is to get, or what else they do
  cancels,    \* the cancel calls
  landed,     \* attempts of which a write took effect
  slow        \* some lease expired while an execution or its call went on

workerVars == <<exec, sessions, stopping>>
ghosts == <<landed, slow>>
vars == <<run, tokens, workerVars, call, rec, cancels, ghosts>>

Attempts == 1 .. MaxAttempts
Final == {"done", "failed", "canceled", "interrupted"}

(* "held" stands for the statuses leased and running, which every          *)
(* statement treats alike.                                                 *)
Statuses == {"queued", "held", "awaiting"} \cup Final

NoExec == [pc |-> "none", worker |-> None, stop |-> FALSE]
NoCall == [by |-> 0, at |-> "none"]

(* The variables have their types; no run is handed out more often than    *)
(* its attempts allow (ReleaseExpiredAgentRuns, the decision).             *)
TypeOK ==
  /\ run \in [status : Statuses, owner : Workers \cup {None}, attempts : 0 .. MaxAttempts,
              cancel : BOOLEAN, wrote : BOOLEAN, valid : BOOLEAN]
  /\ tokens \in SUBSET Attempts
  /\ exec \in [Attempts -> [pc : {"none", "token", "begin", "run", "complete", "failing", "gone"},
                            worker : Workers \cup {None}, stop : BOOLEAN]]
  /\ call \in [by : 0 .. MaxAttempts, at : {"none", "authed", "marked"}]
  /\ sessions \in [Workers -> 0 .. MaxAttempts]
  /\ stopping \in [Workers -> BOOLEAN]
  /\ rec \in [Reconcilers -> {"idle", "queued", "canceled", "interrupted", "revoke"}]
  /\ cancels \in [Cancellers -> {"idle", "second", "done"}]
  /\ landed \in SUBSET Attempts
  /\ slow \in BOOLEAN

Init ==
  /\ run = [status |-> "queued", owner |-> None, attempts |-> 0, cancel |-> FALSE, wrote |-> FALSE, valid |-> FALSE]
  /\ tokens = {} /\ landed = {} /\ slow = FALSE /\ call = NoCall
  /\ exec = [e \in Attempts |-> NoExec]
  /\ sessions = [w \in Workers |-> 0]
  /\ stopping = [w \in Workers |-> FALSE]
  /\ rec = [r \in Reconcilers |-> "idle"]
  /\ cancels = [c \in Cancellers |-> "idle"]

-----------------------------------------------------------------------------
(* The row.  A caller holds the run when the row names its worker.         *)
Held == run.status = "held"

Holds(e) == Held /\ run.owner = exec[e].worker

(* A release writes if the row has the status and owner that were read and *)
(* its lease is older than the read.  So whoever changes one of these      *)
(* makes the updates void of all who read before.                          *)
Released == {"queued", "canceled", "interrupted"}

Voided == [r \in Reconcilers |-> IF rec[r] \in Released THEN "idle" ELSE rec[r]]

VoidReleases == rec' = Voided

(* ClaimAgentRuns: the CAS on the status opens the next attempt.  The      *)
(* answer may not reach the worker.                                        *)
Claim(w, heard) ==
  /\ run.status = "queued"
  /\ run' = [run EXCEPT !.status = "held", !.owner = w, !.attempts = @ + 1, !.cancel = FALSE, !.valid = TRUE]
  /\ exec' = [exec EXCEPT ![run.attempts + 1] =
                [NoExec EXCEPT !.pc = IF heard THEN "token" ELSE "gone", !.worker = w]]
  /\ VoidReleases
  /\ UNCHANGED <<call, tokens, sessions, stopping, cancels, ghosts>>

(* A slip: the update does not ask who holds the run.                      *)
FinishUnheld(e, s) ==
  /\ run' = [run EXCEPT !.status = s, !.owner = None, !.valid = FALSE]
  /\ tokens' = {}
  /\ VoidReleases

(* FinishAgentRun, for the worker of e, with status s.                     *)
FinishAgentRun(e, s) ==
  /\ Holds(e)
  /\ run' = [run EXCEPT !.status = s, !.owner = None, !.valid = FALSE]
  /\ tokens' = {}
  /\ VoidReleases

Unfinished == UNCHANGED <<run, tokens, rec>>

-----------------------------------------------------------------------------
(* The execution of an attempt.                                            *)
Alive(e) == exec[e].pc \notin {"none", "gone"}

Gone(x) == [NoExec EXCEPT !.pc = "gone", !.worker = x.worker]

Dies(w) ==
  /\ exec' = [e \in Attempts |-> IF Alive(e) /\ exec[e].worker = w THEN Gone(exec[e]) ELSE exec[e]]
  /\ sessions' = [sessions EXCEPT ![w] = 0]
  /\ stopping' = [stopping EXCEPT ![w] = FALSE]

Step(e, pc) == exec' = [exec EXCEPT ![e].pc = pc]

(* The token, then the payload.  A token that cannot be had rejects        *)
(* execute, which nobody handles: the process ends with all it executes.   *)
Token(e) ==
  /\ exec[e].pc = "token"
  /\ \/ /\ Holds(e)
        /\ tokens' = tokens \cup {e}
        /\ Step(e, "begin")
        /\ sessions' = [sessions EXCEPT ![exec[e].worker] = e]
        /\ UNCHANGED stopping
     \/ Dies(exec[e].worker) /\ UNCHANGED tokens
  /\ UNCHANGED <<call, run, rec, cancels, ghosts>>

(* The turn has its AbortController: from now on it can be stopped.        *)
Begin(e) ==
  /\ exec[e].pc = "begin"
  /\ Step(e, "run")
  /\ UNCHANGED <<call, run, tokens, sessions, stopping, rec, cancels, ghosts>>

(* session.stop(): without a controller there is nothing to abort.         *)
Stopped(e) == [exec EXCEPT ![e].stop = @ \/ exec[e].pc = "run"]

(* The turn ends, and its outcome is reported.  A stop may come too late   *)
(* to change it.                                                           *)
End(e) ==
  /\ exec[e].pc = "run"
  /\ exec[e].stop \/ call.by # e
  /\ Step(e, "complete")
  /\ UNCHANGED <<call, run, tokens, sessions, stopping, rec, cancels, ghosts>>

Outcomes(e) == {"done", "failed", "awaiting"} \cup (IF exec[e].stop THEN {"canceled"} ELSE {})

(* The `finally` of execute: both maps are keyed by the run's id.          *)
Leave(e) ==
  /\ exec' = [exec EXCEPT ![e] = Gone(@)]
  /\ sessions' = [sessions EXCEPT ![exec[e].worker] = 0]
  /\ stopping' = [stopping EXCEPT ![exec[e].worker] = FALSE]

(* complete is answered, or it fails (the lease was lost, the request or   *)
(* its answer was) and the run is reported failed.                         *)
Complete(e) ==
  /\ exec[e].pc = "complete"
  /\ \/ /\ \E s \in Outcomes(e) : FinishAgentRun(e, s)
        /\ Leave(e) \/ (Step(e, "failing") /\ UNCHANGED <<sessions, stopping>>)
     \/ /\ Unfinished
        /\ Step(e, "failing") /\ UNCHANGED <<sessions, stopping>>
  /\ UNCHANGED <<call, cancels, ghosts>>

CompleteFailed(e) ==
  /\ exec[e].pc = "failing"
  /\ FinishAgentRun(e, "failed") \/ Unfinished
  /\ Leave(e)
  /\ UNCHANGED <<call, cancels, ghosts>>

(* A chat run without its payload is reported failed at once.              *)
Unreadable(e) ==
  /\ exec[e].pc = "token"
  /\ FinishAgentRun(e, "failed") \/ Unfinished
  /\ exec' = [exec EXCEPT ![e] = Gone(@)]
  /\ UNCHANGED <<call, sessions, stopping, cancels, ghosts>>

(* A slip: only a refused heartbeat stops the session.                     *)
HeartbeatDeaf(e) ==
  /\ exec[e].pc \in {"begin", "run", "complete", "failing"}
  /\ \/ /\ Holds(e)
        /\ run' = [run EXCEPT !.valid = TRUE]
        /\ VoidReleases
        /\ UNCHANGED exec
     \/ exec' = Stopped(e) /\ UNCHANGED <<run, rec>>
  /\ UNCHANGED <<call, tokens, sessions, stopping, cancels, ghosts>>

(* A heartbeat renews the lease.  Its answer stops the session when it     *)
(* says cancel, and when it does not come.                                 *)
Heartbeat(e) ==
  /\ exec[e].pc \in {"begin", "run", "complete", "failing"}
  /\ \/ /\ Holds(e)
        /\ run' = [run EXCEPT !.valid = TRUE]
        /\ VoidReleases
        /\ exec' \in {Stopped(e)} \cup (IF run.cancel THEN {} ELSE {exec})
     \/ exec' = Stopped(e) /\ UNCHANGED <<run, rec>>
  /\ UNCHANGED <<call, tokens, sessions, stopping, cancels, ghosts>>

(* CancelWatcher: the long-poll is open while the map has a session, and   *)
(* tells of a run once until it is finished.                               *)
Watch(w) ==
  /\ sessions[w] # 0
  /\ Held /\ run.owner = w /\ run.cancel /\ ~stopping[w]
  /\ stopping' = [stopping EXCEPT ![w] = TRUE]
  /\ exec' = Stopped(sessions[w])
  /\ UNCHANGED <<call, run, tokens, sessions, rec, cancels, ghosts>>

Crash(w) ==
  /\ \E e \in Attempts : Alive(e) /\ exec[e].worker = w
  /\ Dies(w)
  /\ UNCHANGED <<call, run, tokens, rec, cancels, ghosts>>

-----------------------------------------------------------------------------
(* A write tool.  The token is good while it is not revoked and anybody    *)
(* holds the run; it is looked up once per call.                           *)
Call(e) ==
  /\ exec[e].pc = "run" /\ call = NoCall
  /\ e \in tokens /\ Held
  /\ call' = [by |-> e, at |-> "authed"]
  /\ UNCHANGED <<run, tokens, workerVars, rec, cancels, ghosts>>

(* A slip: the write is not recorded before the tool runs.                 *)
MarkNothing ==
  /\ call.at = "authed"
  /\ call' = [call EXCEPT !.at = "marked"]
  /\ UNCHANGED <<run, tokens, workerVars, rec, cancels, ghosts>>

(* MarkAgentRunWrote, before the tool runs.                                *)
MarkWrote ==
  /\ call.at = "authed"
  /\ run' = [run EXCEPT !.wrote = TRUE]
  /\ call' = [call EXCEPT !.at = "marked"]
  /\ UNCHANGED <<tokens, workerVars, rec, cancels, ghosts>>

(* The tool runs to its end, whatever became of its client.                *)
Land ==
  /\ call.at = "marked"
  /\ landed' = landed \cup {call.by}
  /\ call' = NoCall
  /\ UNCHANGED <<run, tokens, workerVars, rec, cancels, slow>>

CallFails ==
  /\ call # NoCall
  /\ call' = NoCall
  /\ UNCHANGED <<run, tokens, workerVars, rec, cancels, ghosts>>

-----------------------------------------------------------------------------
(* The reconciler.                                                         *)
Working == call # NoCall \/ \E e \in Attempts : Alive(e)

Expire ==
  /\ Held /\ run.valid
  /\ run' = [run EXCEPT !.valid = FALSE]
  /\ slow' = (slow \/ Working)
  /\ UNCHANGED <<call, tokens, workerVars, rec, cancels, landed>>

(* A slip: a run that wrote is queued again.                               *)
DecideUnread ==
  IF run.attempts < MaxAttempts /\ ~run.cancel THEN "queued"
  ELSE IF run.cancel THEN "canceled" ELSE "interrupted"

(* A slip: the limit is off by one.                                        *)
DecideOnceMore ==
  IF ~run.wrote /\ run.attempts <= MaxAttempts /\ ~run.cancel THEN "queued"
  ELSE IF run.cancel THEN "canceled" ELSE "interrupted"

(* What a release decides from the row it reads.                           *)
Decision ==
  IF ~run.wrote /\ run.attempts < MaxAttempts /\ ~run.cancel THEN "queued"
  ELSE IF run.cancel THEN "canceled" ELSE "interrupted"

(* ReleaseExpiredAgentRuns, one row: it is read, updated, and its tokens   *)
(* are revoked, which an error or the end of the process leaves out.       *)
ReleaseRead(r) ==
  /\ rec[r] = "idle" /\ Held /\ ~run.valid
  /\ rec' = [rec EXCEPT ![r] = Decision]
  /\ UNCHANGED <<call, run, tokens, workerVars, cancels, ghosts>>

ReleaseUpdate(r) ==
  /\ rec[r] \in Released /\ Held
  /\ run' = [run EXCEPT !.status = rec[r], !.owner = None, !.valid = FALSE]
  /\ \E next \in {"revoke", "idle"} : rec' = [Voided EXCEPT ![r] = next]
  /\ UNCHANGED <<call, tokens, workerVars, cancels, ghosts>>

RevokeTokens(r) ==
  /\ rec[r] = "revoke"
  /\ tokens' = {}
  /\ rec' = [rec EXCEPT ![r] = "idle"]
  /\ UNCHANGED <<call, run, workerVars, cancels, ghosts>>

-----------------------------------------------------------------------------
(* CancelAgentRun is two statements: one for a run that nobody holds, one  *)
(* for a run that somebody does.                                           *)
CancelFirst(c) ==
  /\ cancels[c] = "idle"
  /\ run' = [run EXCEPT !.status = IF @ \in {"queued", "awaiting"} THEN "canceled" ELSE @]
  /\ cancels' = [cancels EXCEPT ![c] = "second"]
  /\ UNCHANGED <<call, tokens, workerVars, rec, ghosts>>

CancelSecond(c) ==
  /\ cancels[c] = "second"
  /\ run' = [run EXCEPT !.cancel = @ \/ Held]
  /\ cancels' = [cancels EXCEPT ![c] = "done"]
  /\ UNCHANGED <<call, tokens, workerVars, rec, ghosts>>

(* CancelUnclaimedAgentRun: no worker took the run in time.                *)
CancelUnclaimed ==
  /\ run.status = "queued"
  /\ run' = [run EXCEPT !.status = "canceled"]
  /\ UNCHANGED <<call, tokens, workerVars, rec, cancels, ghosts>>

-----------------------------------------------------------------------------
Executes(e) ==
  \/ Token(e) \/ Unreadable(e) \/ Begin(e) \/ End(e) \/ Complete(e) \/ CompleteFailed(e)
  \/ Heartbeat(e) \/ Call(e)

Reconciles(r) == ReleaseRead(r) \/ ReleaseUpdate(r) \/ RevokeTokens(r)

Next ==
  \/ \E w \in Workers, heard \in BOOLEAN : Claim(w, heard)
  \/ \E w \in Workers : Watch(w) \/ Crash(w)
  \/ \E e \in Attempts : Executes(e)
  \/ MarkWrote \/ Land \/ CallFails
  \/ Expire
  \/ \E r \in Reconcilers : Reconciles(r)
  \/ \E c \in Cancellers : CancelFirst(c) \/ CancelSecond(c)
  \/ CancelUnclaimed

Spec == Init /\ [][Next]_vars

(* Somebody beats for the run.                                             *)
Attended == \E e \in Attempts : Alive(e) /\ exec[e].worker = run.owner

(* What the worker does for an execution when nothing holds it up.         *)
Advances(e) ==
  \/ Token(e) \/ Unreadable(e) \/ Begin(e) \/ Complete(e) \/ CompleteFailed(e)
  \/ (exec[e].stop /\ End(e))

(* What the processes guarantee: an execution goes on until its turn runs, *)
(* a turn that was stopped ends, a result is reported, heartbeats are      *)
(* sent; a lease that nobody renews runs out, and a reconciler looks.  A   *)
(* turn may last for ever, and a worker need not claim.                    *)
Fairness ==
  /\ \A e \in Attempts : WF_vars(Advances(e)) /\ WF_vars(Heartbeat(e))
  /\ WF_vars(~Attended /\ Expire)
  /\ \A r \in Reconcilers : WF_vars(Reconciles(r))

FairSpec == Spec /\ Fairness

-----------------------------------------------------------------------------
(* A write that took effect is recorded on the row: "Recorded before the   *)
(* call: a write can land even when the call then reports an error".       *)
WriteMarked == landed # {} => run.wrote

(* Two attempts write only after some lease expired under an execution     *)
(* that still worked.  While workers end by crashing, a run that wrote is  *)
(* never repeated, however many reconcilers work on it and whatever        *)
(* answers are lost: "no silent repeat of writes".                         *)
WritesOnce == slow \/ \A d, e \in landed : d = e

(* What ended stays as it ended: no late heartbeat, completion or release  *)
(* of an earlier attempt moves it.  A question that waits may be           *)
(* cancelled.                                                              *)
EndedForGood ==
  [][/\ run.status \in Final => run'.status = run.status
     /\ run.status = "awaiting" => run'.status \in {"awaiting", "canceled"}]_vars

(* A run that nobody attends, or that was asked to stop however long its   *)
(* turn would last, does not stay held: it ends or is queued again.        *)
LetGo == Held /\ (run.cancel \/ ~Attended) ~> ~Held \/ (Attended /\ ~run.cancel)
=============================================================================
