---------------------------- MODULE SessionStore ----------------------------
(***************************************************************************)
(* The state that the parts of the coding control plane share, and the     *)
(* primitives they use on it: one session document with its version CAS    *)
(* (UpdateCodingSession), the sandbox rows, the inbox and the recorded     *)
(* commits (api/internal/store/coding_sessions.go), the runner processes   *)
(* in the sandboxes, and the calls in flight in the API replicas.          *)
(*                                                                         *)
(* A call that reads a session, works and writes it back is a process with *)
(* a program counter.  The version of its copy is abstracted to the flag   *)
(* fresh[p]: no write happened since p read the document.                  *)
(***************************************************************************)
EXTENDS SessionMachine, Sequences, FiniteSets

CONSTANTS
  Reconcilers,  \* reconcile loops that hold, or believe to hold, the lease
  Handlers,     \* API requests in flight
  Ops,          \* the calls and faults that the environment may produce
  MaxInbox      \* bound: items the inbox takes

Procs == Reconcilers \cup Handlers

ASSUME SandboxesAssumption == Sandboxes \subseteq Nat
ASSUME ProcsAssumption == Reconcilers \cap Handlers = {}
ASSUME MaxInboxAssumption == MaxInbox \in Nat

VARIABLES
  session,   \* the coding_sessions row
  rows,      \* the coding_sandboxes rows of the session, with their tokens
  inbox,     \* the coding_session_inbox rows, by sequence number
  recorded,  \* the session has coding_session_commits rows
  runner,    \* the runner process of every sandbox
  op,        \* the call every process is serving
  fresh      \* whether the copy a process read is the current version

vars == <<session, rows, inbox, recorded, runner, op, fresh>>

(* The document Start writes, for a session that needs no approval.        *)
NewSession ==
  [ phase |-> "queued", state |-> "pending", error |-> "",
    stop |-> FALSE, rejected |-> FALSE, env |-> FALSE, snapshot |-> FALSE,
    sandbox |-> None, starts |-> 0, attempts |-> 0, turn |-> None,
    last |-> None, pushed |-> FALSE, existing |-> OnPRBranch, pr |-> FALSE,
    branch |-> FALSE, ended |-> FALSE, deadline |-> TRUE,
    archived |-> FALSE ]

NoRows == [b \in Sandboxes |-> NoRow]
NoReq  == [status |-> "none", pushed |-> FALSE, publishes |-> FALSE]

(* A call in flight: what it does, where it is, the session it read or     *)
(* decided, the actions it will run, the rows it read, its arguments.      *)
NoOp == [ kind |-> "none", pc |-> "idle", s |-> NewSession, acts |-> {},
          rows |-> NoRows, box |-> None, turn |-> None, req |-> NoReq,
          rec |-> FALSE ]

(* An inbox item; pending: Turn.ScopePendingSince # 0, the write scope of  *)
(* the turn is not settled yet.                                            *)
TurnItem(t, pending) ==
  [kind |-> "turn", id |-> t, delivered |-> FALSE, pending |-> pending]
StopItem(b) ==
  [kind |-> "stop", id |-> b, delivered |-> FALSE, pending |-> FALSE]

(* A runner: where it is ("off", "boot", "prep"aring the workspace, in its *)
(* turn "loop", in its "last" completion, "gone"), its inbox cursor, the   *)
(* turns it queued and saw, the turn it runs, whether that turn asked a    *)
(* question, how it ended, and whether the runner was asked to stop.       *)
NoRunner == [ st |-> "off", after |-> 0, queue |-> <<>>, seen |-> {},
              cur |-> None, asked |-> "no", req |-> NoReq, stop |-> FALSE ]

-----------------------------------------------------------------------------
(* The document and its version. *)

(* UpdateCodingSession with a changed document: every other copy is stale. *)
Write(s) == session' = s /\ fresh' = [p \in Procs |-> FALSE]

Idle(p) == op[p].pc = "idle"

At(p, kind, pc) == op[p].kind = kind /\ op[p].pc = pc

(* p reads the session and goes on with it as a call of the given kind.    *)
Read(p, call) ==
  /\ op' = [op EXCEPT ![p] = [call EXCEPT !.s = session]]
  /\ fresh' = [fresh EXCEPT ![p] = TRUE]
  /\ UNCHANGED session

Goto(p, pc) == op' = [op EXCEPT ![p].pc = pc]

(* p is done; its copy of the session is gone.                             *)
Return(p)  == op' = [op EXCEPT ![p] = NoOp]
Forget(p)  == Return(p) /\ fresh' = [fresh EXCEPT ![p] = FALSE]

-----------------------------------------------------------------------------
(* The inbox. *)

InInbox(t) == \E i \in DOMAIN inbox : inbox[i].kind = "turn" /\ inbox[i].id = t

undelivered(i) == inbox[i].kind = "turn" /\ ~inbox[i].delivered

UndeliveredCodingInbox == {i \in DOMAIN inbox : undelivered(i)}

PendingCodingTurns == UndeliveredCodingInbox # {}

(* EnqueueCodingInbox; a full inbox behaves like the failed enqueue that   *)
(* callers report or log.  A turn is enqueued once.                        *)
Enqueue(item) ==
  IF Len(inbox) < MaxInbox THEN Append(inbox, item) ELSE inbox

EnqueueTurn(t, pending) ==
  IF InInbox(t) THEN inbox ELSE Enqueue(TurnItem(t, pending))

MarkCodingInboxDelivered(i) == inbox' = [inbox EXCEPT ![i].delivered = TRUE]

-----------------------------------------------------------------------------
(* runSandboxActions: what a set of actions does to the rows and inbox.    *)

AfterStops(acts) ==
  [ b \in Sandboxes |->
      [ desired |-> IF Stop(b) \in acts THEN "stopped" ELSE rows[b].desired,
        live    |-> rows[b].live,
        token   |-> IF Revoke(b) \in acts /\ rows[b].token = "valid"
                    THEN "revoked" ELSE rows[b].token ] ]

AfterEnqueueStop(acts) ==
  IF \E b \in Sandboxes \cup {None} : EnqueueStop(b) \in acts
  THEN Enqueue(StopItem(CHOOSE b \in Sandboxes \cup {None} :
                                 EnqueueStop(b) \in acts))
  ELSE inbox

(* Each action may fail: the failure is logged and the call goes on.       *)
RunSandboxActions(p) ==
  /\ op[p].pc = "effects"
  /\ \E ok \in IF "faults" \in Ops THEN SUBSET op[p].acts ELSE {op[p].acts} :
       /\ rows' = AfterStops(ok)
       /\ inbox' = AfterEnqueueStop(ok)
  /\ op' = [op EXCEPT ![p].pc = "commit", ![p].acts = {}]
  /\ UNCHANGED <<session, recorded, runner, fresh>>

(* The replica serving a call dies: what it did stays, the rest is lost.   *)
Crash(p) ==
  /\ "crash" \in Ops
  /\ ~Idle(p)
  /\ Forget(p)
  /\ UNCHANGED <<session, rows, inbox, recorded, runner>>

=============================================================================
