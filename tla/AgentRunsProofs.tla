-------------------------- MODULE AgentRunsProofs ---------------------------
(***************************************************************************)
(* Theorems about AgentRuns, for every set of workers, reconcilers and     *)
(* cancel calls and every limit of attempts.                               *)
(*                                                                         *)
(* That a write is not repeated needs to know where it could come from:    *)
(* while no lease expired under a working execution, only the last         *)
(* attempt can be at work, a lease that expired covers nothing that works, *)
(* and what is queued, or about to be, has not written.                    *)
(***************************************************************************)
EXTENDS AgentRuns, TLAPS

(* The row against those who read it or work on it.                        *)
RowOK ==
  /\ run.status = "queued" => run.attempts < MaxAttempts
  /\ \A r \in Reconcilers :
       /\ rec[r] \in Released => Held /\ ~run.valid
       /\ rec[r] = "queued" => run.attempts < MaxAttempts
  /\ \A e \in Attempts : e > run.attempts => exec[e].pc = "none"

(* A call belongs to an attempt, and a call that may take effect is on the *)
(* row.                                                                    *)
CallOK ==
  /\ call # NoCall => call.by \in Attempts /\ call.at \in {"authed", "marked"}
  /\ call.at = "marked" => run.wrote

(* Only the last attempt works, and under its lease.                       *)
Calm ==
  /\ \A e \in Attempts : e < run.attempts => ~Alive(e)
  /\ call.by \in {0, run.attempts}
  /\ Held /\ ~run.valid => ~Working
  /\ run.status = "queued" => ~Working /\ ~run.wrote
  /\ \A r \in Reconcilers : rec[r] = "queued" => ~run.wrote
  /\ landed \subseteq {run.attempts}

IInv == TypeOK /\ RowOK /\ CallOK /\ WriteMarked /\ (slow \/ Calm)

(* The types of a row and of an execution.                                 *)
Row == [status : Statuses, owner : Workers \cup {None}, attempts : 0 .. MaxAttempts,
        cancel : BOOLEAN, wrote : BOOLEAN, valid : BOOLEAN]

Exec == [pc : {"none", "token", "begin", "run", "complete", "failing", "gone"},
         worker : Workers \cup {None}, stop : BOOLEAN]

(* What a step of the workers does to the executions: none comes to life.  *)
ExecKeeps ==
  /\ exec' \in [Attempts -> Exec]
  /\ \A d \in Attempts : (exec[d].pc = "none" => exec'[d].pc = "none") /\ (Alive(d)' => Alive(d))

(* The variables that the invariant only types.                            *)
RestTyped ==
  /\ tokens' \in SUBSET Attempts /\ sessions' \in [Workers -> 0 .. MaxAttempts]
  /\ stopping' \in [Workers -> BOOLEAN] /\ cancels' \in [Cancellers -> {"idle", "second", "done"}]

RecTyped == rec' \in [Reconcilers -> {"idle", "queued", "canceled", "interrupted", "revoke"}]

-----------------------------------------------------------------------------
LEMMA InitIInv == Init => IInv
<1> SUFFICES ASSUME Init PROVE IInv
  OBVIOUS
<1>1. NoExec \in Exec /\ NoExec.pc = "none"
  BY DEF NoExec, Exec
<1>2. NoCall \in [by : 0 .. MaxAttempts, at : {"none", "authed", "marked"}] /\ NoCall.at = "none" /\ NoCall.by = 0
  BY AgentRunConstants DEF NoCall
<1>3. 0 \in 0 .. MaxAttempts /\ 0 < MaxAttempts
  BY AgentRunConstants
<1>4. run \in Row
  BY <1>3 DEF Init, Row, Statuses
<1>5. exec \in [Attempts -> Exec] /\ \A e \in Attempts : exec[e].pc = "none"
  BY <1>1 DEF Init
<1>6. TypeOK
  BY Zenon, <1>2, <1>3, <1>4, <1>5 DEF Init, TypeOK, Row, Exec
<1>7. RowOK
  BY <1>3, <1>5 DEF Init, RowOK, Released
<1>8. CallOK /\ WriteMarked
  BY <1>2 DEF Init, CallOK, WriteMarked
<1>9. ~Working
  BY <1>5 DEF Init, Working, Alive
<1>10. Calm
  BY <1>2, <1>5, <1>9 DEF Init, Calm, Alive
<1> QED
  BY <1>6, <1>7, <1>8, <1>10 DEF IInv

(* A step of an execution at e, to whatever else than a start.             *)
LEMMA OneExec ==
  ASSUME TypeOK, NEW e \in Attempts, Alive(e),
         NEW x \in Exec, exec' = [exec EXCEPT ![e] = x]
  PROVE  ExecKeeps
  BY DEF TypeOK, ExecKeeps, Exec, Alive

LEMMA StepKeeps ==
  ASSUME TypeOK, NEW e \in Attempts, Alive(e),
         NEW pc \in {"begin", "run", "complete", "failing"}, Step(e, pc)
  PROVE  ExecKeeps
<1>1. [exec[e] EXCEPT !.pc = pc] \in Exec
  BY DEF TypeOK, Exec
<1>2. exec' = [exec EXCEPT ![e] = [exec[e] EXCEPT !.pc = pc]]
  BY DEF Step
<1> QED
  BY Zenon, <1>1, <1>2, OneExec

LEMMA GoneKeeps ==
  ASSUME TypeOK, NEW e \in Attempts, Alive(e), exec' = [exec EXCEPT ![e] = Gone(@)]
  PROVE  ExecKeeps
<1>1. Gone(exec[e]) \in Exec
  BY Zenon DEF TypeOK, Exec, Gone, NoExec
<1> QED
  BY Zenon, <1>1, OneExec

LEMMA StoppedKeeps ==
  ASSUME TypeOK, NEW e \in Attempts, exec' = Stopped(e)
  PROVE  ExecKeeps
<1> DEFINE x == [exec[e] EXCEPT !.stop = @ \/ exec[e].pc = "run"]
<1>1. exec[e] \in Exec
  BY DEF TypeOK, Exec
<1>2. (exec[e].stop \/ exec[e].pc = "run") \in BOOLEAN
  BY <1>1 DEF Exec
<1>3. x \in Exec /\ x.pc = exec[e].pc
  BY Zenon, <1>1, <1>2 DEF Exec
<1>4. exec' = [exec EXCEPT ![e] = x]
  BY DEF Stopped
<1> HIDE DEF x
<1> QED
  BY <1>3, <1>4 DEF TypeOK, ExecKeeps, Exec, Alive

LEMMA SameKeeps ==
  ASSUME TypeOK, UNCHANGED exec
  PROVE  ExecKeeps
  BY DEF TypeOK, ExecKeeps, Exec, Alive

LEMMA ExceptTyped ==
  ASSUME NEW S, NEW T, NEW f \in [S -> T], NEW x, NEW v \in T
  PROVE  [f EXCEPT ![x] = v] \in [S -> T]
  BY Zenon

(* Leaving the maps, or entering them.                                     *)
LEMMA MapsTyped ==
  ASSUME TypeOK, NEW x, NEW n \in 0 .. MaxAttempts
  PROVE  /\ [sessions EXCEPT ![x] = n] \in [Workers -> 0 .. MaxAttempts]
         /\ [stopping EXCEPT ![x] = FALSE] \in [Workers -> BOOLEAN]
<1>1. sessions \in [Workers -> 0 .. MaxAttempts] /\ stopping \in [Workers -> BOOLEAN]
  BY DEF TypeOK
<1> QED
  BY <1>1, ExceptTyped

LEMMA DiesKeeps ==
  ASSUME TypeOK, NEW w, Dies(w)
  PROVE  ExecKeeps /\ sessions' \in [Workers -> 0 .. MaxAttempts] /\ stopping' \in [Workers -> BOOLEAN]
<1>1. \A e \in Attempts : Gone(exec[e]) \in Exec /\ Gone(exec[e]).pc = "gone"
  BY Zenon DEF TypeOK, Exec, Gone, NoExec
<1>2. \A e \in Attempts : exec[e] \in Exec
  BY DEF TypeOK, Exec
<1>3. ExecKeeps
  BY <1>1, <1>2 DEF Dies, ExecKeeps, Alive
<1>4. 0 \in 0 .. MaxAttempts
  BY AgentRunConstants
<1> QED
  BY <1>3, <1>4, MapsTyped DEF Dies

LEMMA VoidFacts ==
  ASSUME TypeOK, VoidReleases
  PROVE  RecTyped /\ \A r \in Reconcilers : rec'[r] \notin Released
  BY DEF TypeOK, VoidReleases, Voided, RecTyped, Released

(* A step that neither opens an attempt, queues the run, ends a lease nor  *)
(* touches a write.                                                        *)
LEMMA Frame ==
  ASSUME IInv, ExecKeeps, RestTyped, RecTyped, UNCHANGED <<call, ghosts>>,
         run' \in Row, run'.attempts = run.attempts, run'.wrote = run.wrote,
         run'.status = "queued" => run.status = "queued",
         Held' /\ ~run'.valid => Held /\ ~run.valid,
         \A r \in Reconcilers : rec'[r] \in Released => rec'[r] = rec[r] /\ Held' /\ ~run'.valid
  PROVE  IInv'
<1>1. TypeOK'
  BY DEF IInv, TypeOK, ExecKeeps, Exec, RestTyped, RecTyped, ghosts, Row
<1>2. RowOK'
  BY DEF IInv, RowOK, ExecKeeps, Released
<1>3. CallOK' /\ WriteMarked'
  BY DEF IInv, CallOK, WriteMarked, ghosts
<1>4. Working' => Working
  BY DEF ExecKeeps, Working
<1>5. Calm => Calm'
  BY <1>4 DEF Calm, ExecKeeps, ghosts, Released
<1> QED
  BY <1>1, <1>2, <1>3, <1>5 DEF IInv, ghosts

-----------------------------------------------------------------------------
(* The steps of the workers.                                               *)
LEMMA RestSame ==
  ASSUME TypeOK, UNCHANGED <<tokens, sessions, stopping, cancels>>
  PROVE  RestTyped
  BY DEF TypeOK, RestTyped

(* The frame for a step that leaves the row and its readers alone.         *)
LEMMA RowFrame ==
  ASSUME IInv, ExecKeeps, RestTyped, UNCHANGED <<run, rec, call, ghosts>>
  PROVE  IInv'
<1>1. run' \in Row /\ RecTyped
  BY DEF IInv, TypeOK, Row, RecTyped
<1>2. \A r \in Reconcilers : rec[r] \in Released => Held /\ ~run.valid
  BY DEF IInv, RowOK
<1> QED
  BY <1>1, <1>2, Frame DEF Held

(* The frame for a run that ends or waits.                                 *)
LEMMA FinishFrame ==
  ASSUME IInv, ExecKeeps, UNCHANGED <<cancels, call, ghosts>>,
         sessions' \in [Workers -> 0 .. MaxAttempts], stopping' \in [Workers -> BOOLEAN],
         NEW e \in Attempts, NEW s \in Final \cup {"awaiting"}, FinishAgentRun(e, s)
  PROVE  IInv'
<1>1. TypeOK
  BY DEF IInv
<1>2. RestTyped
  BY <1>1 DEF TypeOK, FinishAgentRun, RestTyped
<1>3. RecTyped /\ \A r \in Reconcilers : rec'[r] \notin Released
  BY <1>1, VoidFacts DEF FinishAgentRun
<1>4. /\ run' \in Row /\ run'.attempts = run.attempts /\ run'.wrote = run.wrote
      /\ run'.status = s
  BY Zenon, <1>1 DEF TypeOK, FinishAgentRun, Row, Statuses
<1>5. s # "queued" /\ s # "held"
  BY DEF Final
<1> QED
  BY <1>2, <1>3, <1>4, <1>5, Frame DEF Held

LEMMA ExecutesStep ==
  ASSUME IInv, NEW e \in Attempts, Executes(e), ~Call(e)
  PROVE  IInv'
<1>1. TypeOK
  BY DEF IInv
<1>a. e \in 0 .. MaxAttempts /\ 0 \in 0 .. MaxAttempts
  BY AgentRunConstants DEF Attempts
<1>2. CASE Token(e)
  <2>1. Alive(e) /\ UNCHANGED <<run, rec, call, cancels, ghosts>>
    BY <1>2 DEF Token, Alive
  <2>2. CASE Step(e, "begin") /\ tokens' = tokens \cup {e} /\ UNCHANGED stopping
             /\ sessions' = [sessions EXCEPT ![exec[e].worker] = e]
    <3>1. ExecKeeps
      BY <1>1, <2>1, <2>2, StepKeeps
    <3>2. RestTyped
      BY <1>1, <1>a, <2>1, <2>2, MapsTyped DEF RestTyped, TypeOK
    <3> QED
      BY <2>1, <3>1, <3>2, RowFrame
  <2>3. CASE Dies(exec[e].worker) /\ UNCHANGED tokens
    <3>1. ExecKeeps /\ RestTyped
      BY <1>1, <2>1, <2>3, DiesKeeps DEF RestTyped, TypeOK
    <3> QED
      BY <2>1, <3>1, RowFrame
  <2> QED
    BY <1>2, <2>2, <2>3 DEF Token
<1>3. CASE Begin(e) \/ End(e)
  <2>1. Alive(e) /\ (\E pc \in {"run", "complete"} : Step(e, pc))
    BY <1>3 DEF Begin, End, Alive
  <2>2. UNCHANGED <<run, rec, call, ghosts>> /\ UNCHANGED <<tokens, sessions, stopping, cancels>>
    BY <1>3 DEF Begin, End
  <2>3. ExecKeeps
    BY <1>1, <2>1, StepKeeps
  <2> QED
    BY <1>1, <2>2, <2>3, RestSame, RowFrame
<1>4. CASE Complete(e) \/ CompleteFailed(e) \/ Unreadable(e)
  <2>1. Alive(e) /\ UNCHANGED <<call, cancels, ghosts>>
    BY <1>4 DEF Complete, CompleteFailed, Unreadable, Alive
  <2>2. \/ Step(e, "failing") /\ UNCHANGED <<sessions, stopping>>
        \/ Leave(e)
        \/ exec' = [exec EXCEPT ![e] = Gone(@)] /\ UNCHANGED <<sessions, stopping>>
    BY <1>4 DEF Complete, CompleteFailed, Unreadable
  <2>3. ExecKeeps
    BY <1>1, <2>1, <2>2, StepKeeps, GoneKeeps DEF Leave
  <2>4. sessions' \in [Workers -> 0 .. MaxAttempts] /\ stopping' \in [Workers -> BOOLEAN]
    <3>1. CASE UNCHANGED <<sessions, stopping>>
      BY <1>1, <3>1 DEF TypeOK
    <3>2. CASE Leave(e)
      BY <1>1, <1>a, <3>2, MapsTyped DEF Leave
    <3> QED
      BY <2>2, <3>1, <3>2
  <2>5. Outcomes(e) \cup {"failed"} \subseteq Final \cup {"awaiting"}
    BY DEF Outcomes, Final
  <2>6. Unfinished \/ (\E s \in Final \cup {"awaiting"} : FinishAgentRun(e, s))
    BY <1>4, <2>5 DEF Complete, CompleteFailed, Unreadable
  <2>7. CASE Unfinished
    <3>1. RestTyped
      BY <1>1, <2>1, <2>4, <2>7 DEF TypeOK, RestTyped, Unfinished
    <3> QED
      BY <2>1, <2>3, <2>7, <3>1, RowFrame DEF Unfinished
  <2> QED
    BY <2>1, <2>3, <2>4, <2>6, <2>7, FinishFrame
<1>5. CASE Heartbeat(e)
  <2>1. UNCHANGED <<call, ghosts>> /\ UNCHANGED <<tokens, sessions, stopping, cancels>>
    BY <1>5 DEF Heartbeat
  <2>2. exec' = Stopped(e) \/ exec' = exec
    BY <1>5 DEF Heartbeat
  <2>3. ExecKeeps /\ RestTyped
    BY <1>1, <2>1, <2>2, StoppedKeeps, SameKeeps, RestSame
  <2>4. CASE UNCHANGED <<run, rec>>
    BY <2>1, <2>3, <2>4, RowFrame
  <2>5. CASE run' = [run EXCEPT !.valid = TRUE] /\ VoidReleases
    <3>1. RecTyped /\ \A r \in Reconcilers : rec'[r] \notin Released
      BY <1>1, <2>5, VoidFacts
    <3>2. run' \in Row /\ run'.attempts = run.attempts /\ run'.wrote = run.wrote /\ run'.status = run.status /\ run'.valid
      BY Zenon, <1>1, <2>5 DEF TypeOK, Row
    <3> QED
      BY <2>1, <2>3, <3>1, <3>2, Frame DEF Held
  <2> QED
    BY <1>5, <2>4, <2>5 DEF Heartbeat
<1> QED
  BY <1>2, <1>3, <1>4, <1>5 DEF Executes

LEMMA WorkerStep ==
  ASSUME IInv, NEW w \in Workers, Watch(w) \/ Crash(w)
  PROVE  IInv'
<1>1. TypeOK /\ UNCHANGED <<run, rec, call, ghosts>> /\ UNCHANGED <<tokens, cancels>>
  BY DEF IInv, Watch, Crash
<1>2. CASE Watch(w)
  <2>1. sessions[w] \in Attempts
    BY <1>1, <1>2, AgentRunConstants DEF Watch, TypeOK, Attempts
  <2>2. ExecKeeps
    BY <1>1, <1>2, <2>1, StoppedKeeps DEF Watch
  <2>3. RestTyped
    BY <1>1, <1>2 DEF Watch, TypeOK, RestTyped
  <2> QED
    BY <1>1, <2>2, <2>3, RowFrame
<1>3. CASE Crash(w)
  <2>1. ExecKeeps /\ RestTyped
    BY <1>1, <1>3, DiesKeeps DEF Crash, RestTyped, TypeOK
  <2> QED
    BY <1>1, <2>1, RowFrame
<1> QED
  BY <1>2, <1>3

-----------------------------------------------------------------------------
(* A claim opens the next attempt; nothing of an earlier one is at work,   *)
(* unless some lease expired too early.                                    *)
LEMMA ClaimStep ==
  ASSUME IInv, NEW w \in Workers, NEW heard \in BOOLEAN, Claim(w, heard)
  PROVE  IInv'
<1> DEFINE n == run.attempts + 1
           x == [NoExec EXCEPT !.pc = IF heard THEN "token" ELSE "gone", !.worker = w]
<1>1. TypeOK /\ run.status = "queued" /\ UNCHANGED <<call, tokens, sessions, stopping, cancels, ghosts>>
  BY DEF IInv, Claim
<1>2. run.attempts \in Nat /\ run.attempts < MaxAttempts /\ n \in Attempts
  BY <1>1, AgentRunConstants DEF IInv, TypeOK, RowOK, Attempts
<1>3. /\ run' \in Row /\ run'.status = "held" /\ run'.attempts = n /\ run'.wrote = run.wrote /\ run'.valid
  <2>1. run \in Row /\ n \in 0 .. MaxAttempts /\ w \in Workers \cup {None} /\ "held" \in Statuses
    BY <1>1, <1>2, AgentRunConstants DEF TypeOK, Row, Statuses, Attempts
  <2>2. run' = [run EXCEPT !.status = "held", !.owner = w, !.attempts = n, !.cancel = FALSE, !.valid = TRUE]
    BY DEF Claim
  <2> QED
    BY Zenon, <2>1, <2>2 DEF Row
<1>4. x \in Exec /\ exec' = [exec EXCEPT ![n] = x]
  BY Zenon DEF Claim, NoExec, Exec
<1>5. RecTyped /\ \A r \in Reconcilers : rec'[r] \notin Released
  BY <1>1, VoidFacts DEF Claim
<1> HIDE DEF x
<1>6. exec' \in [Attempts -> Exec] /\ \A e \in Attempts : e # n => exec'[e] = exec[e]
  BY <1>1, <1>2, <1>4 DEF TypeOK, Exec
<1>7. TypeOK'
  BY <1>1, <1>3, <1>5, <1>6 DEF TypeOK, Row, Exec, RecTyped, ghosts
<1>8. RowOK'
  BY <1>2, <1>3, <1>5, <1>6 DEF IInv, RowOK, Attempts, Released
<1>9. CallOK' /\ WriteMarked'
  BY <1>1, <1>3 DEF IInv, CallOK, WriteMarked, ghosts
<1>10. Calm => Calm'
  <2> SUFFICES ASSUME Calm PROVE Calm'
    OBVIOUS
  <2>1. ~Working /\ ~run.wrote /\ landed = {}
    BY <1>1 DEF Calm, IInv, WriteMarked
  <2>2. call.by = 0
    BY <2>1 DEF Working, NoCall
  <2>3. \A e \in Attempts : e < n => ~Alive(e)'
    BY <1>2, <1>6, <2>1 DEF Working, Alive, Attempts
  <2> QED
    BY <1>1, <1>3, <1>5, <2>1, <2>2, <2>3 DEF Calm, Held, Released, ghosts
<1> QED
  BY <1>1, <1>7, <1>8, <1>9, <1>10 DEF IInv, ghosts

(* The write calls.                                                        *)
LEMMA CallStep ==
  ASSUME IInv, NEW e \in Attempts, Call(e)
  PROVE  IInv'
<1>1. /\ UNCHANGED <<run, tokens, exec, sessions, stopping, rec, cancels, landed, slow>>
      /\ call' = [by |-> e, at |-> "authed"] /\ exec[e].pc = "run" /\ Held
  BY DEF Call, workerVars, ghosts
<1>2. TypeOK'
  BY <1>1, AgentRunConstants DEF IInv, TypeOK, Attempts
<1>3. RowOK' /\ CallOK' /\ WriteMarked'
  BY <1>1 DEF IInv, RowOK, CallOK, WriteMarked, Held
<1>4. Alive(e) /\ e <= run.attempts /\ run.attempts \in Nat /\ e \in Nat
  BY <1>1, AgentRunConstants DEF IInv, TypeOK, RowOK, Alive, Attempts
<1>5. Calm => Calm'
  <2> SUFFICES ASSUME Calm PROVE Calm'
    OBVIOUS
  <2>1. e = run.attempts
    BY <1>4 DEF Calm
  <2>2. Working /\ run.valid /\ run.status # "queued"
    BY <1>1, <1>4 DEF Calm, Working, Held
  <2>3. call'.by = run.attempts
    BY <1>1, <2>1
  <2>4. \A d \in Attempts : Alive(d)' <=> Alive(d)
    BY <1>1 DEF Alive
  <2> QED
    BY <1>1, <2>2, <2>3, <2>4 DEF Calm
<1> QED
  BY <1>1, <1>2, <1>3, <1>5 DEF IInv

LEMMA ServeStep ==
  ASSUME IInv, MarkWrote \/ Land \/ CallFails
  PROVE  IInv'
<1>1. /\ UNCHANGED <<tokens, exec, sessions, stopping, rec, cancels, slow>>
      /\ run' = run \/ run' = [run EXCEPT !.wrote = TRUE]
      /\ call # NoCall
  BY DEF MarkWrote, Land, CallFails, workerVars, ghosts, NoCall
<1>2. TypeOK /\ call.by \in Attempts
  BY <1>1 DEF IInv, CallOK
<1>3. run' \in Row /\ run'.status = run.status /\ run'.attempts = run.attempts /\ run'.valid = run.valid
  BY ZenonT(30), <1>1, <1>2 DEF TypeOK, Row
<1>4. call' = NoCall \/ call' = [call EXCEPT !.at = "marked"]
  BY DEF MarkWrote, Land, CallFails
<1>5. call' \in [by : 0 .. MaxAttempts, at : {"none", "authed", "marked"}]
  BY <1>2, <1>4, AgentRunConstants DEF TypeOK, NoCall
<1>6. landed' = landed \/ landed' = landed \cup {call.by}
  BY DEF MarkWrote, Land, CallFails, ghosts
<1>7. TypeOK'
  BY <1>1, <1>2, <1>3, <1>5, <1>6 DEF TypeOK, Row
<1>8. RowOK'
  BY <1>1, <1>3 DEF IInv, RowOK, Held
<1>9. CallOK' /\ WriteMarked'
  <2>1. CASE MarkWrote
    <3>1. run'.wrote /\ call'.by = call.by /\ call'.at = "marked"
      BY <1>2, <2>1 DEF MarkWrote, TypeOK
    <3> QED
      BY <1>2, <3>1 DEF CallOK, WriteMarked
  <2>2. CASE Land
    BY <2>2 DEF Land, IInv, CallOK, WriteMarked, NoCall
  <2>3. CASE CallFails
    BY <2>3 DEF CallFails, IInv, CallOK, WriteMarked, NoCall, ghosts
  <2> QED
    BY <2>1, <2>2, <2>3
<1>10. Calm => Calm'
  <2> SUFFICES ASSUME Calm PROVE Calm'
    OBVIOUS
  <2>1. Working /\ run.status # "queued"
    BY <1>1 DEF Working, Calm
  <2>2. \A r \in Reconcilers : rec[r] # "queued"
    BY <2>1 DEF IInv, RowOK, Calm, Released
  <2>3. call.by = run.attempts
    BY <1>2, AgentRunConstants DEF Calm, Attempts
  <2>4. call'.by \in {0, run.attempts}
    BY <1>2, <1>4, <2>3 DEF NoCall, TypeOK
  <2>5. Held' /\ ~run'.valid => FALSE
    BY <1>3, <2>1 DEF Calm, Held
  <2>6. landed' \subseteq {run.attempts}
    BY <1>6, <2>3 DEF Calm
  <2>7. \A d \in Attempts : Alive(d)' <=> Alive(d)
    BY <1>1 DEF Alive
  <2> QED
    BY <1>1, <1>3, <2>1, <2>2, <2>4, <2>5, <2>6, <2>7 DEF Calm
<1> QED
  BY <1>1, <1>7, <1>8, <1>9, <1>10 DEF IInv

-----------------------------------------------------------------------------
(* The end of a lease, and its release.                                    *)
LEMMA ExpireStep ==
  ASSUME IInv, Expire
  PROVE  IInv'
<1>1. /\ UNCHANGED <<call, tokens, exec, sessions, stopping, rec, cancels, landed>>
      /\ run' = [run EXCEPT !.valid = FALSE] /\ slow' = (slow \/ Working)
      /\ Held /\ run.valid
  BY DEF Expire, workerVars
<1>2. TypeOK /\ \A r \in Reconcilers : rec[r] \notin Released
  BY <1>1 DEF IInv, RowOK
<1>3. /\ run' \in Row /\ run'.attempts = run.attempts /\ run'.wrote = run.wrote
      /\ run'.status = "held" /\ ~run'.valid
  BY Zenon, <1>1, <1>2 DEF TypeOK, Row, Held
<1>4. slow' \in BOOLEAN
  BY <1>1, <1>2 DEF TypeOK, Working
<1>5. TypeOK'
  BY <1>1, <1>2, <1>3, <1>4 DEF TypeOK, Row
<1>6. RowOK' /\ CallOK' /\ WriteMarked'
  BY <1>1, <1>2, <1>3 DEF IInv, RowOK, CallOK, WriteMarked, Released
<1>7. ASSUME Calm, ~Working PROVE Calm'
  <2>1. \A d \in Attempts : Alive(d)' <=> Alive(d)
    BY <1>1 DEF Alive
  <2>2. ~Working'
    BY <1>1, <1>7, <2>1 DEF Working
  <2> QED
    BY <1>1, <1>2, <1>3, <1>7, <2>1, <2>2 DEF Calm, Released
<1> QED
  BY Zenon, <1>1, <1>5, <1>6, <1>7 DEF IInv

LEMMA ReconcileStep ==
  ASSUME IInv, NEW r \in Reconcilers, Reconciles(r)
  PROVE  IInv'
<1>1. TypeOK /\ UNCHANGED <<call, exec, sessions, stopping, cancels, landed, slow>>
  BY DEF IInv, Reconciles, ReleaseRead, ReleaseUpdate, RevokeTokens, workerVars, ghosts
<1>2. ExecKeeps
  BY <1>1, SameKeeps
<1>3. CASE ReleaseRead(r)
  <2>1. /\ UNCHANGED <<run, tokens>> /\ Held /\ ~run.valid
        /\ rec' = [rec EXCEPT ![r] = Decision]
    BY <1>3 DEF ReleaseRead
  <2>2. Decision \in Released /\ (Decision = "queued" => ~run.wrote /\ run.attempts < MaxAttempts)
    BY DEF Decision, Released
  <2>3. TypeOK'
    BY <1>1, <2>1, <2>2 DEF TypeOK, Released
  <2>4. \A s \in Reconcilers : rec'[s] = IF s = r THEN Decision ELSE rec[s]
    BY SMTT(20), <1>1, <2>1 DEF TypeOK
  <2>5. RowOK'
    BY <1>1, <2>1, <2>2, <2>4 DEF IInv, RowOK, Held
  <2>6. CallOK' /\ WriteMarked'
    BY <1>1, <2>1 DEF IInv, CallOK, WriteMarked
  <2>7. Working' => Working
    BY SMTT(20), <1>1 DEF Working, Alive
  <2>8. Calm => Calm'
    BY <1>1, <2>1, <2>2, <2>4, <2>7 DEF Calm, Alive, Held
  <2> QED
    BY <1>1, <2>3, <2>5, <2>6, <2>8 DEF IInv
<1>4. CASE ReleaseUpdate(r)
  <2>1. /\ UNCHANGED tokens /\ Held /\ rec[r] \in Released /\ ~run.valid
        /\ run' = [run EXCEPT !.status = rec[r], !.owner = None, !.valid = FALSE]
        /\ \E next \in {"revoke", "idle"} : rec' = [Voided EXCEPT ![r] = next]
    BY Zenon, <1>4 DEF ReleaseUpdate, IInv, RowOK
  <2>2. RecTyped /\ \A s \in Reconcilers : rec'[s] \notin Released
    BY <1>1, <2>1 DEF TypeOK, Voided, RecTyped, Released
  <2>3. rec[r] \in Statuses
    BY <2>1 DEF Released, Statuses, Final
  <2>4. /\ run' \in Row /\ run'.attempts = run.attempts /\ run'.wrote = run.wrote
        /\ run'.status = rec[r]
    BY Zenon, <1>1, <2>1, <2>3 DEF TypeOK, Row
  <2>5. TypeOK'
    BY <1>1, <2>1, <2>2, <2>4 DEF TypeOK, Row, RecTyped
  <2>6. RowOK'
    BY <1>1, <2>2, <2>4 DEF IInv, RowOK, Released
  <2>7. CallOK' /\ WriteMarked'
    BY SMTT(20), <1>1, <2>4 DEF IInv, CallOK, WriteMarked
  <2>8. Calm => Calm'
    <3> SUFFICES ASSUME Calm PROVE Calm'
      OBVIOUS
    <3>1. ~Working'
      BY <1>1, <2>1 DEF Calm, Working, Alive
    <3>2. run'.status = "queued" => ~run'.wrote
      BY Zenon, <2>4 DEF Calm
    <3> QED
      BY Zenon, <1>1, <2>2, <2>4, <3>1, <3>2 DEF Calm, Alive, Released
  <2> QED
    BY <1>1, <2>5, <2>6, <2>7, <2>8 DEF IInv
<1>5. CASE RevokeTokens(r)
  <2>1. tokens' = {} /\ UNCHANGED run /\ rec' = [rec EXCEPT ![r] = "idle"]
    BY <1>5 DEF RevokeTokens
  <2>2. RecTyped /\ \A s \in Reconcilers : rec'[s] \in Released => rec'[s] = rec[s]
    BY <1>1, <2>1 DEF TypeOK, RecTyped, Released
  <2>3. RestTyped /\ run' \in Row
    BY <1>1, <2>1 DEF TypeOK, RestTyped, Row
  <2>4. \A s \in Reconcilers : rec[s] \in Released => Held /\ ~run.valid
    BY DEF IInv, RowOK
  <2> QED
    BY <1>1, <1>2, <2>1, <2>2, <2>3, <2>4, Frame DEF Held, ghosts
<1> QED
  BY <1>3, <1>4, <1>5 DEF Reconciles

(* The cancel calls.                                                       *)
LEMMA CancelStep ==
  ASSUME IInv, (\E c \in Cancellers : CancelFirst(c) \/ CancelSecond(c)) \/ CancelUnclaimed
  PROVE  IInv'
<1>1. TypeOK /\ UNCHANGED <<call, tokens, exec, sessions, stopping, rec, landed, slow>>
  BY DEF IInv, CancelFirst, CancelSecond, CancelUnclaimed, workerVars, ghosts
<1>2. ExecKeeps /\ RecTyped
  BY <1>1, SameKeeps DEF TypeOK, RecTyped
<1>3. cancels' \in [Cancellers -> {"idle", "second", "done"}]
  BY <1>1 DEF TypeOK, CancelFirst, CancelSecond, CancelUnclaimed
<1>4. RestTyped
  BY <1>1, <1>3 DEF TypeOK, RestTyped
<1>5. \/ run' = run
      \/ run' = [run EXCEPT !.status = "canceled"] /\ ~Held
      \/ run' = [run EXCEPT !.cancel = TRUE]
  <2>1. run \in Row
    BY <1>1 DEF TypeOK, Row
  <2>2. [run EXCEPT !.status = run.status] = run /\ [run EXCEPT !.cancel = run.cancel] = run
    BY <2>1 DEF Row
  <2>3. (run.cancel \/ Held) \in BOOLEAN /\ run.cancel \in BOOLEAN
    BY <2>1 DEF Row
  <2>4. CASE \E c \in Cancellers : CancelFirst(c)
    BY <2>2, <2>4 DEF CancelFirst, Held
  <2>5. CASE \E c \in Cancellers : CancelSecond(c)
    BY Zenon, <2>2, <2>3, <2>5 DEF CancelSecond
  <2>6. CASE CancelUnclaimed
    BY <2>6 DEF CancelUnclaimed, Held
  <2> QED
    BY <2>4, <2>5, <2>6
<1>6. /\ run' \in Row /\ run'.attempts = run.attempts /\ run'.wrote = run.wrote /\ run'.valid = run.valid
      /\ run'.status = run.status \/ (run'.status = "canceled" /\ ~Held)
  <2>1. run \in Row /\ "canceled" \in Statuses
    <3>1. run \in Row
      BY Zenon, <1>1 DEF TypeOK, Row
    <3> QED
      BY <3>1 DEF Statuses, Final
  <2>2. CASE run' = run
    BY <2>1, <2>2
  <2>3. CASE run' = [run EXCEPT !.status = "canceled"] /\ ~Held
    BY <2>1, <2>3 DEF Row
  <2>4. CASE run' = [run EXCEPT !.cancel = TRUE]
    BY Zenon, <2>1, <2>4 DEF Row
  <2> QED
    BY <1>5, <2>2, <2>3, <2>4
<1>7. \A r \in Reconcilers : rec[r] \in Released => Held /\ ~run.valid
  BY DEF IInv, RowOK
<1> QED
  BY <1>1, <1>2, <1>4, <1>6, <1>7, Frame DEF Held, ghosts

-----------------------------------------------------------------------------
LEMMA NextIInv == IInv /\ [Next]_vars => IInv'
<1> SUFFICES ASSUME IInv, [Next]_vars PROVE IInv'
  OBVIOUS
<1>1. CASE UNCHANGED vars
  <2>1. TypeOK /\ UNCHANGED <<run, rec, call, ghosts>> /\ UNCHANGED <<tokens, sessions, stopping, cancels>> /\ UNCHANGED exec
    BY <1>1 DEF IInv, vars, workerVars
  <2> QED
    BY <2>1, SameKeeps, RestSame, RowFrame
<1>2. CASE \E e \in Attempts : Executes(e)
  BY <1>2, ExecutesStep, CallStep
<1> QED
  BY <1>1, <1>2, ClaimStep, WorkerStep, ServeStep, ExpireStep, ReconcileStep, CancelStep DEF Next

(* The invariant above holds in every reachable state.                     *)
LEMMA InvariantHolds == Spec => []IInv
  BY InitIInv, NextIInv, PTL DEF Spec

(* The row, the executions and the calls keep their types.  In particular  *)
(* no more than MaxAttempts attempts are opened, although the release that *)
(* queues a run again decides on an earlier read.                          *)
THEOREM RunTypeCorrect == Spec => []TypeOK
<1>1. IInv => TypeOK
  BY DEF IInv
<1> QED
  BY <1>1, InvariantHolds, PTL

(* A write of an agent run that took effect is always recorded on its row. *)
THEOREM WritesAlwaysMarked == Spec => []WriteMarked
<1>1. IInv => WriteMarked
  BY DEF IInv
<1> QED
  BY <1>1, InvariantHolds, PTL

(* As long as no lease expires under a working execution, only one attempt *)
(* of a run ever writes.                                                   *)
THEOREM NoSilentRepeat == Spec => []WritesOnce
<1>1. IInv => WritesOnce
  BY DEF IInv, WritesOnce, Calm
<1> QED
  BY <1>1, InvariantHolds, PTL

(* A run that ended stays as it ended, and one that waits for an answer is *)
(* only cancelled: no late call of a worker or release moves it.           *)
THEOREM RunEndedForGood == Spec => EndedForGood
<1> DEFINE Kept == /\ run.status \in Final => run'.status = run.status
                   /\ run.status = "awaiting" => run'.status \in {"awaiting", "canceled"}
<1>1. ASSUME IInv, [Next]_vars PROVE Kept
  <2>1. run \in Row
    BY <1>1 DEF IInv, TypeOK, Row
  <2>2. CASE Held
    BY <2>2 DEF Held, Final
  <2>3. CASE run.status = "queued"
    BY <2>3 DEF Final
  <2>4. CASE ~Held /\ run.status # "queued"
    <3>1. \A e \in Attempts : Executes(e) => UNCHANGED run
      BY ZenonT(30), <2>4 DEF Executes, Token, Unreadable, Begin, End, Complete, CompleteFailed, Heartbeat, Call,
                  FinishAgentRun, Unfinished, Holds
    <3>2. \A r \in Reconcilers : Reconciles(r) => UNCHANGED run
      BY <2>4 DEF Reconciles, ReleaseRead, ReleaseUpdate, RevokeTokens
    <3>3. \A w \in Workers, heard \in BOOLEAN : ~Claim(w, heard)
      BY <2>4 DEF Claim
    <3>4. (\E w \in Workers : Watch(w) \/ Crash(w)) \/ Land \/ CallFails => UNCHANGED run
      BY DEF Watch, Crash, Land, CallFails
    <3>5. MarkWrote \/ (\E c \in Cancellers : CancelSecond(c)) => run'.status = run.status
      BY <2>1 DEF MarkWrote, CancelSecond, Row
    <3>6. ASSUME NEW c \in Cancellers, CancelFirst(c) PROVE Kept
      BY <2>1, <3>6 DEF CancelFirst, Row, Final
    <3>7. ~CancelUnclaimed /\ ~Expire
      BY <2>4 DEF CancelUnclaimed, Expire
    <3> QED
      BY SMTT(20), <1>1, <3>1, <3>2, <3>3, <3>4, <3>5, <3>6, <3>7 DEF Next, vars
  <2> QED
    BY <2>2, <2>3, <2>4
<1>2. IInv /\ [Next]_vars => [Kept]_vars
  BY <1>1
<1> QED
  BY <1>2, InvariantHolds, PTL DEF Spec, EndedForGood
=============================================================================
