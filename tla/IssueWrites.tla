----------------------------- MODULE IssueWrites -----------------------------
(***************************************************************************)
(* A browser tab's queue of issue writes                                   *)
(* (web/src/lib/issue-mutation-queue.ts) against the API's version check   *)
(* per field (api/internal/store/issue_field_history.go).                  *)
(*                                                                         *)
(* A tab sends one write per issue at a time and moves the expected        *)
(* version of a queued edit past the versions that its own writes made.    *)
(* The API accepts a stale version when none of the edited fields changed  *)
(* since.  Calls are numbered in the order the tab makes them.  Values are *)
(* abstracted to the call that set them; a write may repeat the stored     *)
(* values.  Other sessions write at any time.                              *)
(***************************************************************************)
EXTENDS Naturals, FiniteSets

CONSTANTS
  Issues,
  Fields,      \* the fields that a PATCH can carry
  State,       \* the field that closing an issue sets
  Affects,     \* Affects[i]: issues that closing i can close with it
  Writes,      \* the writes that the tab's user can ask for
  MaxCalls,    \* calls of the tab in a behaviour
  MaxOthers,   \* MaxOthers[i]: writes of other sessions to i in a behaviour
  MaxVersion   \* versions of an issue in a behaviour

ASSUME WriteConstants ==
  /\ State \in Fields /\ Affects \in [Issues -> SUBSET Issues]
  /\ \A w \in Writes : /\ w.ids \in (SUBSET Issues) \ {{}} /\ w.fields \subseteq Fields
                         /\ w.kind \in {"fields", "document", "write"}
  /\ MaxCalls \in Nat /\ MaxOthers \in [Issues -> Nat] /\ MaxVersion \in Nat \ {0}

VARIABLES
  made,       \* calls made so far
  task,       \* what became of each call
  tails,      \* the last call queued for an issue, 0 for none
  lineages,   \* the run of versions the tab's writes made, [0, 0] for none
  conflicts,  \* the version of a conflict that queued edits share, 0 for none
  waiting,    \* the queued update that takes later edits in, 0 for none
  screen,     \* the version of an issue that the tab last showed
  version,    \* stored version
  history,    \* issueFieldHistory.Fields: the version that last changed a field
  others,     \* versions that other sessions made
  known,      \* versions the tab was told of as made by its own writes
  strayed     \* versions of its own writes that the tab was told of out of order

queueVars == <<made, task, tails, lineages, conflicts, waiting>>
storeVars == <<version, history, others>>
heardVars == <<known, strayed>>
vars == <<queueVars, screen, storeVars, heardVars>>

Calls == 1 .. MaxCalls
Versions == 1 .. MaxVersion
NoBody == [f \in Fields |-> 0]
NoVersions == [i \in Issues |-> 0]
NoLineage == [from |-> 0, to |-> 0]

(* A call.  kind: "fields" or "document" of queueIssueUpdate, "write" for  *)
(* the others.  body: which call set a field, 0 for a field not written.   *)
(* wire: the body as sent.  A call merged into another has that in `into`. *)
NoCall == [pc |-> "none", ids |-> {}, kind |-> "write", base |-> 0, body |-> NoBody,
           wire |-> NoBody, sent |-> 0, after |-> {}, into |-> 0,
           status |-> "none", at |-> NoVersions]

Issue(t) == CHOOSE i \in task[t].ids : TRUE

-----------------------------------------------------------------------------
(* The queue.                                                              *)
versionToSend(i, expected) ==
  IF expected # 0 /\ lineages[i].from <= expected /\ expected < lineages[i].to
  THEN lineages[i].to
  ELSE expected

(* What a queued call does when its turn comes.  An edit behind a conflict *)
(* that is newer than its base shares that conflict.                       *)
run(c, call) ==
  LET i == CHOOSE j \in call.ids : TRUE
      update == call.kind # "write"
  IN IF update /\ conflicts[i] # 0 /\ call.base # 0 /\ call.base < conflicts[i]
     THEN [call EXCEPT !.pc = "returned", !.status = "shared"]
     ELSE [call EXCEPT !.pc = "sent", !.wire = call.body,
                       !.sent = IF update THEN versionToSend(i, call.base) ELSE 0,
                       !.after = {}]

(* A slip: a call waits for the tail of only one of its issues.            *)
EnqueueBehindOne(c, call) ==
  LET tailsOf == {tails[i] : i \in call.ids} \ {0}
      previous == IF tailsOf = {} THEN {} ELSE {CHOOSE t \in tailsOf : TRUE}
      queued == [call EXCEPT !.pc = "queued", !.after = previous]
  IN /\ made' = c
     /\ tails' = [i \in Issues |-> IF i \in call.ids THEN c ELSE tails[i]]
     /\ task' = [task EXCEPT ![c] = IF previous = {} THEN run(c, queued) ELSE queued]

enqueue(c, call) ==
  LET previous == {tails[i] : i \in call.ids} \ {0}
      queued == [call EXCEPT !.pc = "queued", !.after = previous]
  IN /\ made' = c
     /\ tails' = [i \in Issues |-> IF i \in call.ids THEN c ELSE tails[i]]
     /\ task' = [task EXCEPT ![c] = IF previous = {} THEN run(c, queued) ELSE queued]

Body(c, F) == [f \in Fields |-> IF f \in F THEN c ELSE 0]

(* queueIssueUpdate: consecutive field edits from the same version that    *)
(* still wait become one request.                                          *)
Mergeable(i, call) ==
  /\ waiting[i] # 0
  /\ task[waiting[i]].kind = "fields" /\ call.kind = "fields"
  /\ task[waiting[i]].base = call.base

queueIssueUpdate(i, F, kind, expected) ==
  LET c == made + 1
      call == [NoCall EXCEPT !.ids = {i}, !.kind = kind, !.body = Body(c, F), !.base = expected]
      w == waiting[i]
  IN /\ c \in Calls
     /\ IF Mergeable(i, call)
        THEN /\ made' = c
             /\ task' = [task EXCEPT ![c] = [call EXCEPT !.pc = "merged", !.into = w],
                                     ![w].body = [f \in Fields |-> IF f \in F THEN c ELSE @[f]]]
             /\ UNCHANGED <<tails, waiting>>
        ELSE /\ enqueue(c, call)
             /\ waiting' = [waiting EXCEPT ![i] = IF tails[i] # 0 THEN c ELSE 0]
     /\ UNCHANGED <<lineages, conflicts, storeVars, heardVars>>

(* queueIssueWrite (a reaction, which sets no field of a PATCH) and        *)
(* queueIssuesWrite (a batch).                                             *)
queueIssuesWrite(ids, F) ==
  LET c == made + 1
  IN /\ c \in Calls
     /\ enqueue(c, [NoCall EXCEPT !.ids = ids, !.body = Body(c, F)])
     /\ waiting' = [i \in Issues |-> IF i \in ids THEN 0 ELSE waiting[i]]
     /\ UNCHANGED <<lineages, conflicts, screen, storeVars, heardVars>>

(* A slip: an update that was sent still takes later edits in.             *)
StartStillOpen(t) ==
  /\ task[t].pc = "queued" /\ \A a \in task[t].after : task[a].pc = "settled"
  /\ task' = [task EXCEPT ![t] = run(t, task[t])]
  /\ UNCHANGED <<waiting, made, tails, lineages, conflicts, screen, storeVars, heardVars>>

Start(t) ==
  /\ task[t].pc = "queued" /\ \A a \in task[t].after : task[a].pc = "settled"
  /\ task' = [task EXCEPT ![t] = run(t, task[t])]
  /\ waiting' = [i \in Issues |-> IF waiting[i] = t THEN 0 ELSE waiting[i]]
  /\ UNCHANGED <<made, tails, lineages, conflicts, screen, storeVars, heardVars>>

(* A slip: the tail of a call that failed does not resolve.                *)
SettleFulfilled(t) ==
  /\ task[t].pc = "returned" /\ task[t].status = "ok"
  /\ task' = [task EXCEPT ![t] = [NoCall EXCEPT !.pc = "settled", !.ids = task[t].ids]]
  /\ LET last == {i \in task[t].ids : tails[i] = t}
     IN /\ tails' = [i \in Issues |-> IF i \in last THEN 0 ELSE tails[i]]
        /\ conflicts' = [i \in Issues |-> IF i \in last THEN 0 ELSE conflicts[i]]
  /\ UNCHANGED <<made, lineages, waiting, screen, storeVars, heardVars>>

(* A slip: the shared conflict stays when the queue of its issue is empty. *)
SettleKeepingConflict(t) ==
  /\ task[t].pc = "returned"
  /\ task' = [task EXCEPT ![t] = [NoCall EXCEPT !.pc = "settled", !.ids = task[t].ids]]
  /\ tails' = [i \in Issues |-> IF tails[i] = t THEN 0 ELSE tails[i]]
  /\ UNCHANGED <<made, lineages, conflicts, waiting, screen, storeVars, heardVars>>

(* The tail of a call resolves, whether the call failed or not.  What the  *)
(* call held is of no use any more.                                        *)
Settle(t) ==
  /\ task[t].pc = "returned"
  /\ task' = [task EXCEPT ![t] = [NoCall EXCEPT !.pc = "settled", !.ids = task[t].ids]]
  /\ LET last == {i \in task[t].ids : tails[i] = t}
     IN /\ tails' = [i \in Issues |-> IF i \in last THEN 0 ELSE tails[i]]
        /\ conflicts' = [i \in Issues |-> IF i \in last THEN 0 ELSE conflicts[i]]
  /\ UNCHANGED <<made, lineages, waiting, screen, storeVars, heardVars>>

-----------------------------------------------------------------------------
(* The API.                                                                *)
(* checkIssueFieldVersion: the stored version, or an older one since which *)
(* none of the fields changed.                                             *)
FieldsUnchanged(i, t) ==
  LET sent == task[t].sent
  IN \/ sent = 0 \/ sent = version[i]
     \/ sent < version[i] /\ \A f \in Fields : task[t].wire[f] # 0 => history[i][f] <= sent

(* The write changes the issues C, and closes the issues S with them.  An  *)
(* issue of both is raised twice.                                          *)
Raised(C, S) == [i \in Issues |-> version[i] + (IF i \in C THEN 1 ELSE 0) + (IF i \in S THEN 1 ELSE 0)]

Store(t, C, S) ==
  /\ \A i \in Issues : Raised(C, S)[i] <= MaxVersion
  /\ version' = Raised(C, S)
  /\ history' = [i \in Issues |-> [f \in Fields |->
       IF (i \in C /\ task[t].wire[f] # 0) \/ (i \in S /\ f = State) THEN Raised(C, S)[i] ELSE history[i][f]]]

(* UpdateIssueRecord and the batch and reaction handlers.  The issues of C *)
(* change; the others repeat stored values and keep their version, which a *)
(* reaction never does.  The answer names the written issues and those     *)
(* affected beside them.                                                   *)
Serve(t, C) ==
  /\ task[t].pc = "sent" /\ C \subseteq task[t].ids
  /\ task[t].wire = NoBody => C = task[t].ids
  /\ \A i \in task[t].ids : FieldsUnchanged(i, t)
  /\ \E S \in SUBSET UNION {Affects[i] : i \in {j \in C : task[t].wire[State] # 0}} :
       /\ Store(t, C, S)
       /\ task' = [task EXCEPT ![t].pc = "served", ![t].status = "ok",
                               ![t].at = [i \in Issues |-> IF i \in task[t].ids \cup S THEN Raised(C, S)[i] ELSE 0]]
  /\ UNCHANGED <<made, tails, lineages, conflicts, waiting, screen, others, heardVars>>

(* 409 with the current issue.                                             *)
Refuse(t) ==
  /\ task[t].pc = "sent" /\ \E i \in task[t].ids : ~FieldsUnchanged(i, t)
  /\ task' = [task EXCEPT ![t].pc = "served", ![t].status = "conflict",
                          ![t].at = [i \in Issues |-> IF i \in task[t].ids THEN version[i] ELSE 0]]
  /\ UNCHANGED <<made, tails, lineages, conflicts, waiting, screen, storeVars, heardVars>>

(* Another session writes an issue.                                        *)
OtherWrite(i, F) ==
  /\ version[i] < MaxVersion /\ Cardinality(others[i]) < MaxOthers[i]
  /\ version' = [version EXCEPT ![i] = @ + 1]
  /\ history' = [history EXCEPT ![i] = [f \in Fields |-> IF f \in F THEN version[i] + 1 ELSE @[f]]]
  /\ others' = [others EXCEPT ![i] = @ \cup {version[i] + 1}]
  /\ UNCHANGED <<queueVars, screen, heardVars>>

-----------------------------------------------------------------------------
(* The answer.                                                             *)
(* A slip: the run of versions starts anew with every write.               *)
RecordLast(i, sent, v) ==
  IF sent # 0
  THEN IF v <= sent THEN lineages[i] ELSE [from |-> sent, to |-> v]
  ELSE IF v <= lineages[i].to THEN lineages[i] ELSE [from |-> v - 1, to |-> v]

(* A slip: an answer that raised no version starts a run of its own.       *)
RecordUnraised(i, sent, v) ==
  IF sent # 0 THEN [from |-> sent, to |-> v]
  ELSE IF v <= lineages[i].to THEN lineages[i] ELSE [from |-> v - 1, to |-> v]

(* recordWrite extends the run when the write was sent with its end, or    *)
(* (a write without a version) when it is one above its end.               *)
recordWrite(i, sent, v) ==
  LET lineage == lineages[i]
      From(end, start) == IF lineage # NoLineage /\ lineage.to = end THEN lineage.from ELSE start
  IN IF sent # 0
     THEN IF v <= sent THEN lineage ELSE [from |-> From(sent, sent), to |-> v]
     ELSE IF lineage # NoLineage /\ v <= lineage.to THEN lineage
          ELSE [from |-> From(v - 1, v - 1), to |-> v]

(* The tab can tell that a version is its own: the answer to a write names *)
(* a version above the one it was sent with; or the version is a side      *)
(* effect that it hears of in order, before every later version and while  *)
(* no write of that same issue is on its way.                              *)
Heard(t, i) ==
  /\ task[t].at[i] \notin others[i] \cup strayed[i] \cup {0}
  /\ \/ i \in task[t].ids /\ task[t].at[i] > task[t].sent
     \/ /\ i \notin task[t].ids
        /\ \A v \in known[i] : v < task[t].at[i]
        /\ \A u \in Calls : i \in task[u].ids => task[u].pc \notin {"sent", "served"}

(* A side effect that the tab hears of out of order.                       *)
Strays(t, i) == i \notin task[t].ids /\ ~Heard(t, i) /\ task[t].at[i] \notin known[i] \cup {0}

ReturnOk(t) ==
  /\ task[t].pc = "served" /\ task[t].status = "ok"
  /\ lineages' = [i \in Issues |-> IF task[t].at[i] = 0 THEN lineages[i]
                                   ELSE recordWrite(i, IF i \in task[t].ids THEN task[t].sent ELSE 0, task[t].at[i])]
  /\ known' = [i \in Issues |-> IF Heard(t, i) THEN known[i] \cup {task[t].at[i]} ELSE known[i]]
  /\ strayed' = [i \in Issues |-> IF Strays(t, i) THEN strayed[i] \cup {task[t].at[i]} ELSE strayed[i]]
  /\ task' = [task EXCEPT ![t].pc = "returned", ![t].sent = 0, ![t].base = 0, ![t].at = NoVersions]
  /\ screen' \in {screen, [i \in Issues |-> IF i \in task[t].ids THEN task[t].at[i] ELSE screen[i]]}
  /\ UNCHANGED <<made, tails, conflicts, waiting, storeVars>>

(* recordFailure.  The tab shows the current issue.                        *)
ReturnConflict(t) ==
  /\ task[t].pc = "served" /\ task[t].status = "conflict"
  /\ lineages' = [lineages EXCEPT ![Issue(t)] = NoLineage]
  /\ conflicts' = [conflicts EXCEPT ![Issue(t)] = task[t].at[Issue(t)]]
  /\ screen' = [screen EXCEPT ![Issue(t)] = task[t].at[Issue(t)]]
  /\ task' = [task EXCEPT ![t].pc = "returned", ![t].sent = 0, ![t].base = 0, ![t].at = NoVersions]
  /\ UNCHANGED <<made, tails, waiting, storeVars, heardVars>>

(* The request fails without an answer; the API has served it or not.      *)
ReturnError(t) ==
  /\ task[t].pc \in {"sent", "served"}
  /\ task' = [task EXCEPT ![t].pc = "returned", ![t].status = "error", ![t].sent = 0, ![t].base = 0, ![t].at = NoVersions]
  /\ UNCHANGED <<made, tails, lineages, conflicts, waiting, screen, storeVars, heardVars>>

-----------------------------------------------------------------------------
Init ==
  /\ made = 0 /\ task = [c \in Calls |-> NoCall]
  /\ tails = [i \in Issues |-> 0] /\ waiting = [i \in Issues |-> 0]
  /\ lineages = [i \in Issues |-> NoLineage] /\ conflicts = [i \in Issues |-> 0]
  /\ screen = [i \in Issues |-> 1] /\ version = [i \in Issues |-> 1]
  /\ history = [i \in Issues |-> [f \in Fields |-> 1]]
  /\ others = [i \in Issues |-> {}] /\ known = [i \in Issues |-> {}] /\ strayed = [i \in Issues |-> {}]

Queue(t) == Start(t) \/ Settle(t) \/ ReturnOk(t) \/ ReturnConflict(t)

(* The user asks for a write.  A versioned edit starts from the version on *)
(* the screen, which a realtime update or a reload may have moved forward. *)
Ask(w) ==
  \/ w.kind = "write" /\ queueIssuesWrite(w.ids, w.fields)
  \/ /\ w.kind # "write" /\ w.versioned
     /\ \E i \in w.ids : \E v \in screen[i] .. version[i] :
          queueIssueUpdate(i, w.fields, w.kind, v) /\ screen' = [screen EXCEPT ![i] = v]
  \/ /\ w.kind # "write" /\ ~w.versioned
     /\ \E i \in w.ids : queueIssueUpdate(i, w.fields, w.kind, 0) /\ UNCHANGED screen

Next ==
  \/ \E w \in Writes : Ask(w)
  \/ \E i \in Issues, f \in Fields : OtherWrite(i, {f})
  \/ \E t \in Calls : Queue(t) \/ Refuse(t) \/ ReturnError(t)
  \/ \E t \in Calls, C \in SUBSET Issues : Serve(t, C)

Spec == Init /\ [][Next]_vars

(* Requests end, with an answer or an error; promise reactions run.        *)
Fairness ==
  /\ WF_vars(\E t \in Calls : Queue(t))
  /\ WF_vars(\E t \in Calls : Refuse(t) \/ ReturnError(t) \/ \E C \in SUBSET Issues : Serve(t, C))

FairSpec == Spec /\ Fairness

-----------------------------------------------------------------------------
(* The variables have their types; a remembered run of versions is not     *)
(* empty and ends at a version the issue has reached (recordWrite).        *)
TypeOK ==
  /\ made \in 0 .. MaxCalls
  /\ tails \in [Issues -> 0 .. MaxCalls] /\ waiting \in [Issues -> 0 .. MaxCalls]
  /\ conflicts \in [Issues -> 0 .. MaxVersion] /\ screen \in [Issues -> Versions]
  /\ version \in [Issues -> Versions] /\ history \in [Issues -> [Fields -> Versions]]
  /\ others \in [Issues -> SUBSET Versions] /\ known \in [Issues -> SUBSET Versions]
  /\ strayed \in [Issues -> SUBSET Versions]
  /\ \A i \in Issues : lineages[i] # NoLineage => lineages[i].from < lineages[i].to /\ lineages[i].to <= version[i]

(* The call that carries what call c writes.                               *)
Carrier(c) == IF task[c].pc = "merged" THEN task[c].into ELSE c

(* Writes of one issue reach the API one after another in the order of the *)
(* calls, merged edits and batches over several issues included            *)
(* (issue-mutation-queue.ts: enqueue, waiting): once the request that      *)
(* carries a call was sent, the calls before it are settled.               *)
CalledOrder ==
  \A c, d \in Calls :
    /\ c < d /\ d <= made /\ task[c].ids \cap task[d].ids # {} /\ Carrier(c) # Carrier(d)
    /\ task[Carrier(d)].pc \notin {"none", "queued"}
    => task[Carrier(c)].pc = "settled"

(* A promise fulfils only when its write was in an accepted request: an    *)
(* edit merged into a waiting update (Object.assign on its input) was in   *)
(* the body that was sent, unless a later edit set the same field.         *)
FulfilledSent ==
  \A c \in Calls :
    task[Carrier(c)].status = "ok" /\ c <= made =>
      \A f \in Fields : task[c].body[f] # 0 => task[Carrier(c)].wire[f] >= c

(* A shared conflict does not outlive the queue of its issue               *)
(* (conflicts.delete in enqueue): an edit from the reloaded issue is sent. *)
ConflictsExpire == \A i \in Issues : conflicts[i] # 0 => tails[i] # 0

(* The tab's own writes do not conflict with each other: a 409 answers an  *)
(* edit only if, since the version it was based on, the issue got a        *)
(* version that the tab could not know to be its own.                      *)
OwnWritesChain ==
  [][\A t \in Calls : Refuse(t) =>
       \E v \in task[t].base + 1 .. version[Issue(t)] : v \notin known[Issue(t)]]_vars

(* An accepted edit overwrites no field that another session changed after *)
(* the version the edit was based on (issue-mutation-queue.ts:15-17).      *)
NoLostUpdate ==
  [][\A t \in Calls :
       task[t].pc = "sent" /\ task'[t].status = "ok" /\ task[t].base # 0 =>
         \A f \in Fields : LET i == Issue(t)
           IN history[i][f] \in others[i] /\ history'[i][f] # history[i][f] => history[i][f] <= task[t].base]_vars

(* Once the user stops, every call settles, also behind calls that failed: *)
(* the queue does not block (the tail swallows the error, a batch waits    *)
(* for the tails of several issues).                                       *)
AllSettle == <>[](\A c \in Calls : task[c].pc \in {"none", "merged", "settled"})
=============================================================================
