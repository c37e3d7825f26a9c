------------------------- MODULE IssueWritesProofs --------------------------
(***************************************************************************)
(* Theorems about IssueWrites, for any issues, fields, effects of closing  *)
(* and kinds of writes, and any number of calls and versions.              *)
(*                                                                         *)
(* That writes keep their order needs an account of the chains of tails: a *)
(* call of an issue is settled or not behind the tail, a queued call waits *)
(* for a call that is not before any unsettled one, and between an update  *)
(* and an edit merged into it lies no other call of the issue.             *)
(*                                                                         *)
(* That the tab's own writes do not conflict needs an account of the runs  *)
(* of versions that are its own: the run an edit may still start from is   *)
(* the remembered one, and what was sent is the end of such a run.         *)
(***************************************************************************)
EXTENDS IssueWrites, TLAPS

Sets == [Fields -> 0 .. MaxCalls]

Lineage == [from : 0 .. MaxVersion, to : 0 .. MaxVersion]

CallType ==
  [pc : {"none", "queued", "sent", "served", "returned", "settled", "merged"}, ids : SUBSET Issues,
   kind : {"fields", "document", "write"}, base : 0 .. MaxVersion, body : Sets, wire : Sets,
   sent : 0 .. MaxVersion, after : SUBSET Calls, into : 0 .. MaxCalls,
   status : {"none", "ok", "conflict", "error", "shared"}, at : [Issues -> 0 .. MaxVersion]]

Typed == TypeOK /\ task \in [Calls -> CallType] /\ lineages \in [Issues -> Lineage]

(* Call c has a place of its own in the queue of issue i.                  *)
Own(c, i) == task[c].pc \notin {"none", "merged"} /\ i \in task[c].ids

Waits(d, c, i) == \E a \in task[d].after : Own(a, i) /\ c <= a /\ a < d

(* Of two calls of an issue, the earlier is settled or the later waits.    *)
OrderOK ==
  \A c, d \in Calls, i \in Issues :
    c < d /\ Own(c, i) /\ Own(d, i) =>
      task[c].pc = "settled" \/ (task[d].pc = "queued" /\ Waits(d, c, i))

TailsOK ==
  /\ \A c \in Calls : task[c].pc = "none" <=> c > made
  /\ \A i \in Issues : tails[i] # 0 => Own(tails[i], i) /\ task[tails[i]].pc # "settled"
  /\ \A c \in Calls, i \in Issues :
       Own(c, i) => IF tails[i] = 0 THEN task[c].pc = "settled" ELSE c <= tails[i]

WaitingOK ==
  \A i \in Issues : waiting[i] # 0 =>
    waiting[i] = tails[i] /\ task[waiting[i]].pc = "queued" /\ task[waiting[i]].ids = {i}

(* A merged edit and the update that it joined.                            *)
MergedOK ==
  \A c \in Calls : task[c].pc = "merged" =>
    LET w == task[c].into
    IN /\ w \in Calls /\ w < c /\ task[w].pc \notin {"none", "merged"} /\ task[w].ids = task[c].ids
       /\ \A d \in Calls, i \in Issues : i \in task[c].ids /\ Own(d, i) => d <= w \/ d > c

(* What a body holds, and that the sent one is it.                         *)
BodyOK ==
  \A c \in Calls :
    /\ \A f \in Fields : task[c].body[f] # 0 => task[c].body[f] >= c
    /\ task[c].pc = "merged" /\ task[task[c].into].pc # "settled" =>
         \A f \in Fields : task[c].body[f] # 0 => task[task[c].into].body[f] >= c
    /\ task[c].pc = "sent" \/ task[c].status # "none" => task[c].pc \in {"sent", "served", "returned"}
    /\ task[c].pc = "sent" \/ task[c].status = "ok" => task[c].wire = task[c].body

(* An answer tells versions that the issues have had.                      *)
AnswerOK ==
  \A c \in Calls : task[c].pc = "served" =>
    \A i \in Issues : task[c].at[i] <= version[i] /\ (i \in task[c].ids => task[c].at[i] # 0)

PlacesOK == \A c \in Calls : task[c].pc # "none" => task[c].ids # {}

IInv == Typed /\ OrderOK /\ TailsOK /\ WaitingOK /\ MergedOK /\ BodyOK /\ AnswerOK /\ PlacesOK /\ ConflictsExpire

-----------------------------------------------------------------------------
LEMMA Constants == MaxCalls \in Nat /\ MaxVersion \in Nat /\ 1 \in Versions /\ Calls \subseteq Nat \ {0}
  BY WriteConstants DEF Versions, Calls

LEMMA Orders == (0 .. MaxVersion) \subseteq Nat /\ Versions \subseteq Nat /\ \A n \in Nat : n <= n
  BY Constants DEF Versions

LEMMA OrderFacts ==
  /\ \A n \in Nat : 0 <= n
  /\ \A m, n \in Nat : /\ m < n => m <= n /\ ~(n <= m)
                       /\ (n # 0 => ~(m < n)) => n <= m
  /\ \A k, m, n \in Nat : k <= m /\ m <= n => k <= n
  BY SMT

LEMMA VersionFacts ==
  /\ \A v \in 0 .. MaxVersion : v # 0 => v \in Versions
  /\ \A v \in Versions : v # 0 /\ v \in 0 .. MaxVersion
  BY SMT, Constants DEF Versions

LEMMA NoCallTyped == NoCall \in CallType /\ NoCall.pc = "none" /\ NoCall.ids = {} /\ NoCall.body = NoBody /\ NoCall.status = "none"
  BY Constants DEF NoCall, CallType, NoBody, NoVersions, Sets

LEMMA InitIInv == Init => IInv
<1> SUFFICES ASSUME Init PROVE IInv
  BY Zenon
<1>1. \A c \in Calls : task[c] = NoCall
  BY Zenon DEF Init
<1>2. NoLineage \in Lineage
  BY Constants DEF NoLineage, Lineage
<1>3. TypeOK
  BY Constants DEF Init, TypeOK, Versions
<1>4. Typed
  BY Zenon, <1>2, <1>3, NoCallTyped DEF Init, Typed
<1>5. \A c \in Calls : task[c].pc = "none" /\ task[c].status = "none" /\ \A f \in Fields : task[c].body[f] = 0
  BY Zenon, <1>1, NoCallTyped DEF NoBody
<1>6. OrderOK /\ MergedOK /\ AnswerOK /\ PlacesOK
  BY Zenon, <1>5 DEF OrderOK, MergedOK, AnswerOK, PlacesOK, Own
<1>7. TailsOK /\ WaitingOK /\ ConflictsExpire
  BY <1>5, Constants DEF Init, TailsOK, WaitingOK, ConflictsExpire, Own
<1>8. BodyOK
  BY Zenon, <1>5 DEF BodyOK
<1> QED
  BY Zenon, <1>4, <1>6, <1>7, <1>8 DEF IInv

QueueOK == OrderOK /\ TailsOK /\ WaitingOK /\ MergedOK /\ PlacesOK

(* One call takes a step, from its start to its answer: it keeps its place *)
(* in the queue.  It starts when those it waits for are settled.           *)
LEMMA PlaceKept ==
  ASSUME Typed, QueueOK, NEW t \in Calls, NEW x \in CallType, task' = [task EXCEPT ![t] = x],
         task[t].pc \in {"queued", "sent", "served"}, x.pc \in {"sent", "served", "returned"},
         x.ids = task[t].ids,
         task[t].pc = "queued" => \A a \in task[t].after : task[a].pc = "settled",
         UNCHANGED <<made, tails>>,
         \A i \in Issues : waiting'[i] # 0 => waiting'[i] = waiting[i] /\ waiting[i] # t
  PROVE  QueueOK'
<1> USE DEF QueueOK
<1>1. task'[t] = x /\ \A c \in Calls : c # t => task'[c] = task[c]
  BY Zenon DEF Typed
<1>2. \A c \in Calls : task'[c].ids = task[c].ids /\ task[c].after \subseteq Calls
  BY Zenon, <1>1 DEF Typed, CallType
<1>3. \A c \in Calls, i \in Issues : Own(c, i)' <=> Own(c, i)
  BY Zenon, <1>1, <1>2 DEF Own
<1>4. \A c \in Calls : /\ (task'[c].pc = "settled" <=> task[c].pc = "settled")
                       /\ (task'[c].pc = "none" <=> task[c].pc = "none")
                       /\ (task'[c].pc = "merged" <=> task[c].pc = "merged")
  BY Zenon, <1>1
<1>5. OrderOK'
  <2> SUFFICES ASSUME NEW c \in Calls, NEW d \in Calls, NEW i \in Issues, c < d, Own(c, i), Own(d, i),
                      task[c].pc # "settled"
               PROVE  task'[d].pc = "queued" /\ Waits(d, c, i)'
    BY Zenon, <1>3, <1>4 DEF OrderOK
  <2>1. task[d].pc = "queued" /\ Waits(d, c, i)
    BY Zenon DEF OrderOK
  <2>2. PICK a \in task[d].after : Own(a, i) /\ c <= a /\ a < d
    BY Zenon, <2>1 DEF Waits
  <2>3. a \in Calls /\ c \in Nat /\ a \in Nat
    BY Zenon, <1>2, <2>2, Constants
  <2>4. d # t
    <3> SUFFICES ASSUME d = t PROVE FALSE
      BY Zenon
    <3>1. task[a].pc = "settled"
      BY Zenon, <2>1, <2>2
    <3>2. c < a
      BY <2>2, <2>3, <3>1
    <3> QED
      BY Zenon, <2>2, <2>3, <3>1, <3>2 DEF OrderOK
  <2>5. task'[d] = task[d]
    BY Zenon, <1>1, <2>4
  <2> QED
    BY Zenon, <1>3, <2>1, <2>2, <2>3, <2>5 DEF Waits
<1>6. TailsOK'
  <2>1. \A i \in Issues : tails[i] # 0 => tails[i] \in Calls
    BY DEF Typed, TypeOK, Calls
  <2> QED
    BY <1>3, <1>4, <2>1 DEF TailsOK
<1>7. WaitingOK'
  <2>1. \A i \in Issues : waiting[i] # 0 => waiting[i] \in Calls
    BY DEF Typed, TypeOK, Calls
  <2> QED
    BY <1>1, <2>1 DEF WaitingOK
<1>8. MergedOK'
  <2> SUFFICES ASSUME NEW c \in Calls, task[c].pc = "merged"
               PROVE  LET w == task'[c].into
                      IN /\ w \in Calls /\ w < c /\ task'[w].pc \notin {"none", "merged"} /\ task'[w].ids = task'[c].ids
                         /\ \A d \in Calls, i \in Issues : i \in task'[c].ids /\ Own(d, i)' => d <= w \/ d > c
    BY Zenon, <1>4 DEF MergedOK
  <2>1. task'[c] = task[c]
    BY Zenon, <1>1
  <2> QED
    BY <1>2, <1>3, <1>4, <2>1 DEF MergedOK
<1>9. PlacesOK'
  BY Zenon, <1>2, <1>4 DEF PlacesOK
<1> QED
  BY Zenon, <1>5, <1>6, <1>7, <1>8, <1>9

(* The bodies, when one call takes such a step.                            *)
LEMMA BodyKept ==
  ASSUME Typed, BodyOK, MergedOK, NEW t \in Calls, NEW x \in CallType, task' = [task EXCEPT ![t] = x],
         task[t].pc \in {"queued", "sent", "served"}, x.pc \in {"sent", "served", "returned"},
         x.body = task[t].body, x.pc = "sent" \/ x.status = "ok" => x.wire = x.body
  PROVE  BodyOK'
<1>1. task'[t] = x /\ \A c \in Calls : c # t => task'[c] = task[c]
  BY Zenon DEF Typed
<1>2. \A c \in Calls : task[c].pc = "merged" => task'[c] = task[c] /\ task[c].into \in Calls
  BY Zenon, <1>1 DEF MergedOK
<1>3. \A c \in Calls : task'[c].body = task[c].body /\ (task'[c].pc = "merged" => task[c].pc = "merged")
                       /\ (task'[c].pc # "settled" => task[c].pc # "settled")
  BY Zenon, <1>1
<1> SUFFICES ASSUME NEW c \in Calls
             PROVE  /\ \A f \in Fields : task'[c].body[f] # 0 => task'[c].body[f] >= c
                    /\ task'[c].pc = "merged" /\ task'[task'[c].into].pc # "settled" =>
                         \A f \in Fields : task'[c].body[f] # 0 => task'[task'[c].into].body[f] >= c
                    /\ task'[c].pc = "sent" \/ task'[c].status # "none" => task'[c].pc \in {"sent", "served", "returned"}
                    /\ task'[c].pc = "sent" \/ task'[c].status = "ok" => task'[c].wire = task'[c].body
  BY Zenon DEF BodyOK
<1>4. \A f \in Fields : task'[c].body[f] # 0 => task'[c].body[f] >= c
  BY Zenon, <1>3 DEF BodyOK
<1>5. task'[c].pc = "merged" /\ task'[task'[c].into].pc # "settled" =>
        \A f \in Fields : task'[c].body[f] # 0 => task'[task'[c].into].body[f] >= c
  BY <1>2, <1>3 DEF BodyOK
<1>6. task'[c].pc = "sent" \/ task'[c].status # "none" => task'[c].pc \in {"sent", "served", "returned"}
  BY Zenon, <1>1 DEF BodyOK
<1>7. task'[c].pc = "sent" \/ task'[c].status = "ok" => task'[c].wire = task'[c].body
  BY <1>1 DEF BodyOK
<1> QED
  BY Zenon, <1>4, <1>5, <1>6, <1>7

-----------------------------------------------------------------------------
(* What run makes of a queued call.                                        *)
LEMMA RunFacts ==
  ASSUME Typed, NEW t, NEW call \in CallType, call.ids # {}, call.status = "none"
  PROVE  LET x == run(t, call)
         IN /\ x \in CallType /\ x.pc \in {"sent", "returned"} /\ x.ids = call.ids /\ x.body = call.body
            /\ x.pc = "sent" \/ x.status = "ok" => x.wire = x.body
<1> DEFINE i == CHOOSE j \in call.ids : TRUE
           v == IF call.kind # "write" THEN versionToSend(i, call.base) ELSE 0
<1>1. i \in call.ids /\ i \in Issues
  BY Zenon DEF CallType
<1>2. v \in 0 .. MaxVersion
  BY <1>1, Constants DEF versionToSend, Typed, Lineage, CallType
<1> HIDE DEF v
<1> DEFINE y == [call EXCEPT !.pc = "returned", !.status = "shared"]
           z == [call EXCEPT !.pc = "sent", !.wire = call.body, !.sent = v, !.after = {}]
<1>3. y \in CallType /\ y.pc = "returned" /\ y.ids = call.ids /\ y.body = call.body /\ y.status = "shared"
  BY Zenon DEF CallType
<1>4. z \in CallType /\ z.pc = "sent" /\ z.ids = call.ids /\ z.body = call.body /\ z.wire = z.body
  BY Zenon, <1>2 DEF CallType
<1>5. run(t, call) = y \/ run(t, call) = z
  BY Zenon DEF run, v
<1> HIDE DEF y, z
<1> QED
  BY Zenon, <1>3, <1>4, <1>5

(* The parts of the invariant, for a step that changes one call t to x.    *)
LEMMA OneCallStep ==
  ASSUME IInv, NEW t \in Calls, NEW x \in CallType, task' = [task EXCEPT ![t] = x],
         task[t].pc \in {"queued", "sent", "served"}, x.pc \in {"sent", "served", "returned"},
         x.ids = task[t].ids, x.body = task[t].body, x.pc = "sent" \/ x.status = "ok" => x.wire = x.body,
         task[t].pc = "queued" => \A a \in task[t].after : task[a].pc = "settled",
         UNCHANGED <<made, tails>>,
         \A i \in Issues : waiting'[i] # 0 => waiting'[i] = waiting[i] /\ waiting[i] # t,
         TypeOK', lineages' \in [Issues -> Lineage],
         \A i \in Issues : version[i] <= version'[i],
         x.pc = "served" => \A i \in Issues : x.at[i] <= version'[i] /\ (i \in x.ids => x.at[i] # 0),
         \A i \in Issues : conflicts'[i] # 0 => conflicts[i] # 0 \/ i \in task[t].ids
  PROVE  IInv'
<1>1. Typed /\ QueueOK /\ BodyOK /\ MergedOK
  BY Zenon DEF IInv, QueueOK
<1>2. QueueOK'
  BY Zenon, <1>1, PlaceKept
<1>3. BodyOK'
  BY Zenon, <1>1, BodyKept
<1>4. Typed'
  BY Zenon, <1>1 DEF Typed
<1>5. task'[t] = x /\ \A c \in Calls : c # t => task'[c] = task[c]
  BY Zenon, <1>1 DEF Typed
<1>6. AnswerOK'
  <2>1. \A c \in Calls, i \in Issues : task[c].at[i] \in Nat /\ version[i] \in Nat
    BY <1>1, Constants DEF Typed, TypeOK, CallType, Versions
  <2>2. \A i \in Issues : version'[i] \in Nat
    BY <1>4 DEF Typed, TypeOK, Versions
  <2>3. ASSUME NEW c \in Calls, task'[c].pc = "served", c # t, NEW i \in Issues
        PROVE  task'[c].at[i] <= version'[i] /\ (i \in task'[c].ids => task'[c].at[i] # 0)
    <3>1. task'[c] = task[c] /\ task[c].pc = "served"
      BY Zenon, <1>5, <2>3
    <3>2. task[c].at[i] <= version[i] /\ (i \in task[c].ids => task[c].at[i] # 0)
      BY Zenon, <3>1 DEF IInv, AnswerOK
    <3> QED
      BY <2>1, <2>2, <3>1, <3>2
  <2> QED
    BY Zenon, <1>5, <2>3 DEF AnswerOK
<1>7. ConflictsExpire'
  <2>1. \A i \in Issues : i \in task[t].ids => tails[i] # 0
    BY Zenon, <1>1 DEF QueueOK, TailsOK, Own
  <2> QED
    BY Zenon, <2>1 DEF IInv, ConflictsExpire
<1> QED
  BY Zenon, <1>2, <1>3, <1>4, <1>6, <1>7 DEF IInv, QueueOK

LEMMA StartStep ==
  ASSUME IInv, NEW t \in Calls, Start(t)
  PROVE  IInv'
<1> DEFINE x == run(t, task[t])
<1>1. /\ task[t].pc = "queued" /\ \A a \in task[t].after : task[a].pc = "settled"
      /\ task' = [task EXCEPT ![t] = x]
      /\ waiting' = [i \in Issues |-> IF waiting[i] = t THEN 0 ELSE waiting[i]]
      /\ UNCHANGED <<made, tails, lineages, conflicts, screen, version, history, others, known, strayed>>
  BY Zenon DEF Start, storeVars, heardVars
<1>2. Typed /\ task[t] \in CallType /\ task[t].ids # {} /\ task[t].status = "none"
  BY Zenon, <1>1 DEF IInv, Typed, PlacesOK, BodyOK
<1>3. /\ x \in CallType /\ x.pc \in {"sent", "returned"} /\ x.ids = task[t].ids /\ x.body = task[t].body
      /\ x.pc = "sent" \/ x.status = "ok" => x.wire = x.body
  BY Zenon, <1>2, RunFacts
<1> HIDE DEF x
<1>4. waiting' \in [Issues -> 0 .. MaxCalls]
  BY <1>1, <1>2, Constants DEF Typed, TypeOK
<1>5. TypeOK' /\ lineages' \in [Issues -> Lineage]
  BY Zenon, <1>1, <1>2, <1>4 DEF Typed, TypeOK
<1>6. \A i \in Issues : version[i] <= version'[i]
  BY <1>1, <1>2 DEF Typed, TypeOK, Versions
<1>7. \A i \in Issues : waiting'[i] # 0 => waiting'[i] = waiting[i] /\ waiting[i] # t
  BY Zenon, <1>1
<1> QED
  BY Zenon, <1>1, <1>3, <1>5, <1>6, <1>7, OneCallStep

LEMMA RefuseStep ==
  ASSUME IInv, NEW t \in Calls, Refuse(t)
  PROVE  IInv'
<1> DEFINE at == [i \in Issues |-> IF i \in task[t].ids THEN version[i] ELSE 0]
           x == [task[t] EXCEPT !.pc = "served", !.status = "conflict", !.at = at]
<1>1. /\ task[t].pc = "sent" /\ task' = [task EXCEPT ![t] = x]
      /\ UNCHANGED <<made, tails, lineages, conflicts, waiting, screen, version, history, others, known, strayed>>
  BY Zenon DEF Refuse, storeVars, heardVars
<1>2. Typed /\ task[t] \in CallType /\ \A i \in Issues : version[i] \in Versions /\ waiting[i] # t
  <2>1. Typed /\ t # 0
    BY Zenon, Constants DEF IInv
  <2>2. \A i \in Issues : waiting[i] # t
    BY Zenon, <1>1, <2>1 DEF IInv, WaitingOK
  <2> QED
    BY Zenon, <2>1, <2>2 DEF Typed, TypeOK
<1>3. at \in [Issues -> 0 .. MaxVersion] /\ \A i \in Issues : at[i] <= version[i] /\ (i \in task[t].ids => at[i] # 0)
  BY <1>2, Constants DEF Versions
<1> HIDE DEF at
<1>4. x \in CallType /\ x.pc = "served" /\ x.ids = task[t].ids /\ x.body = task[t].body /\ x.status = "conflict" /\ x.at = at
  BY Zenon, <1>2, <1>3 DEF CallType
<1> HIDE DEF x
<1>5. TypeOK' /\ lineages' \in [Issues -> Lineage]
  BY Zenon, <1>1, <1>2 DEF Typed, TypeOK
<1>6. \A i \in Issues : version[i] <= version'[i]
  BY <1>1, <1>2 DEF Versions
<1> QED
  BY Zenon, <1>1, <1>2, <1>3, <1>4, <1>5, <1>6, OneCallStep

LEMMA ServeStep ==
  ASSUME IInv, NEW t \in Calls, NEW C \in SUBSET Issues, Serve(t, C)
  PROVE  IInv'
<1>1. PICK S : /\ Store(t, C, S)
               /\ task' = [task EXCEPT ![t].pc = "served", ![t].status = "ok",
                            ![t].at = [i \in Issues |-> IF i \in task[t].ids \cup S THEN Raised(C, S)[i] ELSE 0]]
  BY Zenon DEF Serve
<1> DEFINE v == Raised(C, S)
           at == [i \in Issues |-> IF i \in task[t].ids \cup S THEN v[i] ELSE 0]
           x == [task[t] EXCEPT !.pc = "served", !.status = "ok", !.at = at]
<1>2. /\ task[t].pc = "sent" /\ task' = [task EXCEPT ![t] = x]
      /\ UNCHANGED <<made, tails, lineages, conflicts, waiting, screen, others, known, strayed>>
  BY ZenonT(30), <1>1 DEF Serve, heardVars
<1>3. Typed /\ task[t] \in CallType /\ \A i \in Issues : version[i] \in Versions /\ waiting[i] # t
  <2>1. Typed /\ t # 0
    BY Zenon, Constants DEF IInv
  <2>2. \A i \in Issues : waiting[i] # t
    BY Zenon, <1>2, <2>1 DEF IInv, WaitingOK
  <2> QED
    BY Zenon, <2>1, <2>2 DEF Typed, TypeOK
<1>4. v \in [Issues -> Versions] /\ \A i \in Issues : version[i] <= v[i]
  BY <1>1, <1>3, Constants DEF Store, Raised, Versions
<1>5. version' = v
  BY Zenon, <1>1 DEF Store
<1>6. history' \in [Issues -> [Fields -> Versions]]
  BY Zenon, <1>1, <1>3, <1>4 DEF Store, Typed, TypeOK
<1> HIDE DEF v
<1>7. at \in [Issues -> 0 .. MaxVersion] /\ \A i \in Issues : at[i] <= v[i] /\ (i \in task[t].ids => at[i] # 0)
  BY <1>4, Constants DEF Versions
<1> HIDE DEF at
<1>8. /\ x \in CallType /\ x.pc = "served" /\ x.ids = task[t].ids /\ x.body = task[t].body /\ x.at = at
      /\ x.wire = task[t].wire
  BY Zenon, <1>3, <1>7 DEF CallType
<1> HIDE DEF x
<1>9. x.wire = x.body
  BY Zenon, <1>2, <1>8 DEF IInv, BodyOK
<1>10. \A i \in Issues : lineages[i] # NoLineage => lineages[i].from < lineages[i].to /\ lineages[i].to <= version'[i]
  <2> SUFFICES ASSUME NEW i \in Issues, lineages[i] # NoLineage PROVE lineages[i].from < lineages[i].to /\ lineages[i].to <= version'[i]
    BY Zenon
  <2>1. lineages[i].from < lineages[i].to /\ lineages[i].to <= version[i] /\ lineages[i].to \in Nat
    BY <1>3 DEF Typed, TypeOK, Lineage
  <2> QED
    BY <1>3, <1>4, <1>5, <2>1 DEF Versions
<1>11. TypeOK' /\ lineages' \in [Issues -> Lineage]
  BY Zenon, <1>2, <1>3, <1>4, <1>5, <1>6, <1>10 DEF Typed, TypeOK
<1> QED
  BY Zenon, <1>2, <1>3, <1>4, <1>5, <1>7, <1>8, <1>9, <1>11, OneCallStep

-----------------------------------------------------------------------------
(* The answers.                                                            *)
LEMMA RecordFacts ==
  ASSUME Typed, NEW i \in Issues, NEW sent \in 0 .. MaxVersion, NEW v \in Nat, v # 0, v <= version[i]
  PROVE  LET l == recordWrite(i, sent, v)
         IN l \in Lineage /\ (l # NoLineage => l.from < l.to /\ l.to <= version[i])
<1> DEFINE l == lineages[i]
<1>1. /\ l \in Lineage /\ (l # NoLineage => l.from < l.to /\ l.to <= version[i])
      /\ version[i] \in 1 .. MaxVersion /\ v \in 0 .. MaxVersion /\ v - 1 \in 0 .. MaxVersion /\ sent \in Nat
  BY Constants DEF Typed, TypeOK, Versions
<1>2. l.from \in 0 .. MaxVersion /\ l.to \in 0 .. MaxVersion
  BY Zenon, <1>1 DEF Lineage
<1> DEFINE end == IF sent # 0 THEN sent ELSE v - 1
           from == IF l # NoLineage /\ l.to = end THEN l.from ELSE end
<1>3. recordWrite(i, sent, v) = l \/ (end < v /\ recordWrite(i, sent, v) = [from |-> from, to |-> v])
  BY <1>1 DEF recordWrite
<1>4. CASE recordWrite(i, sent, v) = l
  BY Zenon, <1>1, <1>4
<1>5. CASE end < v /\ recordWrite(i, sent, v) = [from |-> from, to |-> v]
  <2>1. from \in 0 .. MaxVersion /\ from < v
    BY <1>1, <1>2, <1>5
  <2> HIDE DEF from, end
  <2> QED
    BY <1>1, <1>5, <2>1 DEF Lineage
<1> QED
  BY Zenon, <1>3, <1>4, <1>5

LEMMA ReturnedFacts ==
  ASSUME IInv, NEW t \in Calls, task[t].pc \in {"sent", "served"}, NEW st \in {"ok", "conflict", "error"},
         st = "ok" => task[t].status = "ok"
  PROVE  LET x == [task[t] EXCEPT !.pc = "returned", !.status = st, !.sent = 0, !.base = 0, !.at = NoVersions]
         IN /\ x \in CallType /\ x.pc = "returned" /\ x.ids = task[t].ids /\ x.body = task[t].body
            /\ x.status = "ok" => x.wire = x.body
            /\ \A i \in Issues : waiting[i] # t
<1>1. task[t] \in CallType /\ Typed /\ t # 0
  BY Zenon, Constants DEF IInv, Typed
<1>2. NoVersions \in [Issues -> 0 .. MaxVersion] /\ 0 \in 0 .. MaxVersion
  BY Constants DEF NoVersions
<1>3. st = "ok" => task[t].wire = task[t].body
  BY Zenon DEF IInv, BodyOK
<1>4. \A i \in Issues : waiting[i] # t
  BY Zenon, <1>1 DEF IInv, WaitingOK
<1> QED
  BY Zenon, <1>1, <1>2, <1>3, <1>4 DEF CallType

LEMMA ReturnErrorStep ==
  ASSUME IInv, NEW t \in Calls, ReturnError(t)
  PROVE  IInv'
<1> DEFINE x == [task[t] EXCEPT !.pc = "returned", !.status = "error", !.sent = 0, !.base = 0, !.at = NoVersions]
<1>1. /\ task[t].pc \in {"sent", "served"} /\ task' = [task EXCEPT ![t] = x]
      /\ UNCHANGED <<made, tails, lineages, conflicts, waiting, screen, version, history, others, known, strayed>>
  BY Zenon DEF ReturnError, storeVars, heardVars
<1>2. /\ x \in CallType /\ x.pc = "returned" /\ x.ids = task[t].ids /\ x.body = task[t].body
      /\ x.status = "ok" => x.wire = x.body
      /\ \A i \in Issues : waiting[i] # t
  BY Zenon, <1>1, ReturnedFacts
<1> HIDE DEF x
<1>3. TypeOK' /\ lineages' \in [Issues -> Lineage] /\ \A i \in Issues : version[i] <= version'[i]
  BY <1>1 DEF IInv, Typed, TypeOK, Versions
<1> QED
  BY Zenon, <1>1, <1>2, <1>3, OneCallStep

LEMMA ReturnConflictStep ==
  ASSUME IInv, NEW t \in Calls, ReturnConflict(t)
  PROVE  IInv'
<1> DEFINE x == [task[t] EXCEPT !.pc = "returned", !.status = "conflict", !.sent = 0, !.base = 0, !.at = NoVersions]
           i == Issue(t)
           v == task[t].at[i]
<1>1. Typed /\ task[t] \in CallType /\ task[t].pc = "served" /\ task[t].status = "conflict"
  BY Zenon DEF IInv, Typed, ReturnConflict
<1>2. x = [task[t] EXCEPT !.pc = "returned", !.sent = 0, !.base = 0, !.at = NoVersions]
  BY Zenon, <1>1 DEF CallType
<1>3. /\ task' = [task EXCEPT ![t] = x]
      /\ lineages' = [lineages EXCEPT ![i] = NoLineage]
      /\ conflicts' = [conflicts EXCEPT ![i] = v]
      /\ screen' = [screen EXCEPT ![i] = v]
      /\ UNCHANGED <<made, tails, waiting, version, history, others, known, strayed>>
  BY Zenon, <1>2 DEF ReturnConflict, storeVars, heardVars
<1>4. i \in task[t].ids /\ i \in Issues
  BY Zenon, <1>1 DEF IInv, PlacesOK, Issue, CallType
<1>5. v \in Versions /\ v \in 0 .. MaxVersion
  <2>1. v \in 0 .. MaxVersion
    BY Zenon, <1>1, <1>4 DEF CallType
  <2>2. v # 0
    BY Zenon, <1>1, <1>4 DEF IInv, AnswerOK
  <2> QED
    BY Zenon, <2>1, <2>2, VersionFacts
<1>6. /\ x \in CallType /\ x.pc = "returned" /\ x.ids = task[t].ids /\ x.body = task[t].body
      /\ x.status = "ok" => x.wire = x.body
      /\ \A j \in Issues : waiting[j] # t
  BY Zenon, <1>1, ReturnedFacts
<1> HIDE DEF x, v
<1>7. NoLineage \in Lineage
  BY Constants DEF NoLineage, Lineage
<1>8. lineages' \in [Issues -> Lineage] /\ conflicts' \in [Issues -> 0 .. MaxVersion] /\ screen' \in [Issues -> Versions]
  BY Zenon, <1>1, <1>3, <1>5, <1>7 DEF Typed, TypeOK
<1>9. \A j \in Issues : lineages'[j] # NoLineage => lineages'[j] = lineages[j]
  BY Zenon, <1>1, <1>3, <1>4 DEF Typed
<1>10. TypeOK'
  BY Zenon, <1>1, <1>3, <1>8, <1>9 DEF Typed, TypeOK
<1>11. \A j \in Issues : version[j] <= version'[j]
  BY <1>1, <1>3 DEF Typed, TypeOK, Versions
<1>12. \A j \in Issues : conflicts'[j] # 0 => conflicts[j] # 0 \/ j \in task[t].ids
  BY Zenon, <1>1, <1>3, <1>4 DEF Typed, TypeOK
<1> QED
  BY Zenon, <1>1, <1>3, <1>6, <1>8, <1>10, <1>11, <1>12, OneCallStep

LEMMA ReturnOkStep ==
  ASSUME IInv, NEW t \in Calls, ReturnOk(t)
  PROVE  IInv'
<1> DEFINE x == [task[t] EXCEPT !.pc = "returned", !.status = "ok", !.sent = 0, !.base = 0, !.at = NoVersions]
<1>1. Typed /\ task[t] \in CallType /\ task[t].pc = "served" /\ task[t].status = "ok"
  BY Zenon DEF IInv, Typed, ReturnOk
<1>2. x = [task[t] EXCEPT !.pc = "returned", !.sent = 0, !.base = 0, !.at = NoVersions]
  BY Zenon, <1>1 DEF CallType
<1>3. task' = [task EXCEPT ![t] = x] /\ UNCHANGED <<made, tails, conflicts, waiting, version, history, others>>
  BY ZenonT(30), <1>2 DEF ReturnOk, storeVars, heardVars
<1>4. /\ x \in CallType /\ x.pc = "returned" /\ x.ids = task[t].ids /\ x.body = task[t].body
      /\ x.status = "ok" => x.wire = x.body
      /\ \A j \in Issues : waiting[j] # t
  BY Zenon, <1>1, ReturnedFacts
<1> HIDE DEF x
<1>5. \A i \in Issues : /\ task[t].at[i] \in Nat /\ task[t].at[i] <= version[i]
                        /\ i \in task[t].ids => task[t].at[i] # 0
                        /\ version[i] \in Versions
  BY SMTT(20), <1>1, Constants DEF IInv, AnswerOK, Typed, TypeOK, CallType
<1>6. \A i \in Issues : (IF i \in task[t].ids THEN task[t].sent ELSE 0) \in 0 .. MaxVersion
  BY <1>1, Constants DEF CallType
<1>7. lineages' = [i \in Issues |-> IF task[t].at[i] = 0 THEN lineages[i]
                                   ELSE recordWrite(i, IF i \in task[t].ids THEN task[t].sent ELSE 0, task[t].at[i])]
  BY Zenon DEF ReturnOk
<1>8. ASSUME NEW i \in Issues
      PROVE  lineages'[i] \in Lineage /\ (lineages'[i] # NoLineage => lineages'[i].from < lineages'[i].to /\ lineages'[i].to <= version[i])
  <2>1. CASE task[t].at[i] = 0
    BY Zenon, <1>1, <1>7, <2>1 DEF Typed, TypeOK
  <2>2. CASE task[t].at[i] # 0
    BY Zenon, <1>1, <1>5, <1>6, <1>7, <2>2, RecordFacts
  <2> QED
    BY Zenon, <2>1, <2>2
<1>9. lineages' \in [Issues -> Lineage]
  BY Zenon, <1>7, <1>8
<1>10. \A i \in Issues : known'[i] \subseteq Versions
  <2> SUFFICES ASSUME NEW i \in Issues PROVE known'[i] \subseteq Versions
    BY Zenon
  <2>1. known'[i] = IF Heard(t, i) THEN known[i] \cup {task[t].at[i]} ELSE known[i]
    BY Zenon DEF ReturnOk
  <2>2. Heard(t, i) => task[t].at[i] # 0
    BY Zenon DEF Heard
  <2>3. known[i] \subseteq Versions
    BY Zenon, <1>1 DEF Typed, TypeOK
  <2> QED
    BY <1>5, <2>1, <2>2, <2>3, Constants DEF Versions
<1>10a. \A i \in Issues : strayed'[i] \subseteq Versions
  <2> SUFFICES ASSUME NEW i \in Issues PROVE strayed'[i] \subseteq Versions
    BY Zenon
  <2>1. strayed'[i] = IF Strays(t, i) THEN strayed[i] \cup {task[t].at[i]} ELSE strayed[i]
    BY Zenon DEF ReturnOk
  <2>2. Strays(t, i) => task[t].at[i] # 0
    BY Zenon DEF Strays
  <2>3. strayed[i] \subseteq Versions
    BY Zenon, <1>1 DEF Typed, TypeOK
  <2> QED
    BY <1>5, <2>1, <2>2, <2>3, Constants DEF Versions
<1>11. screen' \in [Issues -> Versions]
  <2>1. \A i \in task[t].ids : i \in Issues /\ task[t].at[i] \in Versions
    BY <1>1, <1>5, Constants DEF CallType, Versions
  <2> QED
    BY Zenon, <1>1, <2>1 DEF ReturnOk, Typed, TypeOK
<1>12. TypeOK'
  <2>1. known' \in [Issues -> SUBSET Versions]
    BY Zenon, <1>10 DEF ReturnOk
  <2>2. strayed' \in [Issues -> SUBSET Versions]
    BY Zenon, <1>10a DEF ReturnOk
  <2> QED
    BY Zenon, <1>1, <1>3, <1>8, <1>11, <2>1, <2>2 DEF Typed, TypeOK
<1>13. \A j \in Issues : version[j] <= version'[j]
  BY <1>3, <1>5 DEF Versions
<1> QED
  BY Zenon, <1>1, <1>3, <1>4, <1>9, <1>12, <1>13, OneCallStep

(* Another session's write changes no call.                                *)
LEMMA OtherWriteStep ==
  ASSUME IInv, NEW i \in Issues, NEW F, OtherWrite(i, F)
  PROVE  IInv'
<1>1. /\ UNCHANGED <<made, task, tails, lineages, conflicts, waiting, screen, known, strayed>>
      /\ version[i] < MaxVersion
      /\ version' = [version EXCEPT ![i] = @ + 1]
      /\ history' = [history EXCEPT ![i] = [f \in Fields |-> IF f \in F THEN version[i] + 1 ELSE @[f]]]
      /\ others' = [others EXCEPT ![i] = @ \cup {version[i] + 1}]
  BY Zenon DEF OtherWrite, queueVars, heardVars
<1>2. Typed /\ version[i] + 1 \in Versions
  BY <1>1, Constants DEF IInv, Typed, TypeOK, Versions
<1>3. version' \in [Issues -> Versions] /\ \A j \in Issues : version[j] <= version'[j] /\ version[j] \in Nat /\ version'[j] \in Nat
  BY <1>1, <1>2 DEF Typed, TypeOK, Versions
<1>4. history' \in [Issues -> [Fields -> Versions]]
  BY Zenon, <1>1, <1>2 DEF Typed, TypeOK
<1>5. others' \in [Issues -> SUBSET Versions]
  BY Zenon, <1>1, <1>2 DEF Typed, TypeOK
<1>6. \A j \in Issues : lineages[j] # NoLineage => lineages[j].from < lineages[j].to /\ lineages[j].to <= version'[j]
  <2> SUFFICES ASSUME NEW j \in Issues, lineages[j] # NoLineage PROVE lineages[j].from < lineages[j].to /\ lineages[j].to <= version'[j]
    BY Zenon
  <2>1. lineages[j].from < lineages[j].to /\ lineages[j].to <= version[j] /\ lineages[j].to \in Nat
    BY <1>2 DEF Typed, TypeOK, Lineage
  <2> QED
    BY <1>3, <2>1
<1>7. Typed'
  BY Zenon, <1>1, <1>2, <1>3, <1>4, <1>5, <1>6 DEF Typed, TypeOK
<1>8. AnswerOK'
  <2>1. \A c \in Calls, j \in Issues : task[c].at[j] \in Nat
    BY <1>2, Constants DEF Typed, CallType
  <2> QED
    BY <1>1, <1>3, <2>1 DEF IInv, AnswerOK
<1>9. OrderOK' /\ TailsOK' /\ WaitingOK' /\ MergedOK' /\ BodyOK' /\ PlacesOK' /\ ConflictsExpire'
  <2>1. \A c, j : Own(c, j)' <=> Own(c, j)
    BY Zenon, <1>1 DEF Own
  <2>2. OrderOK'
    BY Zenon, <1>1, <2>1 DEF IInv, OrderOK, Waits
  <2>3. TailsOK' /\ MergedOK'
    BY Zenon, <1>1 DEF IInv, TailsOK, MergedOK, Own
  <2>4. WaitingOK' /\ BodyOK' /\ PlacesOK' /\ ConflictsExpire'
    BY Zenon, <1>1 DEF IInv, WaitingOK, BodyOK, PlacesOK, ConflictsExpire
  <2> QED
    BY Zenon, <2>2, <2>3, <2>4
<1> QED
  BY Zenon, <1>7, <1>8, <1>9 DEF IInv

LEMMA SettleStep ==
  ASSUME IInv, NEW t \in Calls, Settle(t)
  PROVE  IInv'
<1> DEFINE x == [NoCall EXCEPT !.pc = "settled", !.ids = task[t].ids]
           last == {i \in task[t].ids : tails[i] = t}
<1>1. /\ task[t].pc = "returned" /\ task' = [task EXCEPT ![t] = x]
      /\ tails' = [i \in Issues |-> IF i \in last THEN 0 ELSE tails[i]]
      /\ conflicts' = [i \in Issues |-> IF i \in last THEN 0 ELSE conflicts[i]]
      /\ UNCHANGED <<made, lineages, waiting, screen, version, history, others, known, strayed>>
  BY Zenon DEF Settle, storeVars, heardVars
<1>2. Typed /\ OrderOK /\ TailsOK /\ WaitingOK /\ MergedOK /\ BodyOK /\ AnswerOK /\ PlacesOK /\ ConflictsExpire
  BY Zenon DEF IInv
<1>3. x \in CallType /\ x.pc = "settled" /\ x.ids = task[t].ids /\ x.status = "none" /\ x.body = NoBody
  BY Zenon, <1>2, NoCallTyped DEF CallType, Typed
<1> HIDE DEF x
<1>4. task'[t] = x /\ \A c \in Calls : c # t => task'[c] = task[c]
  BY Zenon, <1>1, <1>2 DEF Typed
<1>5. \A c \in Calls, i \in Issues : Own(c, i)' <=> Own(c, i)
  BY Zenon, <1>1, <1>3, <1>4 DEF Own
<1>6. \A c \in Calls : task[c] \in CallType /\ task[c].after \subseteq Calls /\ task'[c].ids = task[c].ids
  BY Zenon, <1>2, <1>3, <1>4 DEF Typed, CallType
<1>7. \A i \in Issues : tails[i] # 0 => tails[i] \in Calls
  BY SMTT(20), <1>2 DEF Typed, TypeOK, Calls
<1>8. \A i \in Issues : tails'[i] = IF tails[i] = t THEN 0 ELSE tails[i]
  BY Zenon, <1>1, <1>2, <1>7, Constants DEF TailsOK, Own
<1>9. Typed'
  <2>1. tails' \in [Issues -> 0 .. MaxCalls] /\ conflicts' \in [Issues -> 0 .. MaxVersion]
    BY SMTT(20), <1>1, <1>2, Constants DEF Typed, TypeOK
  <2> QED
    BY Zenon, <1>1, <1>2, <1>3, <2>1 DEF Typed, TypeOK
<1>10. OrderOK'
  <2> SUFFICES ASSUME NEW c \in Calls, NEW d \in Calls, NEW i \in Issues, c < d, Own(c, i), Own(d, i)
               PROVE  task'[c].pc = "settled" \/ (task'[d].pc = "queued" /\ Waits(d, c, i)')
    BY Zenon, <1>5 DEF OrderOK
  <2>1. CASE task[c].pc = "settled" \/ c = t
    BY Zenon, <1>3, <1>4, <2>1
  <2>2. CASE task[d].pc = "queued" /\ Waits(d, c, i)
    <3>1. task'[d] = task[d]
      BY Zenon, <1>1, <1>4, <2>2
    <3> QED
      BY Zenon, <1>5, <1>6, <2>2, <3>1 DEF Waits
  <2> QED
    BY Zenon, <1>2, <2>1, <2>2 DEF OrderOK
<1>11. TailsOK'
  <2>1. \A c \in Calls : task'[c].pc = "none" <=> c > made'
    BY Zenon, <1>1, <1>2, <1>3, <1>4 DEF TailsOK
  <2>2. ASSUME NEW i \in Issues, tails'[i] # 0 PROVE Own(tails[i], i)' /\ task'[tails'[i]].pc # "settled"
    <3>1. tails'[i] = tails[i] /\ tails[i] # t /\ tails[i] # 0
      BY Zenon, <1>8, <2>2
    <3> QED
      BY <1>2, <1>4, <1>6, <1>7, <3>1 DEF TailsOK, Own
  <2>3. ASSUME NEW c \in Calls, NEW i \in Issues, Own(c, i)
        PROVE  IF tails'[i] = 0 THEN task'[c].pc = "settled" ELSE c <= tails'[i]
    <3>1. CASE tails[i] = t
      <4>1. c <= t /\ Own(t, i) /\ tails'[i] = 0
        BY Zenon, <1>2, <1>8, <2>3, <3>1, Constants DEF TailsOK
      <4>2. c < t => task[c].pc = "settled"
        BY Zenon, <1>1, <1>2, <2>3, <4>1 DEF OrderOK
      <4>3. c = t \/ c < t
        BY <4>1, Constants
      <4> QED
        BY Zenon, <1>3, <1>4, <4>1, <4>2, <4>3
    <3>2. CASE tails[i] # t
      <4>1. tails'[i] = tails[i]
        BY Zenon, <1>8, <3>2
      <4>2. task[c].pc = "settled" => task'[c].pc = "settled"
        BY Zenon, <1>3, <1>4
      <4> QED
        BY Zenon, <1>2, <2>3, <4>1, <4>2 DEF TailsOK
    <3> QED
      BY Zenon, <3>1, <3>2
  <2> QED
    BY Zenon, <1>5, <2>1, <2>2, <2>3 DEF TailsOK
<1>12. WaitingOK'
  <2> SUFFICES ASSUME NEW i \in Issues, waiting[i] # 0
               PROVE  waiting[i] = tails'[i] /\ task'[waiting[i]].pc = "queued" /\ task'[waiting[i]].ids = {i}
    BY Zenon, <1>1 DEF WaitingOK
  <2>1. waiting[i] = tails[i] /\ task[waiting[i]].pc = "queued" /\ task[waiting[i]].ids = {i} /\ waiting[i] \in Calls
    BY Zenon, <1>2, <1>7 DEF WaitingOK
  <2> QED
    BY Zenon, <1>1, <1>4, <1>8, <2>1
<1>13. MergedOK'
  <2> SUFFICES ASSUME NEW c \in Calls, task'[c].pc = "merged"
               PROVE  LET w == task'[c].into
                      IN /\ w \in Calls /\ w < c /\ task'[w].pc \notin {"none", "merged"} /\ task'[w].ids = task'[c].ids
                         /\ \A d \in Calls, i \in Issues : i \in task'[c].ids /\ Own(d, i)' => d <= w \/ d > c
    BY Zenon DEF MergedOK
  <2>1. task'[c] = task[c] /\ task[c].pc = "merged"
    BY Zenon, <1>3, <1>4
  <2>2. \A w \in Calls : task[w].pc \notin {"none", "merged"} => task'[w].pc \notin {"none", "merged"}
    BY Zenon, <1>3, <1>4
  <2> QED
    BY SMTT(20), <1>2, <1>5, <1>6, <2>1, <2>2 DEF MergedOK
<1>14. BodyOK'
  <2>1. \A f \in Fields : x.body[f] = 0
    BY Zenon, <1>3 DEF NoBody
  <2>2. \A c \in Calls : task[c].pc = "merged" => task[c].into \in Calls /\ task'[c] = task[c]
    BY Zenon, <1>1, <1>2, <1>4 DEF MergedOK
  <2>3. ASSUME NEW c \in Calls, task'[c].pc = "merged", task'[task'[c].into].pc # "settled", NEW f \in Fields, task'[c].body[f] # 0
        PROVE  task'[task'[c].into].body[f] >= c
    <3>1. task'[c] = task[c] /\ task[c].pc = "merged" /\ task[c].into \in Calls
      BY Zenon, <1>3, <1>4, <2>2, <2>3
    <3>2. task[c].into # t /\ task'[task[c].into] = task[task[c].into]
      BY Zenon, <1>3, <1>4, <2>3, <3>1
    <3> QED
      BY Zenon, <1>2, <2>3, <3>1, <3>2 DEF BodyOK
  <2> QED
    BY <1>2, <1>3, <1>4, <2>1, <2>3 DEF BodyOK
<1>15. AnswerOK' /\ PlacesOK'
  BY <1>1, <1>2, <1>3, <1>4 DEF AnswerOK, PlacesOK
<1>16. ConflictsExpire'
  <2> SUFFICES ASSUME NEW i \in Issues, conflicts'[i] # 0 PROVE tails'[i] # 0
    BY Zenon DEF ConflictsExpire
  <2>1. i \notin last /\ conflicts[i] # 0
    BY Zenon, <1>1
  <2> QED
    BY Zenon, <1>1, <1>2, <2>1 DEF ConflictsExpire
<1> QED
  BY Zenon, <1>9, <1>10, <1>11, <1>12, <1>13, <1>14, <1>15, <1>16 DEF IInv

-----------------------------------------------------------------------------
(* A new call goes behind the tails of its issues.                         *)
LEMMA EnqueueStep ==
  ASSUME IInv, NEW call \in CallType, call.ids # {}, call.status = "none",
         \A f \in Fields : call.body[f] \in {0, made + 1},
         made + 1 \in Calls, enqueue(made + 1, call),
         \A i \in Issues : \/ waiting'[i] = 0
                           \/ waiting'[i] = waiting[i] /\ i \notin call.ids
                           \/ waiting'[i] = made + 1 /\ call.ids = {i} /\ tails[i] # 0,
         UNCHANGED <<lineages, conflicts, storeVars, heardVars>>,
         waiting' \in [Issues -> 0 .. MaxCalls], screen' \in [Issues -> Versions]
  PROVE  IInv'
<1> DEFINE n == made + 1
           previous == {tails[i] : i \in call.ids} \ {0}
           queued == [call EXCEPT !.pc = "queued", !.after = previous]
           y == IF previous = {} THEN run(n, queued) ELSE queued
<1>1. Typed /\ OrderOK /\ TailsOK /\ WaitingOK /\ MergedOK /\ BodyOK /\ AnswerOK /\ PlacesOK /\ ConflictsExpire
  BY Zenon DEF IInv
<1>2. /\ made' = n /\ task' = [task EXCEPT ![n] = y]
      /\ tails' = [i \in Issues |-> IF i \in call.ids THEN n ELSE tails[i]]
      /\ UNCHANGED <<lineages, conflicts, version, history, others, known, strayed>>
  BY Zenon DEF enqueue, storeVars, heardVars
<1>3. \A i \in Issues : tails[i] # 0 => tails[i] \in Calls
  BY SMTT(20), <1>1 DEF Typed, TypeOK, Calls
<1>4. previous \subseteq Calls /\ call.ids \subseteq Issues
  BY <1>3 DEF CallType
<1>5. queued \in CallType /\ queued.pc = "queued" /\ queued.after = previous /\ queued.ids = call.ids
      /\ queued.body = call.body /\ queued.status = "none"
  <2> HIDE DEF previous
  <2> QED
    BY ZenonT(30), <1>4 DEF CallType
<1>6. /\ y \in CallType /\ y.pc \in {"queued", "sent", "returned"} /\ y.ids = call.ids /\ y.body = call.body
      /\ y.pc = "sent" \/ y.status = "ok" => y.wire = y.body
      /\ y.pc = "queued" => y.status = "none"
      /\ previous # {} => y.pc = "queued" /\ y.after = previous
  <2> HIDE DEF previous, queued
  <2>1. CASE previous = {}
    <3>1. y = run(n, queued)
      BY Zenon, <2>1
    <3> HIDE DEF y
    <3> QED
      BY <1>1, <1>5, <2>1, <3>1, RunFacts
  <2>2. CASE previous # {}
    <3>1. y = queued
      BY Zenon, <2>2
    <3> HIDE DEF y
    <3> QED
      BY Zenon, <1>5, <2>2, <3>1
  <2> HIDE DEF y
  <2> QED
    BY Zenon, <2>1, <2>2
<1> HIDE DEF y, queued
<1>7. task'[n] = y /\ \A c \in Calls : c # n => task'[c] = task[c]
  BY Zenon, <1>1, <1>2 DEF Typed
<1>8. made \in Nat /\ task[n].pc = "none" /\ \A c \in Calls : c > n => task[c].pc = "none"
  BY <1>1, Constants DEF Typed, TypeOK, TailsOK
<1>9. \A c \in Calls : task[c] \in CallType /\ task[c].after \subseteq Calls
  BY Zenon, <1>1 DEF Typed, CallType
<1>10. \A c \in Calls, i \in Issues : Own(c, i)' <=> (c # n /\ Own(c, i)) \/ (c = n /\ i \in call.ids)
  BY Zenon, <1>6, <1>7 DEF Own
<1>11. \A c \in Calls, i \in Issues : Own(c, i) => c # n /\ c < n
  <2> SUFFICES ASSUME NEW c \in Calls, NEW i \in Issues, Own(c, i) PROVE c # n /\ c < n
    BY Zenon
  <2>1. c # n /\ ~(c > n)
    BY Zenon, <1>8 DEF Own
  <2> QED
    BY <1>8, <2>1, Constants
<1>12. Typed'
  <2>1. tails' \in [Issues -> 0 .. MaxCalls] /\ made' \in 0 .. MaxCalls
    BY <1>1, <1>2, Constants DEF Typed, TypeOK, Calls
  <2> QED
    BY Zenon, <1>1, <1>2, <1>6, <2>1 DEF Typed, TypeOK
<1>13. OrderOK'
  <2> SUFFICES ASSUME NEW c \in Calls, NEW d \in Calls, NEW i \in Issues, c < d, Own(c, i)', Own(d, i)',
                      task'[c].pc # "settled"
               PROVE  task'[d].pc = "queued" /\ Waits(d, c, i)'
    BY Zenon DEF OrderOK
  <2>1. c # n /\ Own(c, i) /\ task'[c] = task[c]
    <3>1. d = n \/ d < n
      BY Zenon, <1>10, <1>11
    <3>2. c \in Nat /\ d \in Nat /\ n \in Nat
      BY <1>8, Constants
    <3>3. c # n
      BY <3>1, <3>2
    <3> QED
      BY Zenon, <1>7, <1>10, <3>3
  <2>2. CASE d = n
    <3>1. i \in call.ids /\ tails[i] # 0 /\ c <= tails[i]
      BY Zenon, <1>1, <1>10, <2>1, <2>2 DEF TailsOK
    <3>2. PICK a \in Calls : a \in previous /\ Own(a, i) /\ c <= a
      BY Zenon, <1>1, <1>3, <3>1 DEF TailsOK
    <3>3. a < n /\ Own(a, i)'
      BY Zenon, <1>10, <1>11, <3>2
    <3>4. y.pc = "queued" /\ y.after = previous
      BY Zenon, <1>6, <3>2
    <3> HIDE DEF previous
    <3> QED
      BY Zenon, <1>7, <2>2, <3>2, <3>3, <3>4 DEF Waits
  <2>3. CASE d # n
    <3>1. Own(d, i) /\ task'[d] = task[d]
      BY Zenon, <1>7, <1>10, <2>3
    <3>2. task[d].pc = "queued" /\ Waits(d, c, i)
      BY Zenon, <1>1, <2>1, <3>1 DEF OrderOK
    <3>3. PICK a \in task[d].after : Own(a, i) /\ c <= a /\ a < d
      BY Zenon, <3>2 DEF Waits
    <3>4. a \in Calls /\ Own(a, i)'
      BY <1>9, <1>10, <1>11, <3>3
    <3> QED
      BY Zenon, <3>1, <3>2, <3>3, <3>4 DEF Waits
  <2> QED
    BY Zenon, <2>2, <2>3
<1>14. TailsOK'
  <2>1. \A c \in Calls : task'[c].pc = "none" <=> c > made'
    <3> SUFFICES ASSUME NEW c \in Calls PROVE task'[c].pc = "none" <=> c > n
      BY Zenon, <1>2
    <3>1. c = n => task'[c].pc # "none" /\ ~(c > n)
      BY <1>6, <1>7, <1>8
    <3>2. c # n => (c > made <=> c > n)
      BY <1>8, Constants
    <3> QED
      BY Zenon, <1>1, <1>7, <3>1, <3>2 DEF TailsOK
  <2>2. ASSUME NEW i \in Issues, tails'[i] # 0 PROVE Own(tails[i], i)' /\ task'[tails'[i]].pc # "settled"
    <3>1. CASE i \in call.ids
      BY Zenon, <1>2, <1>6, <1>7, <3>1 DEF Own
    <3>2. CASE i \notin call.ids
      <4>1. tails'[i] = tails[i] /\ tails[i] \in Calls /\ Own(tails[i], i) /\ task[tails[i]].pc # "settled"
        BY Zenon, <1>1, <1>2, <1>3, <2>2, <3>2 DEF TailsOK
      <4>2. task'[tails[i]] = task[tails[i]]
        BY Zenon, <1>7, <1>11, <4>1
      <4> QED
        BY Zenon, <4>1, <4>2 DEF Own
    <3> QED
      BY Zenon, <3>1, <3>2
  <2>3. ASSUME NEW c \in Calls, NEW i \in Issues, Own(c, i)'
        PROVE  IF tails'[i] = 0 THEN task'[c].pc = "settled" ELSE c <= tails'[i]
    <3>1. CASE i \in call.ids
      <4>1. tails'[i] = n /\ n # 0 /\ n \in Nat
        BY <1>2, <1>8, <3>1
      <4>2. c = n \/ c < n
        BY Zenon, <1>10, <1>11, <2>3
      <4> QED
        BY <4>1, <4>2, Constants
    <3>2. CASE i \notin call.ids
      <4>1. tails'[i] = tails[i] /\ Own(c, i) /\ task'[c] = task[c]
        BY Zenon, <1>2, <1>7, <1>10, <2>3, <3>2
      <4> QED
        BY <1>1, <4>1 DEF TailsOK
    <3> QED
      BY Zenon, <3>1, <3>2
  <2> QED
    BY Zenon, <2>1, <2>2, <2>3 DEF TailsOK
<1>15. WaitingOK'
  <2> SUFFICES ASSUME NEW i \in Issues, waiting'[i] # 0
               PROVE  waiting'[i] = tails'[i] /\ task'[waiting'[i]].pc = "queued" /\ task'[waiting'[i]].ids = {i}
    BY Zenon DEF WaitingOK
  <2>1. CASE waiting'[i] = waiting[i] /\ i \notin call.ids
    <3>1. waiting[i] = tails[i] /\ task[waiting[i]].pc = "queued" /\ task[waiting[i]].ids = {i} /\ waiting[i] \in Calls
      BY Zenon, <1>1, <1>3, <2>1 DEF WaitingOK
    <3>2. task'[waiting[i]] = task[waiting[i]]
      BY Zenon, <1>7, <1>8, <3>1
    <3> QED
      BY Zenon, <1>2, <2>1, <3>1, <3>2
  <2>2. CASE waiting'[i] = n /\ call.ids = {i} /\ tails[i] # 0
    <3>1. tails[i] \in previous
      BY Zenon, <2>2
    <3> HIDE DEF previous
    <3> QED
      BY Zenon, <1>2, <1>6, <1>7, <2>2, <3>1
  <2> QED
    BY Zenon, <2>1, <2>2
<1>16. MergedOK'
  <2> SUFFICES ASSUME NEW c \in Calls, task'[c].pc = "merged"
               PROVE  LET w == task'[c].into
                      IN /\ w \in Calls /\ w < c /\ task'[w].pc \notin {"none", "merged"} /\ task'[w].ids = task'[c].ids
                         /\ \A d \in Calls, i \in Issues : i \in task'[c].ids /\ Own(d, i)' => d <= w \/ d > c
    BY Zenon DEF MergedOK
  <2>1. task'[c] = task[c] /\ task[c].pc = "merged" /\ c < n
    BY SMTT(20), <1>6, <1>7, <1>8, Constants
  <2>2. /\ task[c].into \in Calls /\ task[c].into < c /\ task[task[c].into].pc \notin {"none", "merged"}
        /\ task[task[c].into].ids = task[c].ids
        /\ \A d \in Calls, i \in Issues : i \in task[c].ids /\ Own(d, i) => d <= task[c].into \/ d > c
    BY Zenon, <1>1, <2>1 DEF MergedOK
  <2>3. task'[task[c].into] = task[task[c].into]
    BY Zenon, <1>7, <1>8, <2>2
  <2>4. \A d \in Calls, i \in Issues : i \in task[c].ids /\ Own(d, i)' => d <= task[c].into \/ d > c
    BY Zenon, <1>10, <2>1, <2>2
  <2> QED
    BY Zenon, <2>1, <2>2, <2>3, <2>4
<1>17. BodyOK'
  <2>1. ASSUME NEW c \in Calls, c # n
        PROVE  /\ \A f \in Fields : task'[c].body[f] # 0 => task'[c].body[f] >= c
               /\ task'[c].pc = "merged" /\ task'[task'[c].into].pc # "settled" =>
                    \A f \in Fields : task'[c].body[f] # 0 => task'[task'[c].into].body[f] >= c
               /\ task'[c].pc = "sent" \/ task'[c].status # "none" => task'[c].pc \in {"sent", "served", "returned"}
               /\ task'[c].pc = "sent" \/ task'[c].status = "ok" => task'[c].wire = task'[c].body
    <3>1. task'[c] = task[c]
      BY Zenon, <1>7, <2>1
    <3>2. task[c].pc = "merged" => task[c].into \in Calls /\ task'[task[c].into] = task[task[c].into]
      BY <1>1, <1>7, <1>8 DEF MergedOK
    <3> QED
      BY <1>1, <3>1, <3>2 DEF BodyOK
  <2>2. \A f \in Fields : y.body[f] # 0 => y.body[f] >= n
    BY SMTT(20), <1>6, <1>8
  <2> QED
    BY SMTT(20), <1>6, <1>7, <2>1, <2>2 DEF BodyOK
<1>18. AnswerOK' /\ PlacesOK'
  BY SMTT(20), <1>1, <1>2, <1>6, <1>7 DEF AnswerOK, PlacesOK
<1>19. ConflictsExpire'
  BY <1>1, <1>2, <1>8 DEF ConflictsExpire
<1> QED
  BY Zenon, <1>12, <1>13, <1>14, <1>15, <1>16, <1>17, <1>18, <1>19 DEF IInv

(* An edit joins the update that waits for its issue.                      *)
LEMMA MergeStep ==
  ASSUME IInv, NEW call \in CallType, NEW i \in Issues, call.ids = {i}, call.status = "none",
         NEW F \in SUBSET Fields, call.body = Body(made + 1, F),
         made + 1 \in Calls, waiting[i] # 0, made' = made + 1,
         task' = [task EXCEPT ![made + 1] = [call EXCEPT !.pc = "merged", !.into = waiting[i]],
                              ![waiting[i]].body = [f \in Fields |-> IF f \in F THEN made + 1 ELSE @[f]]],
         UNCHANGED <<tails, waiting, lineages, conflicts, storeVars, heardVars>>,
         screen' \in [Issues -> Versions]
  PROVE  IInv'
<1> DEFINE n == made + 1
           w == waiting[i]
           x == [call EXCEPT !.pc = "merged", !.into = w]
           b == [f \in Fields |-> IF f \in F THEN n ELSE task[w].body[f]]
           y == [task[w] EXCEPT !.body = b]
<1>1. Typed /\ OrderOK /\ TailsOK /\ WaitingOK /\ MergedOK /\ BodyOK /\ AnswerOK /\ PlacesOK /\ ConflictsExpire
  BY Zenon DEF IInv
<1>2. w \in Calls /\ w = tails[i] /\ task[w].pc = "queued" /\ task[w].ids = {i}
  BY <1>1 DEF Typed, TypeOK, Calls, WaitingOK
<1>3. made \in Nat /\ task[n].pc = "none" /\ \A c \in Calls : c > n => task[c].pc = "none"
  BY <1>1, Constants DEF Typed, TypeOK, TailsOK
<1>4. w # n /\ w < n /\ w \in Nat
  <2>1. ~(w > made)
    BY Zenon, <1>1, <1>2 DEF TailsOK
  <2> QED
    BY <1>2, <1>3, <2>1, Constants
<1>4a. n \in Calls /\ n \in Nat /\ n = made + 1 /\ made' = n /\ call.body = Body(n, F)
  BY <1>3
<1>4b. x = [call EXCEPT !.pc = "merged", !.into = w] /\ w = waiting[i]
  BY Zenon
<1>4c. task' = [task EXCEPT ![n] = x, ![w].body = b]
  <2>1. [f \in Fields |-> IF f \in F THEN made + 1 ELSE [task EXCEPT ![n] = x][w].body[f]] = b
    BY Zenon, <1>1, <1>2, <1>4 DEF Typed
  <2> QED
    BY Zenon, <2>1
<1>4d. n \in Nat
  BY Zenon, <1>4a
<1> HIDE DEF n, w, x
<1>5. x \in CallType /\ x.pc = "merged" /\ x.into = w /\ x.ids = {i} /\ x.status = "none" /\ x.body = Body(n, F)
  <2>1. w \in 0 .. MaxCalls
    BY <1>2, Constants DEF Calls
  <2>2. x \in CallType
    BY Zenon, <1>4b, <2>1 DEF CallType
  <2>3. x.pc = "merged" /\ x.into = w /\ x.ids = call.ids /\ x.status = call.status /\ x.body = call.body
    BY Zenon, <1>4b DEF CallType
  <2> QED
    BY Zenon, <1>4a, <2>2, <2>3
<1>6. b \in Sets /\ task[w] \in CallType
  <2>1. task[w] \in CallType
    BY Zenon, <1>1, <1>2 DEF Typed
  <2>2. task[w].body \in Sets
    BY Zenon, <2>1 DEF CallType
  <2>3. n \in 0 .. MaxCalls
    BY <1>4a, Constants DEF Calls
  <2> QED
    BY Zenon, <2>1, <2>2, <2>3 DEF Sets
<1> HIDE DEF b
<1>7. y \in CallType /\ y.pc = "queued" /\ y.ids = {i} /\ y.after = task[w].after /\ y.status = task[w].status
      /\ y.body = b
  BY Zenon, <1>2, <1>6 DEF CallType
<1>8. task' = [[task EXCEPT ![n] = x] EXCEPT ![w] = y]
  <2>1. [task EXCEPT ![n] = x][w] = task[w]
    BY Zenon, <1>1, <1>2, <1>4, <1>4a DEF Typed
  <2> QED
    BY Zenon, <1>4c, <2>1
<1> HIDE DEF x, y
<1>9. task'[n] = x /\ task'[w] = y /\ \A c \in Calls : c # n /\ c # w => task'[c] = task[c]
  BY Zenon, <1>1, <1>2, <1>4, <1>8, <1>4a DEF Typed
<1>10. /\ UNCHANGED <<tails, waiting, lineages, conflicts, version, history, others, known, strayed>> /\ made' = n
  BY Zenon, <1>4a DEF storeVars, heardVars
<1>11. Typed'
  <2>1. task' \in [Calls -> CallType]
    BY Zenon, <1>1, <1>2, <1>5, <1>7, <1>8, <1>4a DEF Typed
  <2>2. made' \in 0 .. MaxCalls
    BY <1>10, <1>4a, Constants DEF Calls
  <2> QED
    BY Zenon, <1>1, <1>10, <2>1, <2>2 DEF Typed, TypeOK
<1>12. \A c \in Calls, j \in Issues : Own(c, j)' <=> Own(c, j)
  BY ZenonT(30), <1>2, <1>3, <1>5, <1>7, <1>9 DEF Own
<1>13. \A c \in Calls : c # n => task'[c].pc = task[c].pc /\ task'[c].ids = task[c].ids /\ task'[c].after = task[c].after
  BY Zenon, <1>2, <1>7, <1>9
<1>14. \A c \in Calls, j \in Issues : Own(c, j) => c # n
  BY Zenon, <1>3 DEF Own
<1>15. \A c \in Calls : task[c].after \subseteq Calls
  BY Zenon, <1>1 DEF Typed, CallType
<1>16. OrderOK'
  <2> SUFFICES ASSUME NEW c \in Calls, NEW d \in Calls, NEW j \in Issues, c < d, Own(c, j), Own(d, j),
                      task'[c].pc # "settled"
               PROVE  task'[d].pc = "queued" /\ Waits(d, c, j)'
    BY Zenon, <1>12 DEF OrderOK
  <2>1. task[d].pc = "queued" /\ Waits(d, c, j) /\ d # n
    BY ZenonT(30), <1>1, <1>13, <1>14 DEF OrderOK
  <2>2. PICK a \in task[d].after : Own(a, j) /\ c <= a /\ a < d
    BY Zenon, <2>1 DEF Waits
  <2>3. Own(a, j)' /\ a \in task'[d].after
    BY Zenon, <1>12, <1>13, <1>15, <2>1, <2>2
  <2> QED
    BY Zenon, <1>13, <2>1, <2>2, <2>3 DEF Waits
<1>17. TailsOK'
  <2>1. \A c \in Calls : task'[c].pc = "none" <=> c > made'
    <3> SUFFICES ASSUME NEW c \in Calls PROVE task'[c].pc = "none" <=> c > n
      BY Zenon, <1>10
    <3>1. c = n => task'[c].pc # "none" /\ ~(c > n)
      <4>1. task'[n].pc # "none"
        BY Zenon, <1>5, <1>9
      <4>2. ~(n > n)
        BY <1>4d
      <4> QED
        BY Zenon, <4>1, <4>2
    <3>2. c # n => (c > made <=> c > n)
      BY <1>3, <1>4a, Constants
    <3> QED
      BY Zenon, <1>1, <1>13, <3>1, <3>2 DEF TailsOK
  <2>2. ASSUME NEW j \in Issues, tails'[j] # 0 PROVE Own(tails[j], j)' /\ task'[tails'[j]].pc # "settled"
    <3>1. tails'[j] = tails[j] /\ tails[j] \in Calls /\ Own(tails[j], j) /\ task[tails[j]].pc # "settled"
      BY <1>1, <1>10, <2>2 DEF TailsOK, Typed, TypeOK, Calls
    <3>2. tails[j] # n
      BY Zenon, <1>14, <3>1
    <3> QED
      BY ZenonT(30), <1>13, <3>1, <3>2 DEF Own
  <2>3. \A c \in Calls, j \in Issues : Own(c, j)' => IF tails'[j] = 0 THEN task'[c].pc = "settled" ELSE c <= tails'[j]
    <3> SUFFICES ASSUME NEW c \in Calls, NEW j \in Issues, Own(c, j)
                 PROVE  IF tails[j] = 0 THEN task'[c].pc = "settled" ELSE c <= tails[j]
      BY Zenon, <1>10, <1>12
    <3> QED
      BY ZenonT(30), <1>1, <1>13, <1>14 DEF TailsOK
  <2> QED
    BY Zenon, <2>1, <2>2, <2>3 DEF TailsOK
<1>18. WaitingOK'
  <2> SUFFICES ASSUME NEW j \in Issues, waiting[j] # 0
               PROVE  waiting[j] = tails[j] /\ task'[waiting[j]].pc = "queued" /\ task'[waiting[j]].ids = {j}
    BY Zenon, <1>10 DEF WaitingOK
  <2>1. waiting[j] = tails[j] /\ task[waiting[j]].pc = "queued" /\ task[waiting[j]].ids = {j} /\ waiting[j] \in Calls
    BY <1>1 DEF WaitingOK, Typed, TypeOK, Calls
  <2> QED
    BY Zenon, <1>3, <1>13, <2>1
<1>19. MergedOK'
  <2>1. ASSUME NEW c \in Calls, task'[c].pc = "merged"
        PROVE  /\ task'[c].into \in Calls /\ task'[c].into < c
               /\ task'[task'[c].into].pc \notin {"none", "merged"} /\ task'[task'[c].into].ids = task'[c].ids
               /\ \A d \in Calls, j \in Issues : j \in task'[c].ids /\ Own(d, j) => d <= task'[c].into \/ d > c
    <3>1. CASE c = n
      <4>1. task'[c].into = w /\ task'[c].ids = {i}
        BY Zenon, <1>5, <1>9, <3>1
      <4>2. \A d \in Calls : Own(d, i) => d <= w
        BY Zenon, <1>1, <1>2, Constants DEF TailsOK
      <4> QED
        BY ZenonT(30), <1>2, <1>4, <1>7, <1>9, <3>1, <4>1, <4>2
    <3>2. CASE c # n
      <4>1. task[c].pc = "merged" /\ task'[c] = task[c]
        BY ZenonT(30), <1>2, <1>9, <1>13, <2>1, <3>2
      <4>2. /\ task[c].into \in Calls /\ task[c].into < c /\ task[task[c].into].pc \notin {"none", "merged"}
            /\ task[task[c].into].ids = task[c].ids
            /\ \A d \in Calls, j \in Issues : j \in task[c].ids /\ Own(d, j) => d <= task[c].into \/ d > c
        BY Zenon, <1>1, <4>1 DEF MergedOK
      <4>3. task[c].into # n
        BY Zenon, <1>3, <4>2
      <4> QED
        BY ZenonT(30), <1>13, <4>1, <4>2, <4>3
    <3> QED
      BY Zenon, <3>1, <3>2
  <2> QED
    BY Zenon, <1>12, <2>1 DEF MergedOK
<1>20. BodyOK'
  <2>1. \A f \in Fields : b[f] = IF f \in F THEN n ELSE task[w].body[f]
    BY Zenon DEF b
  <2>2. \A f \in Fields : x.body[f] = IF f \in F THEN n ELSE 0
    BY Zenon, <1>5 DEF Body
  <2>3. ASSUME NEW f \in Fields, NEW c \in Calls, c # n PROVE task'[c].body[f] # 0 => task'[c].body[f] >= c
    <3>1. task[c].body[f] # 0 => task[c].body[f] >= c
      BY Zenon, <1>1 DEF BodyOK
    <3>2. c # w => task'[c].body[f] = task[c].body[f]
      BY Zenon, <1>9, <2>3
    <3>3. c = w => task'[c].body[f] = IF f \in F THEN n ELSE task[c].body[f]
      BY Zenon, <1>7, <1>9, <2>1
    <3>4. n >= w
      BY <1>4, <1>4a
    <3> QED
      BY Zenon, <3>1, <3>2, <3>3, <3>4
  <2>4. ASSUME NEW c \in Calls, task'[c].pc = "merged", task'[task'[c].into].pc # "settled",
               NEW f \in Fields, task'[c].body[f] # 0
        PROVE  task'[task'[c].into].body[f] >= c
    <3>1. CASE c = n
      <4>1. task'[c].into = w /\ f \in F
        BY Zenon, <1>5, <1>9, <2>2, <2>4, <3>1
      <4>2. task'[w].body[f] = n
        BY Zenon, <1>7, <1>9, <2>1, <4>1
      <4>3. n >= n
        BY <1>4d
      <4> QED
        BY Zenon, <3>1, <4>1, <4>2, <4>3
    <3>2. CASE c # n
      <4>1. task[c].pc = "merged" /\ task'[c] = task[c] /\ task[c].into \in Calls /\ task[c].into # n /\ c < n
        <5>1. task[c].pc = "merged" /\ task'[c] = task[c]
          BY Zenon, <1>2, <1>9, <1>13, <2>4, <3>2
        <5>2. task[c].into \in Calls /\ task[c].into # n
          BY Zenon, <1>1, <1>3, <5>1 DEF MergedOK
        <5>3. ~(c > n)
          BY Zenon, <1>3, <5>1
        <5>4. c \in Nat
          BY Zenon, Constants
        <5>5. c < n
          BY <1>4d, <3>2, <5>3, <5>4
        <5> QED
          BY Zenon, <5>1, <5>2, <5>5
      <4>2. task[task[c].into].body[f] >= c
        <5>1. task[task[c].into].pc # "settled" /\ task[c].body[f] # 0
          BY Zenon, <1>13, <2>4, <4>1
        <5> QED
          BY Zenon, <1>1, <4>1, <5>1 DEF BodyOK
      <4>3. task[c].into = w => task'[w].body[f] = IF f \in F THEN n ELSE task[w].body[f]
        BY Zenon, <1>7, <1>9, <2>1
      <4>4. task[c].into # w => task'[task[c].into] = task[task[c].into]
        BY Zenon, <1>9, <4>1
      <4>5. n >= c
        BY <1>4a, <4>1, Constants
      <4> QED
        BY Zenon, <4>1, <4>2, <4>3, <4>4, <4>5
    <3> QED
      BY Zenon, <3>1, <3>2
  <2>5. \A c \in Calls : task'[c].pc = "sent" \/ task'[c].status # "none" => c # n /\ c # w
    BY Zenon, <1>1, <1>2, <1>5, <1>7, <1>9 DEF BodyOK
  <2>6. \A f \in Fields : task'[n].body[f] # 0 => task'[n].body[f] >= n
    <3>1. n >= n
      BY <1>4a
    <3> QED
      BY Zenon, <1>9, <2>2, <3>1
  <2>7. ASSUME NEW c \in Calls, task'[c].pc = "sent" \/ task'[c].status # "none"
        PROVE  task'[c].pc \in {"sent", "served", "returned"}
    BY Zenon, <1>1, <1>9, <2>5, <2>7 DEF BodyOK
  <2>8. ASSUME NEW c \in Calls, task'[c].pc = "sent" \/ task'[c].status = "ok"
        PROVE  task'[c].wire = task'[c].body
    BY ZenonT(30), <1>1, <1>9, <2>5, <2>8 DEF BodyOK
  <2> QED
    BY ZenonT(30), <2>3, <2>4, <2>6, <2>7, <2>8 DEF BodyOK
<1>21. AnswerOK' /\ PlacesOK'
  <2>1. \A c \in Calls : task'[c].pc = "served" => c # n /\ c # w
    BY Zenon, <1>5, <1>7, <1>9
  <2>2. AnswerOK'
    <3> SUFFICES ASSUME NEW c \in Calls, task'[c].pc = "served", NEW j \in Issues
                 PROVE  task'[c].at[j] <= version'[j] /\ (j \in task'[c].ids => task'[c].at[j] # 0)
      BY Zenon DEF AnswerOK
    <3>1. task'[c] = task[c]
      BY Zenon, <1>9, <2>1
    <3> QED
      BY Zenon, <1>1, <1>10, <3>1 DEF AnswerOK
  <2>3. PlacesOK'
    BY ZenonT(30), <1>1, <1>5, <1>9, <1>13 DEF PlacesOK
  <2> QED
    BY Zenon, <2>2, <2>3
<1>22. ConflictsExpire'
  BY Zenon, <1>1, <1>10 DEF ConflictsExpire
<1> QED
  BY Zenon, <1>11, <1>16, <1>17, <1>18, <1>19, <1>20, <1>21, <1>22 DEF IInv

LEMMA BodyTyped ==
  ASSUME NEW n \in Calls, NEW F \in SUBSET Fields
  PROVE  Body(n, F) \in Sets /\ \A f \in Fields : Body(n, F)[f] \in {0, n}
  BY Constants DEF Body, Sets, Calls

LEMMA UpdateStep ==
  ASSUME IInv, NEW i \in Issues, NEW F \in SUBSET Fields, NEW kind \in {"fields", "document", "write"},
         NEW v \in 0 .. MaxVersion, queueIssueUpdate(i, F, kind, v), screen' \in [Issues -> Versions]
  PROVE  IInv'
<1> DEFINE n == made + 1
           call == [NoCall EXCEPT !.ids = {i}, !.kind = kind, !.body = Body(n, F), !.base = v]
<1>1. n \in Calls /\ UNCHANGED <<lineages, conflicts, storeVars, heardVars>>
  BY Zenon DEF queueIssueUpdate
<1>2. /\ call \in CallType /\ call.ids = {i} /\ call.status = "none" /\ call.body = Body(n, F)
      /\ \A f \in Fields : call.body[f] \in {0, n}
  <2>1. Body(n, F) \in Sets /\ \A f \in Fields : Body(n, F)[f] \in {0, n}
    BY Zenon, <1>1, BodyTyped
  <2>2. NoCall \in CallType /\ NoCall.status = "none" /\ {i} \in SUBSET Issues
    BY Zenon, NoCallTyped
  <2>3. call \in CallType /\ call.ids = {i} /\ call.status = "none" /\ call.body = Body(n, F)
    BY Zenon, <2>1, <2>2 DEF CallType
  <2> QED
    BY Zenon, <2>1, <2>3
<1>3. CASE Mergeable(i, call)
  <2>1. /\ made' = n
        /\ task' = [task EXCEPT ![n] = [call EXCEPT !.pc = "merged", !.into = waiting[i]],
                                ![waiting[i]].body = [f \in Fields |-> IF f \in F THEN n ELSE @[f]]]
        /\ UNCHANGED <<tails, waiting>>
    BY Zenon, <1>3 DEF queueIssueUpdate
  <2>2. waiting[i] # 0
    BY Zenon, <1>3 DEF Mergeable
  <2> HIDE DEF call
  <2> QED
    BY Zenon, <1>1, <1>2, <2>1, <2>2, MergeStep
<1>4. CASE ~Mergeable(i, call)
  <2>1. enqueue(n, call) /\ waiting' = [waiting EXCEPT ![i] = IF tails[i] # 0 THEN n ELSE 0]
    BY Zenon, <1>4 DEF queueIssueUpdate
  <2>2. waiting \in [Issues -> 0 .. MaxCalls] /\ n \in 0 .. MaxCalls
    BY <1>1, Constants DEF IInv, Typed, TypeOK, Calls
  <2>3. waiting' \in [Issues -> 0 .. MaxCalls]
    BY <2>1, <2>2, Constants
  <2>4. \A j \in Issues : \/ waiting'[j] = 0
                          \/ waiting'[j] = waiting[j] /\ j \notin {i}
                          \/ waiting'[j] = n /\ {i} = {j} /\ tails[j] # 0
    BY Zenon, <2>1, <2>2
  <2> HIDE DEF call
  <2> QED
    BY Zenon, <1>1, <1>2, <2>1, <2>3, <2>4, EnqueueStep
<1> QED
  BY Zenon, <1>3, <1>4

LEMMA WriteStep ==
  ASSUME IInv, NEW ids \in (SUBSET Issues) \ {{}}, NEW F \in SUBSET Fields, queueIssuesWrite(ids, F)
  PROVE  IInv'
<1> DEFINE n == made + 1
           call == [NoCall EXCEPT !.ids = ids, !.body = Body(n, F)]
<1>1. /\ n \in Calls /\ enqueue(n, call)
      /\ waiting' = [i \in Issues |-> IF i \in ids THEN 0 ELSE waiting[i]]
      /\ UNCHANGED <<lineages, conflicts, screen, storeVars, heardVars>>
  BY Zenon DEF queueIssuesWrite
<1>2. Body(n, F) \in Sets /\ \A f \in Fields : Body(n, F)[f] \in {0, n}
  BY Zenon, <1>1, BodyTyped
<1>3. /\ call \in CallType /\ call.ids = ids /\ call.status = "none"
      /\ \A f \in Fields : call.body[f] \in {0, n}
  <2>1. call \in CallType /\ call.ids = ids /\ call.status = "none" /\ call.body = Body(n, F)
    BY Zenon, <1>2, NoCallTyped DEF CallType
  <2> QED
    BY Zenon, <1>2, <2>1
<1>4. waiting' \in [Issues -> 0 .. MaxCalls] /\ screen' \in [Issues -> Versions]
  BY <1>1, Constants DEF IInv, Typed, TypeOK
<1>5. \A i \in Issues : waiting'[i] = 0 \/ (waiting'[i] = waiting[i] /\ i \notin ids)
  BY Zenon, <1>1
<1> HIDE DEF call
<1> QED
  BY Zenon, <1>1, <1>3, <1>4, <1>5, EnqueueStep

LEMMA AskStep ==
  ASSUME IInv, NEW w \in Writes, Ask(w)
  PROVE  IInv'
<1>1. w.ids \in (SUBSET Issues) \ {{}} /\ w.fields \in SUBSET Fields /\ w.kind \in {"fields", "document", "write"}
  BY Zenon, WriteConstants
<1>2. CASE w.kind = "write" /\ queueIssuesWrite(w.ids, w.fields)
  BY Zenon, <1>1, <1>2, WriteStep
<1>3. ASSUME NEW i \in w.ids, NEW v \in screen[i] .. version[i],
             queueIssueUpdate(i, w.fields, w.kind, v), screen' = [screen EXCEPT ![i] = v]
      PROVE  IInv'
  <2>1. i \in Issues /\ screen \in [Issues -> Versions] /\ version[i] \in Versions
    BY Zenon, <1>1 DEF IInv, Typed, TypeOK
  <2>2. v \in Versions /\ v \in 0 .. MaxVersion
    BY <1>3, <2>1, Constants DEF Versions
  <2>3. screen' \in [Issues -> Versions]
    BY Zenon, <1>3, <2>1, <2>2
  <2> QED
    BY ZenonT(30), <1>1, <1>3, <2>1, <2>2, <2>3, UpdateStep
<1>4. ASSUME NEW i \in w.ids, queueIssueUpdate(i, w.fields, w.kind, 0), UNCHANGED screen
      PROVE  IInv'
  <2>1. i \in Issues /\ screen' \in [Issues -> Versions] /\ 0 \in 0 .. MaxVersion
    BY <1>1, <1>4, Constants DEF IInv, Typed, TypeOK
  <2> QED
    BY Zenon, <1>1, <1>4, <2>1, UpdateStep
<1> QED
  BY Zenon, <1>2, <1>3, <1>4 DEF Ask

-----------------------------------------------------------------------------
LEMMA StutterIInv == IInv /\ UNCHANGED vars => IInv'
<1> SUFFICES ASSUME IInv, UNCHANGED vars PROVE IInv'
  BY Zenon
<1>1. UNCHANGED <<made, task, tails, lineages, conflicts, waiting, screen, version, history, others, known, strayed>>
  BY Zenon DEF vars, queueVars, storeVars, heardVars
<1>2. Typed'
  BY Zenon, <1>1 DEF IInv, Typed, TypeOK
<1>3. TailsOK' /\ WaitingOK' /\ ConflictsExpire'
  BY SMTT(20), <1>1 DEF IInv, TailsOK, WaitingOK, ConflictsExpire, Own
<1>4. BodyOK'
  BY Zenon, <1>1 DEF IInv, BodyOK
<1>5. AnswerOK' /\ PlacesOK'
  BY Zenon, <1>1 DEF IInv, AnswerOK, PlacesOK
<1>6. OrderOK' /\ MergedOK'
  BY <1>1 DEF IInv, OrderOK, MergedOK, Own, Waits
<1> QED
  BY Zenon, <1>2, <1>3, <1>4, <1>5, <1>6 DEF IInv

LEMMA NextIInv == IInv /\ [Next]_vars => IInv'
<1> SUFFICES ASSUME IInv, Next PROVE IInv'
  BY Zenon, StutterIInv
<1>1. ASSUME NEW w \in Writes, Ask(w) PROVE IInv'
  BY Zenon, <1>1, AskStep
<1>2. ASSUME NEW i \in Issues, NEW f \in Fields, OtherWrite(i, {f}) PROVE IInv'
  BY Zenon, <1>2, OtherWriteStep
<1>3. ASSUME NEW t \in Calls, Queue(t) PROVE IInv'
  BY Zenon, <1>3, StartStep, SettleStep, ReturnOkStep, ReturnConflictStep DEF Queue
<1>4. ASSUME NEW t \in Calls, Refuse(t) \/ ReturnError(t) PROVE IInv'
  BY Zenon, <1>4, RefuseStep, ReturnErrorStep
<1>5. ASSUME NEW t \in Calls, NEW C \in SUBSET Issues, Serve(t, C) PROVE IInv'
  BY Zenon, <1>5, ServeStep
<1> QED
  BY Zenon, <1>1, <1>2, <1>3, <1>4, <1>5 DEF Next

LEMMA InvariantHolds == Spec => []IInv
  BY InitIInv, NextIInv, PTL DEF Spec

(* The run of versions that the tab remembers as its own is a proper       *)
(* interval below the stored version (recordWrite), and the queue's maps   *)
(* hold calls and versions that exist.                                     *)
THEOREM WritesTypeCorrect == Spec => []TypeOK
<1>1. IInv => TypeOK
  BY Zenon DEF IInv, Typed
<1> QED
  BY <1>1, InvariantHolds, PTL

(* Writes of one issue are sent in the order of the calls: when the        *)
(* request that carries a call was sent, the requests of earlier calls of  *)
(* a common issue are settled (enqueue, merged edits, batches).            *)
THEOREM WritesInOrder == Spec => []CalledOrder
<1>1. ASSUME IInv PROVE CalledOrder
  <2> SUFFICES ASSUME NEW c \in Calls, NEW d \in Calls, c < d, d <= made,
                      NEW i \in Issues, i \in task[c].ids, i \in task[d].ids, Carrier(c) # Carrier(d),
                      task[Carrier(d)].pc \notin {"none", "queued"}
               PROVE  task[Carrier(c)].pc = "settled"
    <3>1. \A c \in Calls : task[c].ids \subseteq Issues
      BY Zenon, <1>1 DEF IInv, Typed, CallType
    <3> QED
      BY Zenon, <3>1 DEF CalledOrder
  <2>1. /\ c \in Nat /\ d \in Nat /\ made \in Nat
        /\ OrderOK /\ TailsOK /\ MergedOK
    BY SMTT(20), <1>1, Constants DEF IInv, Typed, TypeOK
  <2>2. task[c].pc # "none" /\ task[d].pc # "none"
    <3>1. c <= made /\ d <= made
      BY <2>1
    <3>2. \A e \in Calls : task[e].pc = "none" <=> e > made
      BY ZenonT(30), <2>1 DEF TailsOK
    <3> QED
      BY <2>1, <3>1, <3>2
  <2>3. ASSUME NEW e \in {c, d}
        PROVE  Carrier(e) \in Calls /\ Carrier(e) <= e /\ Own(Carrier(e), i)
    <3>1. e \in Calls /\ e \in Nat /\ i \in task[e].ids /\ task[e].pc # "none"
      BY Zenon, <2>1, <2>2
    <3>2. CASE task[e].pc = "merged"
      <4>1. Carrier(e) = task[e].into
        BY Zenon, <3>2 DEF Carrier
      <4>2. /\ task[e].into \in Calls /\ task[e].into < e
            /\ task[task[e].into].pc \notin {"none", "merged"} /\ task[task[e].into].ids = task[e].ids
        BY Zenon, <2>1, <3>1, <3>2 DEF MergedOK
      <4>3. task[e].into <= e
        <5>1. task[e].into \in Nat /\ task[e].into < e
          BY Zenon, <4>2, Constants
        <5> QED
          BY <3>1, <5>1
      <4> QED
        BY Zenon, <3>1, <4>1, <4>2, <4>3 DEF Own
    <3>3. CASE task[e].pc # "merged"
      BY SMTT(20), <3>1, <3>3 DEF Carrier, Own
    <3> QED
      BY Zenon, <3>2, <3>3
  <2>4. /\ Carrier(c) \in Calls /\ Carrier(c) <= c /\ Own(Carrier(c), i)
        /\ Carrier(d) \in Calls /\ Carrier(d) <= d /\ Own(Carrier(d), i)
    BY Zenon, <2>3
  <2>5. Carrier(c) \in Nat /\ Carrier(d) \in Nat
    BY Zenon, <2>4, Constants
  <2>6. Carrier(c) < Carrier(d)
    <3>1. CASE task[d].pc = "merged"
      <4>1. Carrier(c) <= Carrier(d) \/ Carrier(c) > d
        BY ZenonT(30), <2>1, <2>4, <3>1 DEF MergedOK, Carrier
      <4> QED
        BY <2>1, <2>4, <2>5, <4>1
    <3>2. CASE task[d].pc # "merged"
      BY <2>1, <2>4, <2>5, <3>2 DEF Carrier
    <3> QED
      BY Zenon, <3>1, <3>2
  <2> QED
    BY Zenon, <2>1, <2>4, <2>6 DEF OrderOK
<1> QED
  BY <1>1, InvariantHolds, PTL

(* A fulfilled promise had its write in the accepted request, or a later   *)
(* edit of the same field in its place (Object.assign on a waiting input). *)
THEOREM FulfilledWasSent == Spec => []FulfilledSent
<1>1. ASSUME IInv PROVE FulfilledSent
  <2> SUFFICES ASSUME NEW c \in Calls, task[Carrier(c)].status = "ok",
                      NEW f \in Fields, task[c].body[f] # 0
               PROVE  task[Carrier(c)].wire[f] >= c
    BY Zenon DEF FulfilledSent
  <2>1. MergedOK /\ BodyOK
    BY Zenon, <1>1 DEF IInv
  <2>2. CASE task[c].pc = "merged"
    <3>1. Carrier(c) = task[c].into /\ task[c].into \in Calls
      BY Zenon, <2>1, <2>2 DEF Carrier, MergedOK
    <3>2. task[task[c].into].pc # "settled" /\ task[task[c].into].wire = task[task[c].into].body
      BY Zenon, <2>1, <3>1 DEF BodyOK
    <3> QED
      BY Zenon, <2>1, <2>2, <3>1, <3>2 DEF BodyOK
  <2>3. CASE task[c].pc # "merged"
    <3>1. Carrier(c) = c
      BY Zenon, <2>3 DEF Carrier
    <3> QED
      BY Zenon, <2>1, <3>1 DEF BodyOK
  <2> QED
    BY Zenon, <2>2, <2>3
<1> QED
  BY <1>1, InvariantHolds, PTL

(* A shared conflict does not outlive the queue of its issue.              *)
THEOREM ConflictsAlwaysExpire == Spec => []ConflictsExpire
<1>1. IInv => ConflictsExpire
  BY Zenon DEF IInv
<1> QED
  BY <1>1, InvariantHolds, PTL

-----------------------------------------------------------------------------
(* The tab's own versions.                                                 *)

InFlight(c) == task[c].pc \in {"sent", "served"}

(* Versions that the tab cannot take for its own.                          *)
Lost(i) == others[i] \cup strayed[i]

(* Of the versions K that are known, L that are lost and those up to V     *)
(* that are stored: the versions after b are known up to the last one w of *)
(* K, and none after w is lost.                                            *)
RunOf(K, L, V, b, w) ==
  /\ b < w /\ w \in K
  /\ \A v \in Versions : /\ b < v /\ v <= w => v \in K
                         /\ v \in K => v <= w
                         /\ w < v /\ v <= V => v \notin L

Run(i, b, w) == RunOf(known[i], Lost(i), version[i], b, w)

(* An edit from version b may still be sent.                               *)
Usable(i, b) ==
  \/ screen[i] <= b
  \/ \E c \in Calls : /\ task[c].pc = "queued" /\ task[c].kind # "write" /\ i \in task[c].ids
                      /\ task[c].base = b /\ conflicts[i] <= b

KnownOK ==
  \A i \in Issues :
    /\ \A v \in known[i] : v <= version[i] /\ v \notin Lost(i)
    /\ lineages[i] # NoLineage => lineages[i].to \in known[i] \cup Lost(i)

EditFits(x, stored) ==
  \/ x.kind = "write" /\ x.sent = 0
  \/ x.kind # "write" /\ \E i \in Issues : x.ids = {i} /\ x.base <= stored[i]

EditsOK == \A c \in Calls : task[c].pc \in {"queued", "sent", "served"} => EditFits(task[c], version)

(* The run of own versions that an edit can start from is the remembered   *)
(* one.                                                                    *)
Chained ==
  \A i \in Issues, b, w \in Versions :
    Usable(i, b) /\ Run(i, b, w) => lineages[i].from <= b /\ lineages[i].to = w

(* An edit of i that was sent with a version: with the end of the run of   *)
(* own versions from its base, if there is one, and not inside a run.      *)
SentFits(x, i) ==
  /\ x.base # 0 /\ x.base <= x.sent /\ x.sent <= version[i]
  /\ \A b, w \in Versions : Run(i, b, w) =>
       /\ Usable(i, b) => x.sent <= b \/ w <= x.sent
       /\ x.base = b => x.sent = w

SentOK ==
  \A c \in Calls, i \in Issues :
    InFlight(c) /\ i \in task[c].ids /\ task[c].sent # 0 => SentFits(task[c], i)

(* Nothing later than its answer becomes known while a write is served.    *)
ServedOK ==
  \A c \in Calls, i \in Issues :
    task[c].pc = "served" /\ i \in task[c].ids => \A v \in known[i] : v <= task[c].at[i]

ChainOK == KnownOK /\ EditsOK /\ Chained /\ SentOK /\ ServedOK

(* recordWrite for the run l.                                              *)
Record(l, sent, v) ==
  LET From(end, start) == IF l # NoLineage /\ l.to = end THEN l.from ELSE start
  IN IF sent # 0
     THEN IF v <= sent THEN l ELSE [from |-> From(sent, sent), to |-> v]
     ELSE IF l # NoLineage /\ v <= l.to THEN l
          ELSE [from |-> From(v - 1, v - 1), to |-> v]

LEMMA RecordIs ==
  ASSUME NEW i, NEW sent, NEW v
  PROVE  recordWrite(i, sent, v) = Record(lineages[i], sent, v)
BY Zenon DEF recordWrite, Record

(* What Record makes of a run.                                             *)
LEMMA RecordCases ==
  ASSUME NEW l \in Lineage, NEW s \in Nat, NEW a \in Nat \ {0}, l # NoLineage => l.from < l.to
  PROVE  LET n == Record(l, s, a)
         IN /\ s # 0 /\ a <= s => n = l
            /\ s # 0 /\ s < a => n.to = a /\ n.from = IF l # NoLineage /\ l.to = s THEN l.from ELSE s
            /\ s = 0 /\ l # NoLineage /\ a <= l.to => n = l
            /\ s = 0 /\ ~(l # NoLineage /\ a <= l.to) =>
                 n.to = a /\ n.from = IF l # NoLineage /\ l.to = a - 1 THEN l.from ELSE a - 1
BY SMTT(20), Constants DEF Record, Lineage

(* The answer to a write of the issue keeps runs remembered.               *)
AnswerFits(K, L, V, l, s, a, b, w, M) ==
  /\ K \in SUBSET Versions /\ L \in SUBSET Versions /\ V \in Versions /\ l \in Lineage
  /\ s \in Nat /\ a \in Versions /\ a <= V /\ b \in Versions /\ w \in Versions
  /\ \A v \in K : v <= a /\ v \notin L
  /\ l # NoLineage => l.from < l.to /\ l.to <= V /\ l.to \in K \cup L
  /\ \A u \in Versions : RunOf(K, L, V, b, u) => l.from <= b /\ l.to = u
  /\ s # 0 => \A u \in Versions : RunOf(K, L, V, b, u) => s <= b \/ u <= s
  /\ M = IF a \notin L /\ s < a THEN K \cup {a} ELSE K
  /\ RunOf(M, L, V, b, w)

LEMMA AnswerChains ==
  ASSUME NEW K, NEW L, NEW V, NEW l, NEW s, NEW a, NEW b, NEW w, NEW M, AnswerFits(K, L, V, l, s, a, b, w, M)
  PROVE  Record(l, s, a).from <= b /\ Record(l, s, a).to = w
<1> SUFFICES ASSUME K \in SUBSET Versions, L \in SUBSET Versions, V \in Versions, l \in Lineage,
                    s \in Nat, a \in Versions, a <= V, \A v \in K : v <= a /\ v \notin L,
                    l # NoLineage => l.from < l.to /\ l.to <= V /\ l.to \in K \cup L,
                    b \in Versions, w \in Versions,
                    \A u \in Versions : RunOf(K, L, V, b, u) => l.from <= b /\ l.to = u,
                    s # 0 => \A u \in Versions : RunOf(K, L, V, b, u) => s <= b \/ u <= s,
                    M = IF a \notin L /\ s < a THEN K \cup {a} ELSE K,
                    RunOf(M, L, V, b, w)
             PROVE  Record(l, s, a).from <= b /\ Record(l, s, a).to = w
  BY Zenon DEF AnswerFits
<1> DEFINE n == Record(l, s, a)
<1>1. /\ s # 0 /\ a <= s => n = l
      /\ s # 0 /\ s < a => n.to = a /\ n.from = IF l # NoLineage /\ l.to = s THEN l.from ELSE s
      /\ s = 0 /\ l # NoLineage /\ a <= l.to => n = l
      /\ s = 0 /\ ~(l # NoLineage /\ a <= l.to) =>
           n.to = a /\ n.from = IF l # NoLineage /\ l.to = a - 1 THEN l.from ELSE a - 1
  BY SMTT(20), RecordCases DEF Versions
<1> SUFFICES n.from <= b /\ n.to = w
  BY Zenon
<1> HIDE DEF n
<1>2. /\ K \subseteq Nat /\ L \subseteq Nat /\ V \in Nat /\ a \in Nat \ {0} /\ b \in Nat \ {0} /\ w \in Nat \ {0}
      /\ l.from \in Nat /\ l.to \in Nat /\ (l = NoLineage => l.from = 0 /\ l.to = 0)
  BY SMTT(20), Constants DEF Versions, Lineage, NoLineage
<1>3. CASE ~(s < a)
  <2>1. RunOf(K, L, V, b, w)
    BY Zenon, <1>3
  <2>2. l.from <= b /\ l.to = w
    BY Zenon, <2>1
  <2>3. n = l
    BY SMTT(20), <1>1, <1>2, <1>3
  <2> QED
    BY Zenon, <2>2, <2>3
<1>4. CASE s < a /\ a \in L
  <2>1. M = K
    BY Zenon, <1>4
  <2>2. w \in K /\ w <= a /\ a # w /\ \A v \in Versions : w < v /\ v <= V => v \notin L
    BY Zenon, <1>4, <2>1 DEF RunOf
  <2>3. w < a
    BY SMTT(20), <1>2, <2>2
  <2> QED
    BY Zenon, <1>4, <2>2, <2>3
<1>5. CASE s < a /\ a \notin L
  <2>1. M = K \cup {a}
    BY Zenon, <1>5
  <2>2. w = a
    BY SMTT(20), <1>2, <2>1 DEF RunOf
  <2>3. \A v \in Versions : a < v /\ v <= V => v \notin L
    BY Zenon, <2>2 DEF RunOf
  <2>4. b < a /\ \A v \in Versions : b < v /\ v < a => v \in K
    BY SMTT(20), <1>2, <2>1, <2>2 DEF RunOf
  <2>5. CASE b = a - 1
    <3>1. l # NoLineage /\ a <= l.to => l.to = a
      <4> SUFFICES ASSUME l # NoLineage, a < l.to PROVE FALSE
        BY SMTT(20), <1>2
      <4>1. l.to \in Versions /\ l.to <= V
        BY Zenon
      <4>2. l.to \notin L
        BY Zenon, <2>3, <4>1
      <4>3. l.to \notin K
        BY SMTT(20), <1>2
      <4> QED
        BY Zenon, <4>2, <4>3
    <3>2. l # NoLineage => l.from < l.to
      BY Zenon
    <3>3. n.to = a /\ n.from <= a - 1
      <4>1. CASE s # 0
        BY SMTT(20), <1>1, <1>2, <1>5, <3>2, <4>1
      <4>2. CASE s = 0
        BY SMTT(20), <1>1, <1>2, <3>1, <3>2, <4>2
      <4> QED
        BY Zenon, <4>1, <4>2
    <3> QED
      BY Zenon, <2>2, <2>5, <3>3
  <2>6. CASE b < a - 1
    <3>1. a - 1 \in Versions /\ a - 1 \in K
      <4>1. a - 1 \in Versions /\ a - 1 < a
        <5>1. a <= MaxVersion /\ MaxVersion \in Nat
          BY SMTT(20), Constants DEF Versions
        <5>2. a - 1 \in Nat /\ 1 <= a - 1 /\ a - 1 <= MaxVersion /\ a - 1 < a
          BY SMTT(20), <1>2, <2>6, <5>1
        <5> QED
          BY SMTT(20), <5>1, <5>2 DEF Versions
      <4> QED
        BY Zenon, <2>4, <2>6, <4>1
    <3>2. CASE a \in K
      <4>1. RunOf(K, L, V, b, a)
        BY Zenon, <1>2, <2>1, <2>2, <3>2 DEF RunOf
      <4>2. l.from <= b /\ l.to = a /\ (s # 0 => s <= b \/ a <= s)
        BY Zenon, <4>1
      <4> QED
        BY Zenon, <1>1, <1>2, <1>5, <2>2, <4>2
    <3>3. CASE a \notin K
      <4>1. RunOf(K, L, V, b, a - 1)
        <5>1. \A v \in Versions : a - 1 < v /\ v <= V => v \notin L
          BY SMTT(20), <1>2, <1>5, <2>3 DEF Versions
        <5>2. \A v \in K : v <= a - 1
          <6> SUFFICES ASSUME NEW v \in K PROVE v <= a - 1
            BY Zenon
          <6>1. v <= a /\ v # a /\ v \in Nat
            BY Zenon, <1>2, <3>3
          <6> QED
            BY SMTT(20), <1>2, <6>1
        <5>3. \A v \in Versions : b < v /\ v <= a - 1 => v \in K
          BY SMTT(20), <1>2, <2>4 DEF Versions
        <5> QED
          BY Zenon, <2>6, <3>1, <5>1, <5>2, <5>3 DEF RunOf
      <4>2. l.from <= b /\ l.to = a - 1 /\ (s # 0 => s <= b \/ a - 1 <= s)
        BY Zenon, <3>1, <4>1
      <4> QED
        BY SMTT(20), <1>1, <1>2, <1>5, <2>2, <2>6, <4>2
    <3> QED
      BY Zenon, <3>2, <3>3
  <2> QED
    BY SMTT(20), <1>2, <2>4, <2>5, <2>6
<1> QED
  BY Zenon, <1>2, <1>3, <1>4, <1>5

(* A side effect told of out of order leaves the runs that remain.         *)
StrayFits(K, L, V, l, a, b, w, M) ==
  /\ K \in SUBSET Versions /\ L \in SUBSET Versions /\ V \in Versions /\ l \in Lineage
  /\ a \in Versions /\ a <= V /\ b \in Versions /\ w \in Versions
  /\ l # NoLineage => l.from < l.to
  /\ RunOf(K, L, V, b, w) => l.from <= b /\ l.to = w
  /\ M \in SUBSET Versions /\ L \subseteq M /\ a \in M \cup K /\ RunOf(K, M, V, b, w)

LEMMA StrayChains ==
  ASSUME NEW K, NEW L, NEW V, NEW l, NEW a, NEW b, NEW w, NEW M, StrayFits(K, L, V, l, a, b, w, M)
  PROVE  Record(l, 0, a).from <= b /\ Record(l, 0, a).to = w
<1> SUFFICES ASSUME K \in SUBSET Versions, L \in SUBSET Versions, V \in Versions, l \in Lineage,
                    a \in Versions, a <= V, l # NoLineage => l.from < l.to,
                    b \in Versions, w \in Versions,
                    RunOf(K, L, V, b, w) => l.from <= b /\ l.to = w,
                    M \in SUBSET Versions, L \subseteq M, a \in M \cup K, RunOf(K, M, V, b, w)
             PROVE  Record(l, 0, a).from <= b /\ Record(l, 0, a).to = w
  BY Zenon DEF StrayFits
<1>1. a \in Nat \ {0} /\ w \in Nat \ {0} /\ V \in Nat
  BY SMTT(20), Constants DEF Versions
<1>2. RunOf(K, L, V, b, w)
  BY Zenon DEF RunOf
<1>3. a <= w
  BY SMTT(20), <1>1 DEF RunOf
<1>4. l.from <= b /\ l.to = w
  BY Zenon, <1>2
<1>5. l # NoLineage
  BY SMTT(20), <1>1, <1>4 DEF NoLineage
<1>6. Record(l, 0, a) = l
  BY Zenon, <1>1, <1>3, <1>4, <1>5, RecordCases
<1> QED
  BY Zenon, <1>4, <1>6

LEMMA RunKept ==
  ASSUME IInv, IInv', NEW i \in Issues, known'[i] = known[i], Lost(i) \subseteq Lost(i)', version[i] <= version'[i],
         NEW b \in Versions, NEW w \in Versions, Run(i, b, w)'
  PROVE  Run(i, b, w)
<1>1. version[i] \in Nat /\ version'[i] \in Nat /\ \A v \in Versions : v \in Nat
  BY SMTT(20), Constants DEF IInv, Typed, TypeOK, Versions
<1>2. RunOf(known[i], Lost(i)', version'[i], b, w)
  BY Zenon DEF Run
<1>3. \A v \in Versions : v <= version[i] => v <= version'[i]
  BY SMTT(20), <1>1
<1>4. RunOf(known[i], Lost(i), version[i], b, w)
  BY Zenon, <1>2, <1>3 DEF RunOf
<1> QED
  BY Zenon, <1>4 DEF Run

(* The version that an edit is sent with.                                  *)
LEMMA RunSends ==
  ASSUME NEW t, NEW call \in CallType, NEW i \in Issues, call.ids = {i}, call.kind # "write"
  PROVE  LET x == run(t, call)
         IN /\ x.pc = "sent" => /\ x.ids = {i} /\ x.kind = call.kind /\ x.base = call.base
                                /\ x.sent = versionToSend(i, call.base)
                                /\ call.base # 0 /\ conflicts[i] # 0 => ~(call.base < conflicts[i])
            /\ x.pc \in {"sent", "returned"}
<1>1. (CHOOSE j \in call.ids : TRUE) = i
  BY Zenon
<1> DEFINE y == [call EXCEPT !.pc = "returned", !.status = "shared"]
           z == [call EXCEPT !.pc = "sent", !.wire = call.body, !.sent = versionToSend(i, call.base), !.after = {}]
<1>2. run(t, call) = IF conflicts[i] # 0 /\ call.base # 0 /\ call.base < conflicts[i] THEN y ELSE z
  BY Zenon, <1>1 DEF run
<1>3. y.pc = "returned" /\ y.pc # "sent"
  BY Zenon DEF CallType
<1>4. z.pc = "sent" /\ z.ids = {i} /\ z.kind = call.kind /\ z.base = call.base /\ z.sent = versionToSend(i, call.base)
  BY ZenonT(30) DEF CallType
<1> HIDE DEF y, z
<1> QED
  BY Zenon, <1>2, <1>3, <1>4

LEMMA RunApart ==
  \A f, a, b, w \in Nat : f <= b /\ ~(f <= a /\ a < w) => a <= b \/ w <= a
  BY SMT

LEMMA RunFits ==
  ASSUME IInv, ChainOK, NEW t, NEW call \in CallType, NEW i \in Issues, call.ids = {i}, call.kind # "write",
         call.base <= version[i], call.base # 0 /\ conflicts[i] <= call.base => Usable(i, call.base),
         run(t, call).pc = "sent", run(t, call).sent # 0
  PROVE  SentFits(run(t, call), i)
<1> DEFINE x == run(t, call)
<1>1. /\ x.pc = "sent" /\ x.sent # 0 /\ x.base = call.base
      /\ x.sent = versionToSend(i, call.base)
      /\ call.base # 0 /\ conflicts[i] # 0 => ~(call.base < conflicts[i])
  BY ZenonT(30), RunSends
<1> SUFFICES SentFits(x, i)
  BY Zenon
<1> HIDE DEF x
<1>2. /\ call.base \in Nat /\ conflicts[i] \in Nat /\ version[i] \in Nat
      /\ lineages[i].from \in Nat /\ lineages[i].to \in Nat
  <2>1. /\ call.base \in 0 .. MaxVersion /\ conflicts[i] \in 0 .. MaxVersion
        /\ version[i] \in Versions /\ lineages[i] \in Lineage
    BY Zenon DEF IInv, Typed, TypeOK, CallType
  <2> QED
    BY Zenon, <2>1, Orders DEF Lineage
<1>3. lineages[i].to <= version[i]
  <2>1. CASE lineages[i] # NoLineage
    BY Zenon, <2>1 DEF IInv, Typed, TypeOK
  <2>2. CASE lineages[i] = NoLineage
    <3>1. NoLineage.to = 0
      BY Zenon DEF NoLineage
    <3> QED
      BY Zenon, <1>2, <2>2, <3>1, OrderFacts
  <2> QED
    BY Zenon, <2>1, <2>2
<1>4. call.base # 0
  BY Zenon, <1>1, <1>2 DEF versionToSend
<1>5. Usable(i, call.base)
  BY Zenon, <1>1, <1>2, <1>4, OrderFacts
<1>6. CASE lineages[i].from <= call.base /\ call.base < lineages[i].to
  <2>1. x.sent = lineages[i].to
    BY Zenon, <1>1, <1>4, <1>6 DEF versionToSend
  <2>2. ASSUME NEW b \in Versions, NEW w \in Versions, Run(i, b, w)
        PROVE  (Usable(i, b) => x.sent <= b \/ w <= x.sent) /\ (x.base = b => x.sent = w)
    <3>1. Usable(i, b) => lineages[i].to = w
      BY ZenonT(30), <2>2 DEF ChainOK, Chained
    <3>2. w <= w
      BY Zenon, <2>2, Orders
    <3> QED
      BY Zenon, <1>1, <1>5, <2>1, <3>1, <3>2
  <2>3. x.base # 0 /\ x.base <= x.sent /\ x.sent <= version[i]
    BY Zenon, <1>1, <1>2, <1>3, <1>4, <1>6, <2>1, OrderFacts
  <2> QED
    BY Zenon, <2>2, <2>3 DEF SentFits
<1>7. CASE ~(lineages[i].from <= call.base /\ call.base < lineages[i].to)
  <2>1. x.sent = call.base
    BY Zenon, <1>1, <1>4, <1>7 DEF versionToSend
  <2>2. ASSUME NEW b \in Versions, NEW w \in Versions, Run(i, b, w)
        PROVE  (Usable(i, b) => x.sent <= b \/ w <= x.sent) /\ (x.base = b => x.sent = w)
    <3>1. Usable(i, b) => lineages[i].from <= b /\ lineages[i].to = w
      BY Zenon, <2>2 DEF ChainOK, Chained
    <3>2. b < w /\ b \in Nat /\ w \in Nat
      BY Zenon, <2>2, Orders DEF Run, RunOf
    <3>3. Usable(i, b) => call.base <= b \/ w <= call.base
      <4>1. lineages[i].from <= b /\ ~(lineages[i].from <= call.base /\ call.base < w)
              => call.base <= b \/ w <= call.base
        BY ZenonT(30), <1>2, <3>2, RunApart
      <4> QED
        BY Zenon, <1>7, <3>1, <4>1
    <3>4. b # call.base
      BY Zenon, <1>2, <1>5, <1>7, <3>1, <3>2
    <3> QED
      BY Zenon, <1>1, <2>1, <3>3, <3>4
  <2>3. x.base # 0 /\ x.base <= x.sent /\ x.sent <= version[i]
    BY Zenon, <1>1, <1>2, <1>4, <2>1, Orders
  <2> QED
    BY Zenon, <2>2, <2>3 DEF SentFits
<1> QED
  BY Zenon, <1>6, <1>7

-----------------------------------------------------------------------------
(* A step that tells the tab nothing.  A call is as before, or is served   *)
(* with the stored versions; it is new, or sent; or it is out of the way.  *)
SameCall(c) ==
  /\ task'[c].ids = task[c].ids /\ task'[c].kind = task[c].kind
  /\ task'[c].base = task[c].base /\ task'[c].sent = task[c].sent
  /\ task'[c].pc = "queued" => task[c].pc = "queued"
  /\ task'[c].pc \in {"sent", "served"} => InFlight(c)
  /\ task'[c].pc = "served" => \/ task[c].pc = "served" /\ task'[c].at = task[c].at
                               \/ \A i \in task[c].ids : version[i] <= task'[c].at[i]

FreshCall(c) ==
  /\ task'[c].pc \in {"queued", "sent"} /\ EditFits(task'[c], version)
  /\ \A i \in Issues : task'[c].pc = "sent" /\ i \in task'[c].ids /\ task'[c].sent # 0 => SentFits(task'[c], i)

DoneCall(c) == task'[c].pc \notin {"queued", "sent", "served"}

CallKept(c) == SameCall(c) \/ FreshCall(c) \/ DoneCall(c)

LEMMA EditKept ==
  ASSUME IInv, IInv', NEW x \in CallType, EditFits(x, version), \A i \in Issues : version[i] <= version'[i],
         NEW y, y.kind = x.kind, y.sent = x.sent, y.ids = x.ids, y.base = x.base
  PROVE  EditFits(y, version')
<1>1. \A i \in Issues : version[i] \in Nat /\ version'[i] \in Nat
  BY SMTT(20) DEF IInv, Typed, TypeOK, Versions
<1>2. x.base \in Nat
  BY SMTT(20), Constants DEF CallType
<1>3. CASE x.kind = "write" /\ x.sent = 0
  BY Zenon, <1>3 DEF EditFits
<1>4. CASE x.kind # "write" /\ \E i \in Issues : x.ids = {i} /\ x.base <= version[i]
  <2>1. PICK i \in Issues : x.ids = {i} /\ x.base <= version[i]
    BY Zenon, <1>4
  <2>2. x.base <= version'[i]
    BY SMTT(20), <1>1, <1>2, <2>1
  <2> QED
    BY Zenon, <1>4, <2>1, <2>2 DEF EditFits
<1> QED
  BY Zenon, <1>3, <1>4 DEF EditFits

LEMMA SentKept ==
  ASSUME IInv, IInv', NEW i \in Issues, NEW x \in CallType, SentFits(x, i), NEW y,
         y.base = x.base, y.sent = x.sent, version[i] <= version'[i],
         \A b, w \in Versions : Run(i, b, w)' => Run(i, b, w),
         \A b \in Versions : Usable(i, b)' => Usable(i, b)
  PROVE  /\ y.base # 0 /\ y.base <= y.sent /\ y.sent <= version'[i]
         /\ \A b, w \in Versions : Run(i, b, w)' =>
              /\ Usable(i, b)' => y.sent <= b \/ w <= y.sent
              /\ y.base = b => y.sent = w
<1>1. version[i] \in Nat /\ version'[i] \in Nat /\ x.sent \in Nat
  BY ZenonT(30), Orders DEF IInv, Typed, TypeOK, CallType
<1>2. y.base # 0 /\ y.base <= y.sent /\ y.sent <= version'[i]
  BY SMTT(20), <1>1 DEF SentFits
<1> QED
  BY ZenonT(30), <1>2 DEF SentFits

LEMMA StillChained ==
  ASSUME IInv, IInv', ChainOK, UNCHANGED <<known, strayed, lineages>>,
         \A i \in Issues : /\ others[i] \subseteq others'[i] /\ version[i] <= version'[i]
                           /\ \A v \in others'[i] : v \in others[i] \/ version[i] < v,
         \A i \in Issues, b \in Versions : Usable(i, b)' => Usable(i, b),
         \A c \in Calls : CallKept(c)
  PROVE  ChainOK'
<1>1. ASSUME NEW i \in Issues, NEW b \in Versions, NEW w \in Versions, Run(i, b, w)'
      PROVE  Run(i, b, w)
  <2>1. known'[i] = known[i] /\ Lost(i) \subseteq Lost(i)' /\ version[i] <= version'[i]
    BY Zenon DEF Lost
  <2> QED
    BY Zenon, <1>1, <2>1, RunKept
<1>2. KnownOK'
  <2> SUFFICES ASSUME NEW i \in Issues
               PROVE  /\ \A v \in known[i] : v <= version'[i] /\ v \notin Lost(i)'
                      /\ lineages[i] # NoLineage => lineages[i].to \in known[i] \cup Lost(i)'
    BY Zenon DEF KnownOK
  <2>1. version[i] \in Nat /\ version'[i] \in Nat /\ known[i] \subseteq Nat /\ version[i] <= version'[i]
    BY SMTT(20), Constants DEF IInv, Typed, TypeOK, Versions
  <2>2. /\ \A v \in known[i] : v <= version[i] /\ v \notin Lost(i)
        /\ lineages[i] # NoLineage => lineages[i].to \in known[i] \cup Lost(i)
    BY Zenon DEF ChainOK, KnownOK
  <2>3. ASSUME NEW v \in known[i] PROVE v <= version'[i] /\ v \notin Lost(i)'
    <3>1. v <= version'[i] /\ ~(version[i] < v)
      BY SMTT(20), <2>1, <2>2
    <3> QED
      BY ZenonT(30), <2>2, <3>1 DEF Lost
  <2>4. Lost(i) \subseteq Lost(i)'
    BY Zenon DEF Lost
  <2> QED
    BY Zenon, <2>2, <2>3, <2>4
<1>3. EditsOK'
  <2> SUFFICES ASSUME NEW c \in Calls, task'[c].pc \in {"queued", "sent", "served"}
               PROVE  EditFits(task'[c], version')
    BY Zenon DEF EditsOK
  <2>1. CASE SameCall(c)
    <3>1. task[c].pc \in {"queued", "sent", "served"} /\ task[c] \in CallType
      BY Zenon, <2>1 DEF SameCall, InFlight, IInv, Typed
    <3>2. EditFits(task[c], version)
      BY Zenon, <3>1 DEF ChainOK, EditsOK
    <3> QED
      BY ZenonT(30), <2>1, <3>1, <3>2, EditKept DEF SameCall
  <2>2. CASE FreshCall(c)
    <3>1. EditFits(task'[c], version) /\ task'[c] \in CallType
      BY Zenon, <2>2 DEF FreshCall, IInv, Typed
    <3> QED
      BY Zenon, <3>1, EditKept
  <2> QED
    BY Zenon, <2>1, <2>2 DEF CallKept, DoneCall
<1>4. Chained'
  BY Zenon, <1>1 DEF ChainOK, Chained
<1>5. SentOK'
  <2> SUFFICES ASSUME NEW c \in Calls, NEW i \in Issues, InFlight(c)', i \in task'[c].ids, task'[c].sent # 0
               PROVE  SentFits(task[c], i)'
    BY Zenon DEF SentOK
  <2>1. PICK x \in CallType : SentFits(x, i) /\ task'[c].base = x.base /\ task'[c].sent = x.sent
    <3>1. CASE SameCall(c)
      <4>1. InFlight(c) /\ i \in task[c].ids /\ task[c].sent # 0 /\ task[c] \in CallType
        BY Zenon, <3>1 DEF SameCall, InFlight, IInv, Typed
      <4>2. SentFits(task[c], i)
        BY Zenon, <4>1 DEF ChainOK, SentOK
      <4> QED
        BY Zenon, <3>1, <4>1, <4>2 DEF SameCall
    <3>2. CASE FreshCall(c)
      <4>1. task'[c] \in CallType /\ task'[c].pc = "sent"
        BY Zenon, <3>2 DEF FreshCall, InFlight, IInv, Typed
      <4>2. SentFits(task'[c], i)
        BY Zenon, <3>2, <4>1 DEF FreshCall
      <4> QED
        BY ZenonT(30), <4>1, <4>2
    <3>3. ~DoneCall(c)
      BY ZenonT(30) DEF DoneCall, InFlight
    <3> QED
      BY Zenon, <3>1, <3>2, <3>3 DEF CallKept
  <2>2. version[i] <= version'[i]
    BY Zenon
  <2>3. /\ task'[c].base # 0 /\ task'[c].base <= task'[c].sent /\ task'[c].sent <= version'[i]
        /\ \A b, w \in Versions : Run(i, b, w)' =>
              /\ Usable(i, b)' => task'[c].sent <= b \/ w <= task'[c].sent
              /\ task'[c].base = b => task'[c].sent = w
    BY ZenonT(30), <1>1, <2>1, <2>2, SentKept
  <2> QED
    BY Zenon, <2>3 DEF SentFits
<1>6. ServedOK'
  <2> SUFFICES ASSUME NEW c \in Calls, NEW i \in Issues, task'[c].pc = "served", i \in task'[c].ids, NEW v \in known[i]
               PROVE  v <= task'[c].at[i]
    BY Zenon DEF ServedOK
  <2>1. SameCall(c)
    BY Zenon DEF CallKept, FreshCall, DoneCall
  <2>2. CASE task[c].pc = "served" /\ task'[c].at = task[c].at
    BY Zenon, <2>1, <2>2 DEF SameCall, ChainOK, ServedOK
  <2>3. CASE \A j \in task[c].ids : version[j] <= task'[c].at[j]
    <3>1. version[i] <= task'[c].at[i] /\ v <= version[i]
      BY ZenonT(30), <2>1, <2>3 DEF SameCall, ChainOK, KnownOK
    <3>2. version[i] \in Nat /\ v \in Nat /\ task'[c].at[i] \in Nat
      BY SMTT(20), Constants DEF IInv, Typed, TypeOK, Versions, CallType
    <3> QED
      BY SMTT(20), <3>1, <3>2
  <2> QED
    BY Zenon, <2>1, <2>2, <2>3 DEF SameCall
<1> QED
  BY ZenonT(30), <1>2, <1>3, <1>4, <1>5, <1>6 DEF ChainOK

LEMMA UsableKept ==
  ASSUME IInv, IInv', NEW i \in Issues, NEW b \in Versions, Usable(i, b)', screen[i] <= screen'[i],
         \A c \in Calls : task'[c].pc = "queued" /\ task'[c].kind # "write" /\ i \in task'[c].ids =>
           \/ screen[i] <= task'[c].base \/ task'[c].base = 0
           \/ /\ task[c].pc = "queued" /\ task[c].kind = task'[c].kind /\ i \in task[c].ids
              /\ task[c].base = task'[c].base /\ conflicts[i] = conflicts'[i]
  PROVE  Usable(i, b)
<1>1. screen[i] \in Nat /\ screen'[i] \in Nat /\ b \in Nat
  BY ZenonT(30), Orders DEF IInv, Typed, TypeOK
<1>1a. b # 0
  BY Zenon, VersionFacts
<1>2. CASE screen'[i] <= b
  BY Zenon, <1>1, <1>2, OrderFacts DEF Usable
<1>3. ASSUME NEW c \in Calls, task'[c].pc = "queued", task'[c].kind # "write", i \in task'[c].ids,
             task'[c].base = b, conflicts'[i] <= b
      PROVE  Usable(i, b)
  BY Zenon, <1>1a, <1>3 DEF Usable
<1> QED
  BY ZenonT(30), <1>2, <1>3 DEF Usable

LEMMA RunWrites ==
  ASSUME NEW t, NEW call \in CallType, call.kind = "write"
  PROVE  run(t, call).pc = "sent" /\ run(t, call).kind = "write" /\ run(t, call).sent = 0
<1> DEFINE z == [call EXCEPT !.pc = "sent", !.wire = call.body, !.sent = 0, !.after = {}]
<1>1. run(t, call) = z
  BY Zenon DEF run
<1>2. z.pc = "sent" /\ z.kind = "write" /\ z.sent = 0
  BY Zenon DEF CallType
<1> QED
  BY Zenon, <1>1, <1>2

(* A call that is sent is sent well.                                       *)
LEMMA RunFresh ==
  ASSUME IInv, ChainOK, NEW t, NEW call \in CallType, EditFits(call, version),
         \A i \in Issues : call.kind # "write" /\ call.ids = {i} /\ call.base # 0 /\ conflicts[i] <= call.base
                             => Usable(i, call.base)
  PROVE  LET x == run(t, call)
         IN \/ x.pc = "returned"
            \/ /\ x.pc = "sent" /\ EditFits(x, version)
               /\ \A i \in Issues : i \in x.ids /\ x.sent # 0 => SentFits(x, i)
<1> DEFINE x == run(t, call)
<1>1. CASE call.kind = "write"
  <2>1. x.pc = "sent" /\ x.kind = "write" /\ x.sent = 0
    BY Zenon, <1>1, RunWrites
  <2> QED
    BY Zenon, <2>1 DEF EditFits
<1>2. CASE call.kind # "write"
  <2>1. PICK i \in Issues : call.ids = {i} /\ call.base <= version[i]
    BY Zenon, <1>2 DEF EditFits
  <2>2. /\ x.pc = "sent" => x.ids = {i} /\ x.kind = call.kind /\ x.base = call.base
        /\ x.pc \in {"sent", "returned"}
    BY Zenon, <1>2, <2>1, RunSends
  <2>3. CASE x.pc = "sent"
    <3>1. x.sent # 0 => SentFits(x, i)
      BY Zenon, <1>2, <2>1, <2>3, RunFits
    <3>2. EditFits(x, version)
      BY Zenon, <1>2, <2>1, <2>2, <2>3 DEF EditFits
    <3>3. \A j \in Issues : j \in x.ids => j = i
      BY Zenon, <2>2, <2>3
    <3> QED
      BY Zenon, <2>3, <3>1, <3>2, <3>3
  <2> QED
    BY Zenon, <2>2, <2>3
<1> QED
  BY Zenon, <1>1, <1>2

LEMMA StartChains ==
  ASSUME IInv, IInv', ChainOK, NEW t \in Calls, Start(t)
  PROVE  ChainOK'
<1>1. /\ task[t].pc = "queued" /\ task' = [task EXCEPT ![t] = run(t, task[t])]
      /\ UNCHANGED <<lineages, conflicts, screen, version, others, known, strayed>>
  BY Zenon DEF Start, storeVars, heardVars
<1>2. task[t] \in CallType /\ task'[t] = run(t, task[t]) /\ \A c \in Calls : c # t => task'[c] = task[c]
  BY Zenon, <1>1 DEF IInv, Typed
<1>3. EditFits(task[t], version)
  BY Zenon, <1>1 DEF ChainOK, EditsOK
<1>4. \A i \in Issues : task[t].kind # "write" /\ task[t].ids = {i} /\ task[t].base # 0 /\ conflicts[i] <= task[t].base
        => Usable(i, task[t].base)
  BY ZenonT(30), <1>1 DEF Usable
<1>5. \/ task'[t].pc = "returned"
      \/ /\ task'[t].pc = "sent" /\ EditFits(task'[t], version)
         /\ \A i \in Issues : i \in task'[t].ids /\ task'[t].sent # 0 => SentFits(task'[t], i)
  <2> DEFINE x == run(t, task[t])
  <2>1. \/ x.pc = "returned"
        \/ /\ x.pc = "sent" /\ EditFits(x, version)
           /\ \A i \in Issues : i \in x.ids /\ x.sent # 0 => SentFits(x, i)
    BY ZenonT(30), <1>2, <1>3, <1>4, RunFresh
  <2>2. task'[t] = x
    BY Zenon, <1>2
  <2> HIDE DEF x
  <2> QED
    BY Zenon, <2>1, <2>2
<1>6. ASSUME NEW c \in Calls PROVE CallKept(c)
  <2>1. CASE c = t
    BY Zenon, <1>5, <2>1 DEF CallKept, FreshCall, DoneCall
  <2>2. CASE c # t
    BY Zenon, <1>2, <2>2 DEF CallKept, SameCall, InFlight
  <2> QED
    BY Zenon, <2>1, <2>2
<1>7. ASSUME NEW i \in Issues, NEW b \in Versions, Usable(i, b)' PROVE Usable(i, b)
  <2>1. task'[t].pc # "queued"
    BY Zenon, <1>5
  <2>2. screen[i] <= screen'[i] /\ conflicts[i] = conflicts'[i]
    BY SMTT(20), <1>1 DEF IInv, Typed, TypeOK, Versions
  <2> QED
    BY Zenon, <1>2, <1>7, <2>1, <2>2, UsableKept
<1>8. \A i \in Issues : /\ others[i] \subseteq others'[i] /\ version[i] <= version'[i]
                        /\ \A v \in others'[i] : v \in others[i] \/ version[i] < v
  BY SMTT(20), <1>1 DEF IInv, Typed, TypeOK, Versions
<1> QED
  BY Zenon, <1>1, <1>6, <1>7, <1>8, StillChained

(* A step of one call that changes nothing on the screen and in the queue. *)
LEMMA OneCallChains ==
  ASSUME IInv, IInv', ChainOK, NEW t \in Calls, NEW x, task' = [task EXCEPT ![t] = x],
         UNCHANGED <<known, strayed, lineages, conflicts, screen, others>>, x.pc # "queued", CallKept(t),
         \A i \in Issues : version[i] <= version'[i]
  PROVE  ChainOK'
<1>1. task'[t] = x /\ \A c \in Calls : c # t => task'[c] = task[c]
  BY Zenon DEF IInv, Typed
<1>2. ASSUME NEW c \in Calls PROVE CallKept(c)
  BY Zenon, <1>1 DEF CallKept, SameCall, InFlight
<1>3. ASSUME NEW i \in Issues, NEW b \in Versions, Usable(i, b)' PROVE Usable(i, b)
  <2>1. screen[i] <= screen'[i] /\ conflicts[i] = conflicts'[i]
    BY SMTT(20) DEF IInv, Typed, TypeOK, Versions
  <2> QED
    BY Zenon, <1>1, <1>3, <2>1, UsableKept
<1>4. \A i \in Issues : /\ others[i] \subseteq others'[i] /\ version[i] <= version'[i]
                        /\ \A v \in others'[i] : v \in others[i] \/ version[i] < v
  BY Zenon
<1> QED
  BY ZenonT(30), <1>2, <1>3, <1>4, StillChained

LEMMA RefuseChains ==
  ASSUME IInv, IInv', ChainOK, NEW t \in Calls, Refuse(t)
  PROVE  ChainOK'
<1> DEFINE at == [i \in Issues |-> IF i \in task[t].ids THEN version[i] ELSE 0]
           x == [task[t] EXCEPT !.pc = "served", !.status = "conflict", !.at = at]
<1>1. /\ task[t].pc = "sent" /\ task' = [task EXCEPT ![t] = x]
      /\ UNCHANGED <<lineages, conflicts, screen, version, others, known, strayed>>
  BY Zenon DEF Refuse, storeVars, heardVars
<1>2. task[t] \in CallType /\ task'[t] = x /\ \A i \in Issues : version[i] \in Nat
  BY SMTT(20), <1>1 DEF IInv, Typed, TypeOK, Versions
<1>3. /\ x.pc = "served" /\ x.ids = task[t].ids /\ x.kind = task[t].kind /\ x.base = task[t].base
      /\ x.sent = task[t].sent /\ x.at = at
  BY Zenon, <1>2 DEF CallType
<1>4. \A i \in task[t].ids : version[i] <= at[i]
  BY SMTT(20), <1>2 DEF CallType
<1> HIDE DEF x, at
<1>5. CallKept(t)
  BY Zenon, <1>1, <1>2, <1>3, <1>4 DEF CallKept, SameCall, InFlight
<1>6. x.pc # "queued" /\ \A i \in Issues : version[i] <= version'[i]
  BY SMTT(20), <1>1, <1>2, <1>3
<1> QED
  BY Zenon, <1>1, <1>5, <1>6, OneCallChains

LEMMA ServeChains ==
  ASSUME IInv, IInv', ChainOK, NEW t \in Calls, NEW C \in SUBSET Issues, Serve(t, C)
  PROVE  ChainOK'
<1>1. PICK S : /\ Store(t, C, S)
               /\ task' = [task EXCEPT ![t].pc = "served", ![t].status = "ok",
                            ![t].at = [i \in Issues |-> IF i \in task[t].ids \cup S THEN Raised(C, S)[i] ELSE 0]]
  BY Zenon DEF Serve
<1> DEFINE v == Raised(C, S)
           at == [i \in Issues |-> IF i \in task[t].ids \cup S THEN v[i] ELSE 0]
           x == [task[t] EXCEPT !.pc = "served", !.status = "ok", !.at = at]
<1>2. /\ task[t].pc = "sent" /\ task' = [task EXCEPT ![t] = x]
      /\ UNCHANGED <<lineages, conflicts, screen, others, known, strayed>>
  BY ZenonT(30), <1>1 DEF Serve, heardVars
<1>3. task[t] \in CallType /\ task'[t] = x /\ \A i \in Issues : version[i] \in Nat
  BY SMTT(20), <1>2 DEF IInv, Typed, TypeOK, Versions
<1>4. /\ x.pc = "served" /\ x.ids = task[t].ids /\ x.kind = task[t].kind /\ x.base = task[t].base
      /\ x.sent = task[t].sent /\ x.at = at
  BY Zenon, <1>3 DEF CallType
<1>5. \A i \in Issues : version[i] <= v[i]
  BY SMTT(20), <1>3 DEF Raised
<1>6. version' = v
  BY Zenon, <1>1 DEF Store
<1>7. \A i \in task[t].ids : version[i] <= at[i]
  BY Zenon, <1>3, <1>5 DEF CallType
<1> HIDE DEF x, at, v
<1>8. CallKept(t)
  BY Zenon, <1>2, <1>3, <1>4, <1>7 DEF CallKept, SameCall, InFlight
<1>9. x.pc # "queued" /\ \A i \in Issues : version[i] <= version'[i]
  BY Zenon, <1>4, <1>5, <1>6
<1> QED
  BY Zenon, <1>2, <1>8, <1>9, OneCallChains

LEMMA ReturnErrorChains ==
  ASSUME IInv, IInv', ChainOK, NEW t \in Calls, ReturnError(t)
  PROVE  ChainOK'
<1> DEFINE x == [task[t] EXCEPT !.pc = "returned", !.status = "error", !.sent = 0, !.base = 0, !.at = NoVersions]
<1>1. /\ task' = [task EXCEPT ![t] = x]
      /\ UNCHANGED <<lineages, conflicts, screen, version, others, known, strayed>>
  BY Zenon DEF ReturnError, storeVars, heardVars
<1>2. task[t] \in CallType /\ task'[t] = x /\ \A i \in Issues : version[i] <= version'[i]
  BY SMTT(20), <1>1 DEF IInv, Typed, TypeOK, Versions
<1>3. x.pc = "returned"
  BY Zenon, <1>2 DEF CallType
<1> HIDE DEF x
<1>4. CallKept(t) /\ x.pc # "queued"
  BY Zenon, <1>2, <1>3 DEF CallKept, DoneCall
<1> QED
  BY Zenon, <1>1, <1>2, <1>4, OneCallChains

(* Another session's version is no version of the tab.                     *)
LEMMA OtherWriteChains ==
  ASSUME IInv, IInv', ChainOK, NEW i \in Issues, NEW F \in SUBSET Fields, OtherWrite(i, F)
  PROVE  ChainOK'
<1>1. /\ UNCHANGED <<task, lineages, conflicts, screen, known, strayed>>
      /\ version' = [version EXCEPT ![i] = @ + 1] /\ others' = [others EXCEPT ![i] = @ \cup {version[i] + 1}]
  BY Zenon DEF OtherWrite, queueVars, heardVars
<1>2. /\ version \in [Issues -> Nat] /\ others \in [Issues -> SUBSET Versions]
      /\ screen \in [Issues -> Nat]
  BY SMTT(20) DEF IInv, Typed, TypeOK, Versions
<1>3. \A j \in Issues : /\ others[j] \subseteq others'[j] /\ version[j] <= version'[j]
                        /\ \A v \in others'[j] : v \in others[j] \/ version[j] < v
  BY SMTT(20), <1>1, <1>2
<1>4. \A c \in Calls : CallKept(c)
  BY Zenon, <1>1 DEF CallKept, SameCall, InFlight
<1>5. \A j \in Issues, b \in Versions : Usable(j, b)' => Usable(j, b)
  BY Zenon, <1>1 DEF Usable
<1> QED
  BY Zenon, <1>1, <1>3, <1>4, <1>5, StillChained

LEMMA SettleChains ==
  ASSUME IInv, IInv', ChainOK, NEW t \in Calls, Settle(t)
  PROVE  ChainOK'
<1> DEFINE x == [NoCall EXCEPT !.pc = "settled", !.ids = task[t].ids]
<1>1. /\ task[t].pc = "returned" /\ task' = [task EXCEPT ![t] = x]
      /\ UNCHANGED <<lineages, screen, version, others, known, strayed>>
  BY Zenon DEF Settle, storeVars, heardVars
<1>2. x.pc = "settled"
  BY Zenon, NoCallTyped DEF CallType
<1> HIDE DEF x
<1>3. task'[t] = x /\ \A c \in Calls : c # t => task'[c] = task[c]
  BY Zenon, <1>1 DEF IInv, Typed
<1>4. ASSUME NEW c \in Calls PROVE CallKept(c)
  <2>1. CASE c = t
    BY Zenon, <1>2, <1>3, <2>1 DEF CallKept, DoneCall
  <2>2. CASE c # t
    BY Zenon, <1>3, <2>2 DEF CallKept, SameCall, InFlight
  <2> QED
    BY Zenon, <2>1, <2>2
<1>5. ASSUME NEW i \in Issues, NEW c \in Calls, task'[c].pc = "queued", i \in task'[c].ids
      PROVE  c # t /\ task'[c] = task[c] /\ conflicts'[i] = conflicts[i]
  <2>1. c # t
    BY Zenon, <1>2, <1>3, <1>5
  <2>2. task'[c] = task[c]
    BY Zenon, <1>3, <2>1
  <2>3. Own(c, i)
    BY Zenon, <1>5, <2>2 DEF Own
  <2>4. ~(i \in task[t].ids /\ tails[i] = t)
    <3> SUFFICES ASSUME i \in task[t].ids, tails[i] = t PROVE FALSE
      BY Zenon
    <3>1. Own(t, i)
      BY Zenon, <1>1 DEF Own
    <3>2. c <= t
      BY Zenon, <2>3, Constants DEF IInv, TailsOK
    <3>3. c < t
      BY SMTT(20), <2>1, <3>2, Constants
    <3> QED
      BY Zenon, <1>1, <1>5, <2>2, <2>3, <3>1, <3>3 DEF IInv, OrderOK
  <2>5. conflicts'[i] = conflicts[i]
    BY Zenon, <2>4 DEF Settle
  <2> QED
    BY Zenon, <2>1, <2>2, <2>5
<1>6. ASSUME NEW i \in Issues, NEW b \in Versions, Usable(i, b)' PROVE Usable(i, b)
  <2>1. screen[i] <= screen'[i]
    BY SMTT(20), <1>1 DEF IInv, Typed, TypeOK, Versions
  <2> QED
    BY ZenonT(30), <1>5, <1>6, <2>1, UsableKept
<1>7. \A i \in Issues : /\ others[i] \subseteq others'[i] /\ version[i] <= version'[i]
                        /\ \A v \in others'[i] : v \in others[i] \/ version[i] < v
  BY SMTT(20), <1>1 DEF IInv, Typed, TypeOK, Versions
<1> QED
  BY Zenon, <1>1, <1>4, <1>6, <1>7, StillChained

(* A new call, which waits or is sent at once.                             *)
LEMMA EnqueueChains ==
  ASSUME IInv, IInv', ChainOK, NEW call \in CallType, made + 1 \in Calls, enqueue(made + 1, call),
         EditFits(call, version),
         \A i \in Issues : call.kind # "write" /\ i \in call.ids => call.base = 0 \/ screen[i] <= call.base,
         \A i \in Issues : screen[i] <= screen'[i],
         UNCHANGED <<lineages, conflicts, version, others, known, strayed>>
  PROVE  ChainOK'
<1> DEFINE n == made + 1
           previous == {tails[i] : i \in call.ids} \ {0}
           q == [call EXCEPT !.pc = "queued", !.after = previous]
           x == IF previous = {} THEN run(n, q) ELSE q
<1>1. task' = [task EXCEPT ![n] = x] /\ n \in Calls
  BY Zenon DEF enqueue
<1>2. /\ q \in CallType /\ q.kind = call.kind /\ q.ids = call.ids /\ q.base = call.base /\ q.sent = call.sent
      /\ q.pc = "queued"
  <2>1. previous \in SUBSET Calls
    <3>1. \A i \in call.ids : i \in Issues
      BY ZenonT(30) DEF CallType
    <3>2. \A i \in Issues : tails[i] # 0 => tails[i] \in Calls
      BY SMTT(20), Constants DEF IInv, Typed, TypeOK, Calls
    <3> QED
      BY Zenon, <3>1, <3>2
  <2> HIDE DEF previous
  <2> QED
    BY Zenon, <2>1 DEF CallType
<1>3. x = run(n, q) \/ x = q
  BY Zenon
<1> HIDE DEF n, previous, q, x
<1>4. EditFits(q, version)
  BY Zenon, <1>2 DEF EditFits
<1>5. \A i \in Issues : q.kind # "write" /\ q.ids = {i} /\ q.base # 0 /\ conflicts[i] <= q.base => Usable(i, q.base)
  BY Zenon, <1>2 DEF Usable
<1>6. \/ x.pc = "returned"
      \/ x = q
      \/ /\ x.pc = "sent" /\ EditFits(x, version)
         /\ \A i \in Issues : i \in x.ids /\ x.sent # 0 => SentFits(x, i)
  <2> DEFINE y == run(n, q)
  <2>1. \/ y.pc = "returned"
        \/ /\ y.pc = "sent" /\ EditFits(y, version)
           /\ \A i \in Issues : i \in y.ids /\ y.sent # 0 => SentFits(y, i)
    BY ZenonT(30), <1>2, <1>4, <1>5, RunFresh
  <2>2. x = y \/ x = q
    BY Zenon, <1>3
  <2> HIDE DEF y
  <2> QED
    BY Zenon, <2>1, <2>2
<1>7. task'[n] = x /\ \A c \in Calls : c # n => task'[c] = task[c]
  BY ZenonT(30), <1>1 DEF IInv, Typed
<1>8. ASSUME NEW c \in Calls PROVE CallKept(c)
  <2>1. CASE c = n
    BY Zenon, <1>2, <1>4, <1>6, <1>7, <2>1 DEF CallKept, DoneCall, FreshCall
  <2>2. CASE c # n
    BY Zenon, <1>7, <2>2 DEF CallKept, SameCall, InFlight
  <2> QED
    BY ZenonT(30), <2>1, <2>2
<1>9. ASSUME NEW i \in Issues, NEW b \in Versions, Usable(i, b)' PROVE Usable(i, b)
  <2>1. ASSUME NEW c \in Calls, task'[c].pc = "queued", task'[c].kind # "write", i \in task'[c].ids
        PROVE  \/ screen[i] <= task'[c].base \/ task'[c].base = 0
               \/ c # n /\ task'[c] = task[c]
    <3>1. CASE c = n
      <4>1. x = q
        BY Zenon, <1>6, <1>7, <2>1, <3>1
      <4> QED
        BY ZenonT(30), <1>2, <1>7, <2>1, <3>1, <4>1
    <3> QED
      BY Zenon, <1>7, <3>1
  <2> QED
    BY ZenonT(30), <1>9, <2>1, UsableKept
<1>10. \A i \in Issues : /\ others[i] \subseteq others'[i] /\ version[i] <= version'[i]
                         /\ \A v \in others'[i] : v \in others[i] \/ version[i] < v
  BY SMTT(20) DEF IInv, Typed, TypeOK, Versions
<1> QED
  BY Zenon, <1>8, <1>9, <1>10, StillChained

(* An edit that joins a waiting one is not sent by itself.                 *)
LEMMA MergeChains ==
  ASSUME IInv, IInv', ChainOK, NEW call \in CallType, NEW i \in Issues, NEW F \in SUBSET Fields,
         made + 1 \in Calls, waiting[i] # 0,
         task' = [task EXCEPT ![made + 1] = [call EXCEPT !.pc = "merged", !.into = waiting[i]],
                              ![waiting[i]].body = [f \in Fields |-> IF f \in F THEN made + 1 ELSE @[f]]],
         \A j \in Issues : screen[j] <= screen'[j],
         UNCHANGED <<lineages, conflicts, version, others, known, strayed>>
  PROVE  ChainOK'
<1> DEFINE n == made + 1
           w == waiting[i]
           x == [call EXCEPT !.pc = "merged", !.into = w]
           y == [task[w] EXCEPT !.body = [f \in Fields |-> IF f \in F THEN n ELSE task[w].body[f]]]
<1>1. n \in Calls /\ w \in Calls /\ task[n].pc = "none" /\ task[w].pc = "queued"
  BY SMTT(20), Constants DEF IInv, Typed, TypeOK, TailsOK, WaitingOK, Calls
<1>2. task' = [[task EXCEPT ![n] = x] EXCEPT ![w] = y]
  <2>1. [task EXCEPT ![n] = x][w] = task[w]
    BY Zenon, <1>1 DEF IInv, Typed
  <2> HIDE DEF x, n, w
  <2> QED
    BY Zenon, <2>1 DEF n, w, x
<1>3. x.pc = "merged"
  BY Zenon DEF CallType
<1>4. /\ y.pc = task[w].pc /\ y.ids = task[w].ids /\ y.kind = task[w].kind /\ y.base = task[w].base
      /\ y.sent = task[w].sent
  <2>1. task[w] \in CallType
    BY Zenon, <1>1 DEF IInv, Typed
  <2> HIDE DEF w, n
  <2> QED
    BY Zenon, <2>1 DEF CallType
<1>5. n # w
  BY Zenon, <1>1
<1> HIDE DEF n, w, x, y
<1>6. task'[n] = x /\ task'[w] = y /\ \A c \in Calls : c # n /\ c # w => task'[c] = task[c]
  BY Zenon, <1>1, <1>2, <1>5 DEF IInv, Typed
<1>7. \A c \in Calls : c # n => /\ task'[c].pc = task[c].pc /\ task'[c].ids = task[c].ids /\ task'[c].kind = task[c].kind
                                /\ task'[c].base = task[c].base /\ task'[c].sent = task[c].sent
                                /\ task'[c].pc = "served" => task'[c].at = task[c].at
  BY Zenon, <1>1, <1>4, <1>6
<1>8. ASSUME NEW c \in Calls PROVE CallKept(c)
  <2>1. CASE c = n
    BY Zenon, <1>3, <1>6, <2>1 DEF CallKept, DoneCall
  <2>2. CASE c # n
    BY Zenon, <1>7, <2>2 DEF CallKept, SameCall, InFlight
  <2> QED
    BY Zenon, <2>1, <2>2
<1>9. ASSUME NEW j \in Issues, NEW b \in Versions, Usable(j, b)' PROVE Usable(j, b)
  <2>1. \A c \in Calls : task'[c].pc = "queued" => c # n
    BY Zenon, <1>3, <1>6
  <2> QED
    BY ZenonT(30), <1>7, <1>9, <2>1, UsableKept
<1>10. \A j \in Issues : /\ others[j] \subseteq others'[j] /\ version[j] <= version'[j]
                         /\ \A v \in others'[j] : v \in others[j] \/ version[j] < v
  BY SMTT(20) DEF IInv, Typed, TypeOK, Versions
<1> QED
  BY Zenon, <1>8, <1>9, <1>10, StillChained

LEMMA UpdateChains ==
  ASSUME IInv, IInv', ChainOK, NEW i \in Issues, NEW F \in SUBSET Fields, NEW kind \in {"fields", "document"},
         NEW v \in 0 .. MaxVersion, v <= version[i], v = 0 \/ screen[i] <= v, queueIssueUpdate(i, F, kind, v),
         \A j \in Issues : screen[j] <= screen'[j]
  PROVE  ChainOK'
<1> DEFINE n == made + 1
           call == [NoCall EXCEPT !.ids = {i}, !.kind = kind, !.body = Body(n, F), !.base = v]
<1>1. n \in Calls
  BY Zenon DEF queueIssueUpdate
<1>2. Body(n, F) \in Sets
  BY Zenon, <1>1, BodyTyped
<1>3. call \in CallType /\ call.ids = {i} /\ call.kind = kind /\ call.base = v
  BY Zenon, <1>2, NoCallTyped DEF CallType
<1>4. UNCHANGED <<lineages, conflicts, version, others, known, strayed>>
  BY Zenon DEF queueIssueUpdate, storeVars, heardVars
<1>5. CASE Mergeable(i, call)
  <2>1. /\ waiting[i] # 0
        /\ task' = [task EXCEPT ![made + 1] = [call EXCEPT !.pc = "merged", !.into = waiting[i]],
                                ![waiting[i]].body = [f \in Fields |-> IF f \in F THEN made + 1 ELSE @[f]]]
    BY ZenonT(30), <1>5 DEF queueIssueUpdate, Mergeable
  <2> HIDE DEF call
  <2> QED
    BY Zenon, <1>1, <1>3, <1>4, <2>1, MergeChains
<1>6. CASE ~Mergeable(i, call)
  <2>1. enqueue(n, call)
    BY ZenonT(30), <1>6 DEF queueIssueUpdate
  <2>2. EditFits(call, version)
    BY Zenon, <1>3 DEF EditFits
  <2> HIDE DEF call
  <2>3. \A j \in Issues : call.kind # "write" /\ j \in call.ids => call.base = 0 \/ screen[j] <= call.base
    BY Zenon, <1>3
  <2> QED
    BY Zenon, <1>1, <1>3, <1>4, <2>1, <2>2, <2>3, EnqueueChains
<1> QED
  BY Zenon, <1>5, <1>6

LEMMA WriteChains ==
  ASSUME IInv, IInv', ChainOK, NEW ids \in SUBSET Issues, NEW F \in SUBSET Fields, queueIssuesWrite(ids, F)
  PROVE  ChainOK'
<1> DEFINE n == made + 1
           call == [NoCall EXCEPT !.ids = ids, !.body = Body(n, F)]
<1>1. n \in Calls /\ enqueue(n, call)
  BY Zenon DEF queueIssuesWrite
<1>2. Body(n, F) \in Sets
  BY Zenon, <1>1, BodyTyped
<1>3. NoCall.kind = "write" /\ NoCall.sent = 0
  BY Zenon DEF NoCall
<1>4. call \in CallType /\ call.kind = "write" /\ call.sent = 0
  BY Zenon, <1>2, <1>3, NoCallTyped DEF CallType
<1>5. UNCHANGED <<lineages, conflicts, screen, version, others, known, strayed>>
  BY Zenon DEF queueIssuesWrite, storeVars, heardVars
<1> HIDE DEF call
<1>6. EditFits(call, version)
  BY Zenon, <1>4 DEF EditFits
<1>7. \A i \in Issues : screen[i] <= screen'[i]
  BY SMTT(20), <1>5 DEF IInv, Typed, TypeOK, Versions
<1> QED
  BY Zenon, <1>1, <1>4, <1>5, <1>6, <1>7, EnqueueChains

LEMMA StutterChains ==
  ASSUME IInv, IInv', ChainOK, UNCHANGED vars
  PROVE  ChainOK'
<1>1. UNCHANGED <<task, lineages, conflicts, screen, version, others, known, strayed>>
  BY Zenon DEF vars, queueVars, storeVars, heardVars
<1>2. \A i \in Issues : version[i] <= version'[i]
  BY SMTT(20), <1>1 DEF IInv, Typed, TypeOK, Versions
<1>3. \A c \in Calls : CallKept(c)
  BY Zenon, <1>1 DEF CallKept, SameCall, InFlight
<1>4. \A i \in Issues, b \in Versions : Usable(i, b)' => Usable(i, b)
  BY ZenonT(30), <1>1 DEF Usable
<1> QED
  BY Zenon, <1>1, <1>2, <1>3, <1>4, StillChained

(* An issue of a request that is answered is in no other request.          *)
LEMMA AloneInFlight ==
  ASSUME IInv, NEW t \in Calls, NEW c \in Calls, c # t, InFlight(t), InFlight(c),
         NEW i \in Issues, i \in task[t].ids
  PROVE  i \notin task[c].ids
<1> SUFFICES ASSUME i \in task[c].ids PROVE FALSE
  BY Zenon
<1>1. Own(t, i) /\ Own(c, i) /\ (c < t \/ t < c)
  BY SMTT(20), Constants DEF Own, InFlight
<1> QED
  BY Zenon, <1>1 DEF IInv, OrderOK, InFlight

LEMMA AskChains ==
  ASSUME IInv, IInv', ChainOK, NEW w \in Writes, Ask(w)
  PROVE  ChainOK'
<1>1. w.ids \in SUBSET Issues /\ w.fields \in SUBSET Fields /\ w.kind \in {"fields", "document", "write"}
  BY Zenon, WriteConstants
<1>2. \A i \in Issues : screen[i] \in Nat /\ version[i] \in 0 .. MaxVersion
  BY SMTT(20), Constants DEF IInv, Typed, TypeOK, Versions
<1>3. CASE w.kind = "write" /\ queueIssuesWrite(w.ids, w.fields)
  BY Zenon, <1>1, <1>3, WriteChains
<1>4. ASSUME w.kind # "write", NEW i \in w.ids, NEW v \in screen[i] .. version[i],
             queueIssueUpdate(i, w.fields, w.kind, v), screen' = [screen EXCEPT ![i] = v]
      PROVE  ChainOK'
  <2>1. i \in Issues /\ w.kind \in {"fields", "document"}
    BY Zenon, <1>1, <1>4
  <2>2. v \in 0 .. MaxVersion /\ v <= version[i] /\ screen[i] <= v
    BY SMTT(20), <1>2, <1>4, <2>1, Constants
  <2>3. screen'[i] = v /\ \A j \in Issues : j # i => screen'[j] = screen[j]
    BY Zenon, <1>4, <2>1 DEF IInv, Typed, TypeOK
  <2>4. \A j \in Issues : screen[j] <= screen'[j]
    BY Zenon, <1>2, <2>2, <2>3, Orders
  <2> QED
    BY ZenonT(30), <1>1, <1>4, <2>1, <2>2, <2>4, UpdateChains
<1>5. ASSUME w.kind # "write", NEW i \in w.ids, queueIssueUpdate(i, w.fields, w.kind, 0), UNCHANGED screen
      PROVE  ChainOK'
  <2>1. i \in Issues /\ w.kind \in {"fields", "document"}
    BY Zenon, <1>1, <1>5
  <2>2. 0 \in 0 .. MaxVersion /\ 0 <= version[i]
    BY SMTT(20), <1>2, <2>1, Constants
  <2>3. \A j \in Issues : screen[j] <= screen'[j]
    BY SMTT(20), <1>2, <1>5
  <2> QED
    BY Zenon, <1>1, <1>5, <2>1, <2>2, <2>3, UpdateChains
<1> QED
  BY Zenon, <1>3, <1>4, <1>5 DEF Ask

(* An answer: the calls that go on are those that were on their way.       *)
LEMMA AnsweredChains ==
  ASSUME IInv, IInv', ChainOK, NEW t \in Calls, task'[t].pc = "returned",
         \A c \in Calls : c # t => task'[c] = task[c], UNCHANGED <<version, others>>,
         KnownOK', Chained',
         \A c \in Calls, i \in Issues : c # t /\ InFlight(c) /\ i \in task[c].ids =>
           /\ known'[i] = known[i] /\ Lost(i) \subseteq Lost(i)'
           /\ \A b \in Versions : Usable(i, b)' => Usable(i, b)
  PROVE  ChainOK'
<1>1. \A i \in Issues : version[i] <= version'[i]
  BY Zenon, Orders DEF IInv, Typed, TypeOK
<1>2. EditsOK'
  <2> SUFFICES ASSUME NEW c \in Calls, task'[c].pc \in {"queued", "sent", "served"}
               PROVE  EditFits(task'[c], version')
    BY Zenon DEF EditsOK, EditFits
  <2>1. task'[c] = task[c] /\ version' = version
    BY Zenon
  <2>2. EditFits(task[c], version)
    BY Zenon, <2>1 DEF ChainOK, EditsOK
  <2> QED
    BY Zenon, <2>1, <2>2
<1>3. SentOK'
  <2> SUFFICES ASSUME NEW c \in Calls, NEW i \in Issues, task'[c].pc \in {"sent", "served"}, i \in task'[c].ids,
                      task'[c].sent # 0
               PROVE  /\ task'[c].base # 0 /\ task'[c].base <= task'[c].sent /\ task'[c].sent <= version'[i]
                      /\ \A b, w \in Versions : Run(i, b, w)' =>
                           /\ Usable(i, b)' => task'[c].sent <= b \/ w <= task'[c].sent
                           /\ task'[c].base = b => task'[c].sent = w
    BY ZenonT(30) DEF SentOK, SentFits, InFlight
  <2>1. c # t
    BY Zenon
  <2>2. task'[c] = task[c]
    BY Zenon, <2>1
  <2>3. InFlight(c) /\ SentFits(task[c], i) /\ task[c] \in CallType
    BY Zenon, <2>2 DEF ChainOK, SentOK, InFlight, IInv, Typed
  <2>4. /\ known'[i] = known[i] /\ Lost(i) \subseteq Lost(i)'
        /\ \A b \in Versions : Usable(i, b)' => Usable(i, b)
    BY Zenon, <2>1, <2>2, <2>3
  <2>5. \A b, w \in Versions : Run(i, b, w)' => Run(i, b, w)
    BY Zenon, <1>1, <2>4, RunKept
  <2>6. task'[c].base = task[c].base /\ task'[c].sent = task[c].sent
    BY Zenon, <2>2
  <2> QED
    BY ZenonT(40), <1>1, <2>3, <2>4, <2>5, <2>6, SentKept
<1>4. ServedOK'
  BY Zenon DEF ChainOK, ServedOK, InFlight
<1> QED
  BY ZenonT(30), <1>2, <1>3, <1>4 DEF ChainOK

(* A conflict drops the run and shows the stored issue.                    *)
LEMMA ReturnConflictChains ==
  ASSUME IInv, IInv', ChainOK, NEW t \in Calls, ReturnConflict(t)
  PROVE  ChainOK'
<1> DEFINE x == [task[t] EXCEPT !.pc = "returned", !.sent = 0, !.base = 0, !.at = NoVersions]
<1>1. PICK k : k = Issue(t)
  BY Zenon
<1>2. PICK a : a = task[t].at[k]
  BY Zenon
<1>3. /\ task[t].pc = "served" /\ task' = [task EXCEPT ![t] = x]
      /\ lineages' = [lineages EXCEPT ![k] = NoLineage] /\ conflicts' = [conflicts EXCEPT ![k] = a]
      /\ screen' = [screen EXCEPT ![k] = a] /\ UNCHANGED <<version, others, known, strayed>>
  BY ZenonT(30), <1>1, <1>2 DEF ReturnConflict, storeVars, heardVars
<1>4. task[t] \in CallType /\ task[t].ids # {}
  BY Zenon, <1>3 DEF IInv, Typed, PlacesOK
<1>5. k \in task[t].ids /\ k \in Issues
  BY Zenon, <1>1, <1>4 DEF Issue, CallType
<1>6. x.pc = "returned"
  BY Zenon, <1>4 DEF CallType
<1> HIDE DEF x
<1>7. task'[t] = x /\ \A c \in Calls : c # t => task'[c] = task[c]
  BY Zenon, <1>3 DEF IInv, Typed
<1>8. /\ lineages'[k] = NoLineage /\ conflicts'[k] = a /\ screen'[k] = a
      /\ \A i \in Issues : i # k => lineages'[i] = lineages[i] /\ conflicts'[i] = conflicts[i] /\ screen'[i] = screen[i]
  BY Zenon, <1>3, <1>5 DEF IInv, Typed, TypeOK
<1>9. \A i \in Issues, b \in Versions : i # k /\ Usable(i, b)' => Usable(i, b)
  BY ZenonT(30), <1>6, <1>7, <1>8 DEF Usable
<1>10. \A i \in Issues, b, w \in Versions : Run(i, b, w)' => Run(i, b, w)
  BY Zenon, <1>3 DEF Run, Lost
<1>11. a \in Nat /\ \A v \in known[k] : v <= a
  BY Zenon, <1>2, <1>3, <1>4, <1>5, Orders DEF ChainOK, ServedOK, CallType
<1>12. KnownOK'
  BY Zenon, <1>3, <1>8 DEF ChainOK, KnownOK, Lost
<1>13. Chained'
  <2> SUFFICES ASSUME NEW i \in Issues, NEW b \in Versions, NEW w \in Versions, Usable(i, b)', Run(i, b, w)'
               PROVE  lineages'[i].from <= b /\ lineages'[i].to = w
    BY Zenon DEF Chained
  <2>1. Run(i, b, w)
    BY Zenon, <1>10
  <2>2. CASE i = k
    <3>1. b < w /\ w <= a /\ b \in Nat /\ w \in Nat
      BY SMTT(20), <1>11, <2>1, <2>2 DEF Run, RunOf, Versions
    <3>2. a <= b
      BY Zenon, <1>8, <2>2 DEF Usable
    <3> QED
      BY SMTT(20), <1>11, <3>1, <3>2
  <2>3. CASE i # k
    <3>1. Usable(i, b) /\ lineages'[i] = lineages[i]
      BY Zenon, <1>8, <1>9, <2>3
    <3>2. lineages[i].from <= b /\ lineages[i].to = w
      BY Zenon, <2>1, <3>1 DEF ChainOK, Chained
    <3> QED
      BY Zenon, <3>1, <3>2
  <2> QED
    BY Zenon, <2>2, <2>3
<1>14. \A c \in Calls, i \in Issues : c # t /\ InFlight(c) /\ i \in task[c].ids => i # k
  BY Zenon, <1>3, <1>5, AloneInFlight DEF InFlight
<1>15. task'[t].pc = "returned" /\ UNCHANGED <<version, others>>
  BY Zenon, <1>3, <1>6, <1>7
<1>16. \A c \in Calls, i \in Issues : c # t /\ InFlight(c) /\ i \in task[c].ids =>
           /\ known'[i] = known[i] /\ Lost(i) \subseteq Lost(i)'
           /\ \A b \in Versions : Usable(i, b)' => Usable(i, b)
  BY Zenon, <1>3, <1>9, <1>14 DEF Lost
<1> QED
  BY Zenon, <1>7, <1>12, <1>13, <1>15, <1>16, AnsweredChains

(* What the answer to a write tells of one issue.                          *)
Answered(t, i) ==
  LET a == task[t].at[i]
      s == IF i \in task[t].ids THEN task[t].sent ELSE 0
  IN /\ lineages'[i] = IF a = 0 THEN lineages[i] ELSE Record(lineages[i], s, a)
     /\ known'[i] = IF Heard(t, i) THEN known[i] \cup {a} ELSE known[i]
     /\ strayed'[i] = IF Strays(t, i) THEN strayed[i] \cup {a} ELSE strayed[i]
     /\ version'[i] = version[i] /\ others'[i] = others[i]
     /\ \A b \in Versions : Usable(i, b)' => Usable(i, b) \/ (i \in task[t].ids /\ a <= b)

LEMMA ReturnOkFacts ==
  ASSUME IInv, IInv', NEW t \in Calls, ReturnOk(t), NEW i \in Issues
  PROVE  Answered(t, i)
<1> DEFINE x == [task[t] EXCEPT !.pc = "returned", !.sent = 0, !.base = 0, !.at = NoVersions]
<1>1. /\ lineages' = [j \in Issues |-> IF task[t].at[j] = 0 THEN lineages[j]
                                   ELSE recordWrite(j, IF j \in task[t].ids THEN task[t].sent ELSE 0, task[t].at[j])]
      /\ known' = [j \in Issues |-> IF Heard(t, j) THEN known[j] \cup {task[t].at[j]} ELSE known[j]]
      /\ strayed' = [j \in Issues |-> IF Strays(t, j) THEN strayed[j] \cup {task[t].at[j]} ELSE strayed[j]]
      /\ screen' \in {screen, [j \in Issues |-> IF j \in task[t].ids THEN task[t].at[j] ELSE screen[j]]}
  BY Zenon DEF ReturnOk
<1>2. task' = [task EXCEPT ![t] = x] /\ UNCHANGED <<conflicts, version, others>>
  BY Zenon DEF ReturnOk, storeVars
<1>3. x.pc = "returned"
  <2>1. task[t] \in CallType
    BY Zenon DEF IInv, Typed
  <2> QED
    BY Zenon, <2>1 DEF CallType
<1> HIDE DEF x
<1>4. lineages'[i] = IF task[t].at[i] = 0 THEN lineages[i]
                     ELSE Record(lineages[i], IF i \in task[t].ids THEN task[t].sent ELSE 0, task[t].at[i])
  BY Zenon, <1>1, RecordIs
<1>5. /\ known'[i] = IF Heard(t, i) THEN known[i] \cup {task[t].at[i]} ELSE known[i]
      /\ strayed'[i] = IF Strays(t, i) THEN strayed[i] \cup {task[t].at[i]} ELSE strayed[i]
  BY Zenon, <1>1
<1>6. screen'[i] = screen[i] \/ (i \in task[t].ids /\ screen'[i] = task[t].at[i])
  BY Zenon, <1>1
<1>7. \A c \in Calls : task'[c].pc = "queued" => task'[c] = task[c]
  <2>1. task'[t] = x /\ \A c \in Calls : c # t => task'[c] = task[c]
    BY Zenon, <1>2 DEF IInv, Typed
  <2> QED
    BY Zenon, <1>3, <2>1
<1>8. ASSUME NEW b \in Versions, Usable(i, b)' PROVE Usable(i, b) \/ (i \in task[t].ids /\ task[t].at[i] <= b)
  BY Zenon, <1>2, <1>6, <1>7, <1>8 DEF Usable
<1> QED
  BY Zenon, <1>2, <1>4, <1>5, <1>8 DEF Answered

(* The issue and its run before the answer.                                *)
LEMMA BeforeAnswer ==
  ASSUME IInv, ChainOK, NEW t \in Calls, task[t].pc = "served", NEW i \in Issues
  PROVE  /\ known[i] \in SUBSET Versions /\ Lost(i) \in SUBSET Versions /\ version[i] \in Versions
         /\ lineages[i] \in Lineage /\ task[t].sent \in Nat /\ task[t].at[i] \in Nat
         /\ task[t].at[i] # 0 => task[t].at[i] \in Versions
         /\ task[t].at[i] <= version[i] /\ (i \in task[t].ids => task[t].at[i] # 0)
         /\ \A v \in known[i] : v <= version[i] /\ v \notin Lost(i)
         /\ i \in task[t].ids => \A v \in known[i] : v <= task[t].at[i]
         /\ lineages[i] # NoLineage => /\ lineages[i].from < lineages[i].to /\ lineages[i].to <= version[i]
                                       /\ lineages[i].to \in known[i] \cup Lost(i)
<1>1. /\ known[i] \in SUBSET Versions /\ Lost(i) \in SUBSET Versions /\ version[i] \in Versions
      /\ lineages[i] \in Lineage
      /\ lineages[i] # NoLineage => lineages[i].from < lineages[i].to /\ lineages[i].to <= version[i]
  BY Zenon DEF IInv, Typed, TypeOK, Lost
<1>2. task[t] \in CallType
  BY Zenon DEF IInv, Typed
<1>3. task[t].sent \in Nat /\ task[t].at[i] \in 0 .. MaxVersion
  BY SMTT(20), <1>2, Constants DEF CallType
<1>4. task[t].at[i] \in Nat /\ (task[t].at[i] # 0 => task[t].at[i] \in Versions)
  BY SMTT(20), <1>3, Constants DEF Versions
<1>5. task[t].at[i] <= version[i] /\ (i \in task[t].ids => task[t].at[i] # 0)
  BY Zenon DEF IInv, AnswerOK
<1>6. /\ \A v \in known[i] : v <= version[i] /\ v \notin Lost(i)
      /\ i \in task[t].ids => \A v \in known[i] : v <= task[t].at[i]
      /\ lineages[i] # NoLineage => lineages[i].to \in known[i] \cup Lost(i)
  BY Zenon DEF ChainOK, KnownOK, ServedOK
<1> QED
  BY Zenon, <1>1, <1>3, <1>4, <1>5, <1>6

(* The answer tells a version that is then known or lost, unless the write *)
(* raised nothing.                                                         *)
LEMMA AnswerKnown ==
  ASSUME IInv, IInv', ChainOK, NEW t \in Calls, ReturnOk(t), NEW i \in Issues, task[t].at[i] # 0,
         i \in task[t].ids => task[t].sent < task[t].at[i]
  PROVE  task[t].at[i] \in known'[i] \cup Lost(i)'
<1>1. Answered(t, i)
  BY Zenon, ReturnOkFacts
<1>2. CASE Heard(t, i)
  BY Zenon, <1>1, <1>2 DEF Answered
<1>3. CASE ~Heard(t, i) /\ i \in task[t].ids
  <2>1. task[t].at[i] \in Nat /\ task[t].sent \in Nat
    BY Zenon, BeforeAnswer DEF ReturnOk
  <2>2. task[t].at[i] > task[t].sent
    BY Zenon, <1>3, <2>1
  <2>3. task[t].at[i] \in Lost(i)
    BY Zenon, <1>3, <2>2 DEF Heard, Lost
  <2> QED
    BY Zenon, <1>1, <2>3 DEF Answered, Lost
<1>4. CASE ~Heard(t, i) /\ i \notin task[t].ids
  BY Zenon, <1>1, <1>4 DEF Answered, Strays, Lost
<1> QED
  BY Zenon, <1>2, <1>3, <1>4

LEMMA LostGrows ==
  ASSUME NEW t, NEW i, Answered(t, i)
  PROVE  /\ Lost(i) \subseteq Lost(i)' /\ known[i] \subseteq known'[i]
         /\ ~Strays(t, i) => Lost(i)' = Lost(i)
         /\ Strays(t, i) => Lost(i)' = Lost(i) \cup {task[t].at[i]} /\ known'[i] = known[i] /\ task[t].at[i] \notin known[i]
BY Zenon DEF Answered, Lost, Strays

LEMMA ReturnOkKnown ==
  ASSUME IInv, IInv', ChainOK, NEW t \in Calls, ReturnOk(t)
  PROVE  KnownOK'
<1> SUFFICES ASSUME NEW i \in Issues
             PROVE  /\ \A v \in known'[i] : v <= version'[i] /\ v \notin Lost(i)'
                    /\ lineages'[i] # NoLineage => lineages'[i].to \in known'[i] \cup Lost(i)'
  BY Zenon DEF KnownOK
<1>1. Answered(t, i) /\ task[t].pc = "served"
  BY Zenon, ReturnOkFacts DEF ReturnOk
<1>2. /\ known[i] \subseteq known'[i] /\ Lost(i) \subseteq Lost(i)'
      /\ ~Strays(t, i) => Lost(i)' = Lost(i)
      /\ Strays(t, i) => Lost(i)' = Lost(i) \cup {task[t].at[i]} /\ known'[i] = known[i] /\ task[t].at[i] \notin known[i]
  BY Zenon, <1>1, LostGrows
<1>3. /\ task[t].at[i] <= version[i] /\ \A v \in known[i] : v <= version[i] /\ v \notin Lost(i)
      /\ lineages[i] # NoLineage => lineages[i].from < lineages[i].to /\ lineages[i].to \in known[i] \cup Lost(i)
      /\ lineages[i] \in Lineage /\ task[t].sent \in Nat /\ task[t].at[i] \in Nat
  BY ZenonT(30), <1>1, BeforeAnswer
<1>4. ASSUME NEW v \in known'[i] PROVE v <= version'[i] /\ v \notin Lost(i)'
  <2>1. version'[i] = version[i] /\ (v \in known[i] \/ (Heard(t, i) /\ v = task[t].at[i]))
    BY Zenon, <1>1 DEF Answered
  <2>2. CASE Heard(t, i) /\ v = task[t].at[i]
    <3>1. ~Strays(t, i) /\ v \notin Lost(i)
      BY Zenon, <2>2 DEF Heard, Strays, Lost
    <3> QED
      BY Zenon, <1>2, <1>3, <2>1, <2>2, <3>1
  <2>3. CASE v \in known[i]
    BY Zenon, <1>2, <1>3, <2>1, <2>3
  <2> QED
    BY Zenon, <2>1, <2>2, <2>3
<1>5. ASSUME lineages'[i] # NoLineage PROVE lineages'[i].to \in known'[i] \cup Lost(i)'
  <2> DEFINE a == task[t].at[i]
             s == IF i \in task[t].ids THEN task[t].sent ELSE 0
  <2>1. lineages'[i] = IF a = 0 THEN lineages[i] ELSE Record(lineages[i], s, a)
    BY Zenon, <1>1 DEF Answered
  <2>2. CASE lineages'[i] = lineages[i]
    BY Zenon, <1>2, <1>3, <1>5, <2>2
  <2>3. CASE lineages'[i] # lineages[i]
    <3>1. s \in Nat /\ a \in Nat \ {0}
      BY Zenon, <1>3, <2>1, <2>3
    <3>2. lineages'[i].to = a /\ (s # 0 => s < a)
      <4> HIDE DEF a, s
      <4> QED
        BY SMTT(20), <1>3, <2>1, <2>3, <3>1, RecordCases
    <3>3. i \in task[t].ids => task[t].sent < task[t].at[i]
      BY SMTT(20), <3>1, <3>2
    <3>4. a \in known'[i] \cup Lost(i)'
      BY Zenon, <3>1, <3>3, AnswerKnown
    <3> QED
      BY ZenonT(30), <3>2, <3>4
  <2> QED
    BY Zenon, <2>2, <2>3
<1> QED
  BY Zenon, <1>4, <1>5

LEMMA ReturnOkChained ==
  ASSUME IInv, IInv', ChainOK, NEW t \in Calls, ReturnOk(t)
  PROVE  Chained'
<1> SUFFICES ASSUME NEW i \in Issues, NEW b \in Versions, NEW w \in Versions, Usable(i, b)', Run(i, b, w)'
             PROVE  lineages'[i].from <= b /\ lineages'[i].to = w
  BY Zenon DEF Chained
<1>1. Answered(t, i) /\ task[t].pc = "served"
  BY Zenon, ReturnOkFacts DEF ReturnOk
<1>2. /\ known[i] \subseteq known'[i] /\ Lost(i) \subseteq Lost(i)'
      /\ ~Strays(t, i) => Lost(i)' = Lost(i)
      /\ Strays(t, i) => Lost(i)' = Lost(i) \cup {task[t].at[i]} /\ known'[i] = known[i] /\ task[t].at[i] \notin known[i]
  BY Zenon, <1>1, LostGrows
<1>3. PICK K, L, M, N, V, l, a, s :
        /\ K = known[i] /\ L = Lost(i) /\ M = known'[i] /\ N = Lost(i)' /\ V = version[i] /\ l = lineages[i]
        /\ a = task[t].at[i] /\ s = IF i \in task[t].ids THEN task[t].sent ELSE 0
  BY Zenon
<1>4. /\ K \in SUBSET Versions /\ L \in SUBSET Versions /\ V \in Versions
      /\ l \in Lineage /\ s \in Nat /\ a \in Nat /\ (a # 0 => a \in Versions)
      /\ a <= V /\ (i \in task[t].ids => a # 0)
      /\ \A v \in K : v <= V /\ v \notin L
      /\ i \in task[t].ids => \A v \in K : v <= a
      /\ l # NoLineage => l.from < l.to /\ l.to <= V /\ l.to \in K \cup L
  <2>1. task[t].sent \in Nat /\ 0 \in Nat
    BY Zenon, <1>1, BeforeAnswer
  <2>2. s \in Nat
    BY Zenon, <1>3, <2>1
  <2> QED
    BY ZenonT(30), <1>1, <1>3, <2>2, BeforeAnswer
<1>5. /\ version'[i] = V /\ lineages'[i] = IF a = 0 THEN l ELSE Record(l, s, a)
      /\ M = IF Heard(t, i) THEN K \cup {a} ELSE K
      /\ Usable(i, b) \/ (i \in task[t].ids /\ a <= b)
  BY Zenon, <1>1, <1>3 DEF Answered
<1>6. RunOf(M, N, V, b, w)
  BY ZenonT(30), <1>3, <1>5 DEF Run
<1>7. N \in SUBSET Versions
  BY ZenonT(30), <1>3 DEF IInv, Typed, TypeOK, Lost
<1>8. Usable(i, b)
  <2> SUFFICES ASSUME i \in task[t].ids, a <= b PROVE FALSE
    BY Zenon, <1>5
  <2>1. w \in M /\ b < w /\ w \in Nat /\ b \in Nat
    BY Zenon, <1>6, Orders DEF RunOf
  <2>2. w <= a
    BY Zenon, <1>4, <1>5, <2>1, Orders
  <2>3. w <= b
    BY Zenon, <1>4, <2>1, <2>2, OrderFacts
  <2> QED
    BY Zenon, <2>1, <2>3, OrderFacts
<1>9. \A u \in Versions : RunOf(K, L, V, b, u) => l.from <= b /\ l.to = u
  BY Zenon, <1>3, <1>8 DEF ChainOK, Chained, Run
<1>10. CASE a = 0
  <2>1. ~Heard(t, i) /\ ~Strays(t, i)
    BY Zenon, <1>3, <1>10 DEF Heard, Strays
  <2>2. M = K /\ N = L
    BY Zenon, <1>2, <1>3, <1>5, <2>1
  <2> QED
    BY Zenon, <1>5, <1>6, <1>9, <1>10, <2>2
<1>11. CASE a # 0 /\ (i \in task[t].ids \/ Heard(t, i))
  <2>1. ~Strays(t, i) /\ N = L
    BY ZenonT(30), <1>2, <1>3, <1>11 DEF Strays
  <2>2. \A v \in K : v <= a /\ v \notin L
    <3>1. CASE i \in task[t].ids
      BY ZenonT(30), <1>4, <3>1
    <3>2. CASE i \notin task[t].ids
      <4>1. \A v \in K : v < a /\ v \in Nat
        BY Zenon, <1>3, <1>4, <1>11, <3>2, Orders DEF Heard
      <4> QED
        BY Zenon, <1>4, <4>1, OrderFacts
    <3> QED
      BY Zenon, <3>1, <3>2
  <2>3. M = IF a \notin L /\ s < a THEN K \cup {a} ELSE K
    <3>1. CASE i \in task[t].ids
      <4>1. s = task[t].sent /\ (a > s <=> s < a)
        BY Zenon, <1>3, <1>4, <3>1
      <4>2. Heard(t, i) <=> a \notin L /\ s < a
        BY Zenon, <1>3, <1>11, <3>1, <4>1 DEF Heard, Lost
      <4> QED
        BY Zenon, <1>5, <4>2
    <3>2. CASE i \notin task[t].ids
      <4>1. Heard(t, i) /\ a \notin L
        BY ZenonT(30), <1>3, <1>11, <3>2 DEF Heard, Lost
      <4>2. s < a
        BY SMTT(20), <1>3, <1>4, <1>11, <3>2
      <4> QED
        BY Zenon, <1>5, <4>1, <4>2
    <3> QED
      BY Zenon, <3>1, <3>2
  <2>4. s # 0 => \A u \in Versions : RunOf(K, L, V, b, u) => s <= b \/ u <= s
    <3> SUFFICES ASSUME s # 0, NEW u \in Versions, RunOf(K, L, V, b, u) PROVE s <= b \/ u <= s
      BY Zenon
    <3>1. i \in task[t].ids /\ s = task[t].sent /\ InFlight(t)
      BY Zenon, <1>1, <1>3 DEF InFlight
    <3>2. SentFits(task[t], i)
      BY Zenon, <3>1 DEF ChainOK, SentOK
    <3>3. Run(i, b, u)
      BY Zenon, <1>3 DEF Run
    <3> QED
      BY Zenon, <1>8, <3>1, <3>2, <3>3 DEF SentFits
  <2>5. Record(l, s, a).from <= b /\ Record(l, s, a).to = w
    <3>1. a \in Versions /\ RunOf(M, L, V, b, w)
      BY Zenon, <1>4, <1>6, <1>11, <2>1
    <3>2. AnswerFits(K, L, V, l, s, a, b, w, M)
      BY Zenon, <1>4, <1>9, <2>2, <2>3, <2>4, <3>1 DEF AnswerFits
    <3> QED
      BY Zenon, <3>2, AnswerChains
  <2> QED
    BY Zenon, <1>5, <1>11, <2>5
<1>12. CASE a # 0 /\ i \notin task[t].ids /\ ~Heard(t, i)
  <2>1. M = K /\ s = 0 /\ a \in N \cup K /\ L \subseteq N
    BY Zenon, <1>2, <1>3, <1>5, <1>12 DEF Strays
  <2>2. Record(l, 0, a).from <= b /\ Record(l, 0, a).to = w
    <3>1. a \in Versions /\ RunOf(K, N, V, b, w)
      BY Zenon, <1>4, <1>6, <1>12, <2>1
    <3>2. StrayFits(K, L, V, l, a, b, w, N)
      BY Zenon, <1>4, <1>7, <1>9, <2>1, <3>1 DEF StrayFits
    <3> QED
      BY Zenon, <3>2, StrayChains
  <2> QED
    BY Zenon, <1>5, <1>12, <2>1, <2>2
<1> QED
  BY Zenon, <1>10, <1>11, <1>12

LEMMA ReturnOkChains ==
  ASSUME IInv, IInv', ChainOK, NEW t \in Calls, ReturnOk(t)
  PROVE  ChainOK'
<1> DEFINE x == [task[t] EXCEPT !.pc = "returned", !.sent = 0, !.base = 0, !.at = NoVersions]
<1>1. task[t].pc = "served" /\ task' = [task EXCEPT ![t] = x] /\ UNCHANGED <<version, others>>
  BY Zenon DEF ReturnOk, storeVars
<1>2. x.pc = "returned"
  <2>1. task[t] \in CallType
    BY Zenon DEF IInv, Typed
  <2> QED
    BY Zenon, <2>1 DEF CallType
<1> HIDE DEF x
<1>3. task'[t].pc = "returned" /\ \A c \in Calls : c # t => task'[c] = task[c]
  BY Zenon, <1>1, <1>2 DEF IInv, Typed
<1>4. ASSUME NEW c \in Calls, NEW i \in Issues, c # t, InFlight(c), i \in task[c].ids
      PROVE  /\ known'[i] = known[i] /\ Lost(i) \subseteq Lost(i)'
             /\ \A b \in Versions : Usable(i, b)' => Usable(i, b)
  <2>1. Answered(t, i)
    BY Zenon, ReturnOkFacts
  <2>2. InFlight(t)
    BY Zenon, <1>1 DEF InFlight
  <2>3. i \notin task[t].ids
    BY Zenon, <1>4, <2>2, AloneInFlight
  <2>4. ~Heard(t, i)
    BY Zenon, <1>4, <2>3 DEF Heard, InFlight
  <2>5. Lost(i) \subseteq Lost(i)'
    BY Zenon, <2>1, LostGrows
  <2> QED
    BY Zenon, <2>1, <2>3, <2>4, <2>5 DEF Answered
<1>5. KnownOK' /\ Chained'
  BY Zenon, ReturnOkKnown, ReturnOkChained
<1> QED
  BY Zenon, <1>1, <1>3, <1>4, <1>5, AnsweredChains

LEMMA InitChains == Init => ChainOK
<1> SUFFICES ASSUME Init PROVE ChainOK
  BY Zenon
<1>1. \A i \in Issues : known[i] = {} /\ lineages[i] = NoLineage
  BY Zenon DEF Init
<1>2. \A c \in Calls : task[c].pc = "none"
  BY Zenon, NoCallTyped DEF Init
<1>3. \A i \in Issues, b, w \in Versions : ~Run(i, b, w)
  BY Zenon, <1>1 DEF Run, RunOf
<1>4. KnownOK /\ Chained
  BY ZenonT(30), <1>1, <1>3 DEF KnownOK, Chained
<1>5. EditsOK /\ SentOK /\ ServedOK
  BY Zenon, <1>2 DEF EditsOK, SentOK, ServedOK, InFlight
<1> QED
  BY Zenon, <1>4, <1>5 DEF ChainOK

LEMMA NextChains == IInv /\ IInv' /\ ChainOK /\ [Next]_vars => ChainOK'
<1> SUFFICES ASSUME IInv, IInv', ChainOK, Next PROVE ChainOK'
  BY Zenon, StutterChains
<1>1. ASSUME NEW w \in Writes, Ask(w) PROVE ChainOK'
  BY Zenon, <1>1, AskChains
<1>2. ASSUME NEW i \in Issues, NEW f \in Fields, OtherWrite(i, {f}) PROVE ChainOK'
  <2>1. {f} \in SUBSET Fields
    BY Zenon
  <2> QED
    BY Zenon, <1>2, <2>1, OtherWriteChains
<1>3. ASSUME NEW t \in Calls, Queue(t) PROVE ChainOK'
  BY Zenon, <1>3, StartChains, SettleChains, ReturnOkChains, ReturnConflictChains DEF Queue
<1>4. ASSUME NEW t \in Calls, Refuse(t) \/ ReturnError(t) PROVE ChainOK'
  BY Zenon, <1>4, RefuseChains, ReturnErrorChains
<1>5. ASSUME NEW t \in Calls, NEW C \in SUBSET Issues, Serve(t, C) PROVE ChainOK'
  BY Zenon, <1>5, ServeChains
<1> QED
  BY Zenon, <1>1, <1>2, <1>3, <1>4, <1>5 DEF Next

LEMMA ChainInvariant == Spec => []ChainOK
<1> QED
  BY InitChains, NextChains, InvariantHolds, PTL DEF Spec

(* A refused edit was sent with the end of a run that is not the stored    *)
(* version.                                                                *)
LEMMA RefusedByOthers ==
  ASSUME IInv, ChainOK, NEW t \in Calls, Refuse(t)
  PROVE  \E v \in task[t].base + 1 .. version[Issue(t)] : v \notin known[Issue(t)]
<1>1. PICK i \in task[t].ids : ~FieldsUnchanged(i, t)
  BY Zenon DEF Refuse
<1>2. task[t].sent # 0 /\ task[t].sent # version[i]
  BY Zenon, <1>1 DEF FieldsUnchanged
<1>3. EditFits(task[t], version) /\ InFlight(t)
  BY Zenon DEF Refuse, ChainOK, EditsOK, InFlight
<1>4. i \in Issues /\ task[t].ids = {i}
  BY Zenon, <1>2, <1>3 DEF EditFits
<1>5. Issue(t) = i
  BY Zenon, <1>4 DEF Issue
<1>6. SentFits(task[t], i)
  BY Zenon, <1>2, <1>3, <1>4 DEF ChainOK, SentOK
<1>7. /\ task[t].base \in 0 .. MaxVersion /\ task[t].sent \in Nat /\ version[i] \in Versions
      /\ known[i] \subseteq Versions
  BY ZenonT(30), <1>4, Orders DEF IInv, Typed, TypeOK, CallType
<1>8. task[t].base \in Versions /\ task[t].base < version[i]
  BY SMTT(20), <1>2, <1>6, <1>7, Constants DEF SentFits, Versions
<1> SUFFICES ASSUME \A v \in task[t].base + 1 .. version[i] : v \in known[i] PROVE FALSE
  BY Zenon, <1>5
<1>9. \A v \in known[i] : v <= version[i]
  BY ZenonT(30), <1>4 DEF ChainOK, KnownOK
<1>10. \A v \in Versions : task[t].base < v /\ v <= version[i] => v \in known[i]
  BY SMTT(20), <1>7, <1>8 DEF Versions
<1>11. \A v \in Versions : ~(version[i] < v /\ v <= version[i])
  BY SMTT(20), <1>7 DEF Versions
<1>12. version[i] \in known[i]
  <2>1. version[i] <= version[i]
    BY SMTT(20), <1>7 DEF Versions
  <2> QED
    BY Zenon, <1>7, <1>8, <1>10, <2>1
<1>13. Run(i, task[t].base, version[i])
  BY Zenon, <1>8, <1>9, <1>10, <1>11, <1>12 DEF Run, RunOf
<1>14. task[t].sent = version[i]
  BY Zenon, <1>6, <1>7, <1>8, <1>13 DEF SentFits
<1> QED
  BY Zenon, <1>2, <1>14

(* The tab's own writes do not conflict with each other: an edit is sent   *)
(* with the end of the run of the tab's versions that starts at its base.  *)
THEOREM OwnWritesNeverConflict == Spec => OwnWritesChain
<1>1. ASSUME IInv, ChainOK
      PROVE  [\A t \in Calls : Refuse(t) =>
                \E v \in task[t].base + 1 .. version[Issue(t)] : v \notin known[Issue(t)]]_vars
  BY Zenon, <1>1, RefusedByOthers
<1> QED
  BY <1>1, InvariantHolds, ChainInvariant, PTL DEF OwnWritesChain
=============================================================================
