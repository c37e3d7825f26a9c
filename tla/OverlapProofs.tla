---------------------------- MODULE OverlapProofs ----------------------------
(***************************************************************************)
(* Theorems about calls that overlap.  A step of CodingSessions has the    *)
(* form that SessionInvariant describes, and DocumentProofs and            *)
(* SandboxProofs show what a step of that form keeps.                      *)
(*                                                                         *)
(* Some hold for every set Ops of calls and faults; the others say with    *)
(* OneRequest, OneLoop, EndsByPass or OneRequest which calls may overlap.    *)
(***************************************************************************)
EXTENDS CodingSessionsProofs, DocumentProofs, SandboxProofs

-----------------------------------------------------------------------------
(* The order of delivery. *)

LEMMA NextOrder == IInv /\ FreshTracks /\ InOrder /\ [Next]_vars => InOrder'
<1> SUFFICES ASSUME IInv, FreshTracks, InOrder, [Next]_vars PROVE InOrder'
  BY ZenonT(30)
<1>1. IInv'
  BY ZenonT(30), NextIInv
<1>2. InboxOK'
  BY ZenonT(30), <1>1 DEF IInv
<1>3. Form /\ InboxStep
  BY ZenonT(30), NextForm, NextInbox
<1>4. CursorsKept \/ \E h \in Handlers : CursorMoved(h)
  BY ZenonT(30), NextCursor
<1> QED
  BY ZenonT(30), <1>2, <1>3, <1>4, OrderStep

(* The turn a call has picked, those an inbox call hands over and those up *)
(* to a runner's cursor come before every turn that is not delivered.      *)
THEOREM OrderInvariant == Spec => []InOrder
<1> QED
  BY InitOrder, NextOrder, Invariant, FreshCopiesTrack, PTL DEF Spec

(* Turns are delivered in the order in which they were enqueued, by any    *)
(* number of bootstraps and inbox calls that pick, crash and repeat.       *)
THEOREM AlwaysDeliveredInOrder == Spec => DeliveredInOrder
<1>1. IInv /\ InOrder /\ [Next]_vars =>
        [\A i \in DOMAIN inbox :
           undelivered(i) /\ inbox'[i].delivered =>
             \A j \in 1 .. (i - 1) : ~undelivered(j)]_inbox
  BY ZenonT(30), StampOrder, NextInbox
<1> QED
  BY <1>1, OrderInvariant, Invariant, PTL DEF Spec, DeliveredInOrder

-----------------------------------------------------------------------------
(* The documents, when requests come one at a time. *)

LEMMA NextDocs ==
  OneRequest /\ IInv /\ FreshTracks /\ InOrder /\ DocsOK /\ [Next]_vars => DocsOK'
<1> SUFFICES ASSUME OneRequest, IInv, FreshTracks, InOrder, DocsOK, [Next]_vars PROVE DocsOK'
  BY ZenonT(30)
<1>1. Form /\ InboxStep /\ UniqueTurns
  BY ZenonT(30), NextForm, NextInbox DEF InOrder
<1>2. Keeps(session, session')
  BY ZenonT(30), NextKept DEF StepKeeps
<1>3. Delivered \subseteq Delivered'
  BY ZenonT(30), <1>1, InboxContinues, DeliveredContinues
<1> QED
  BY ZenonT(30), <1>1, <1>2, <1>3, DocsStep

(* The stored document and every copy in flight is one the control plane   *)
(* may show, and what a copy lacks of the document is known.               *)
THEOREM DocsInvariant ==
  ASSUME OneRequest
  PROVE  Spec => []DocsOK
<1>1. IInv /\ FreshTracks /\ InOrder /\ DocsOK /\ [Next]_vars => DocsOK'
  BY ZenonT(30), NextDocs
<1> QED
  BY <1>1, InitDocs, OrderInvariant, Invariant, FreshCopiesTrack, PTL DEF Spec

(* With any number of passes that overlap, and requests one at a time, a   *)
(* document is never shown in a state that is not the one of its phase,    *)
(* without its end, or with an error that it has not ended with.           *)
THEOREM AlwaysCoherent ==
  ASSUME OneRequest
  PROVE  Spec => []Coherent
<1>1. DocsOK => Coherent
  BY ZenonT(30) DEF DocsOK, Doc, Coherent
<1> QED
  BY <1>1, DocsInvariant, PTL

(* No late or repeated call makes the completed turn current again.        *)
THEOREM NeverTurnReopened ==
  ASSUME OneRequest
  PROVE  Spec => []NoTurnReopened
<1>1. DocsOK => NoTurnReopened
  BY ZenonT(30) DEF DocsOK, Doc, NoTurnReopened
<1> QED
  BY <1>1, DocsInvariant, PTL

(* An ended session is left for the queue only, with its error, its stop   *)
(* request and its sandbox cleared.                                        *)
THEOREM EndsForGood ==
  ASSUME OneRequest
  PROVE  Spec => EndedForGood
<1>1. IInv /\ FreshTracks /\ DocsOK /\ [Next]_vars =>
        [session.phase = "done" /\ session'.phase # "done" =>
           /\ session'.phase = "queued" /\ session'.sandbox = None
           /\ session'.error = "" /\ ~session'.stop]_session
  BY ZenonT(30), NextForm, EndedStep
<1> QED
  BY <1>1, DocsInvariant, Invariant, FreshCopiesTrack, PTL DEF Spec, EndedForGood

-----------------------------------------------------------------------------
(* The sandboxes, when no pass outlives its lease. *)

LEMMA NextSandbox ==
  OneLoop /\ IInv /\ FreshTracks /\ SandboxesSeen /\ OneSandbox /\ [Next]_vars =>
    SandboxesSeen' /\ OneSandbox'
<1> SUFFICES ASSUME OneLoop, IInv, FreshTracks, SandboxesSeen, OneSandbox, [Next]_vars
             PROVE  SandboxesSeen' /\ OneSandbox'
  BY ZenonT(30)
<1>1. Form
  BY ZenonT(30), NextForm
<1>2. RowsCool \/ \E r \in Reconcilers : provision(r)
  BY ZenonT(30), NextRows
<1> QED
  BY ZenonT(30), <1>1, <1>2, SandboxStep

(* A session has one sandbox that is wanted and alive at most: a pass      *)
(* whose predecessor crashed between creating a sandbox and naming it has  *)
(* seen that sandbox when it provisions, and uses it again.                *)
THEOREM NeverTwoSandboxes ==
  ASSUME OneLoop
  PROVE  Spec => []OneSandbox
<1>1. Init => SandboxesSeen /\ OneSandbox
  <2>1. Init => Reusable(rows) = {}
    BY SMTT(20) DEF Init, Reusable, NoRows, NoRow
  <2> QED
    BY ZenonT(30), <2>1 DEF SandboxesSeen, OneSandbox
<1>2. IInv /\ FreshTracks /\ SandboxesSeen /\ OneSandbox /\ [Next]_vars =>
        SandboxesSeen' /\ OneSandbox'
  BY ZenonT(30), NextSandbox
<1> QED
  BY <1>1, <1>2, Invariant, FreshCopiesTrack, PTL DEF Spec

LEMMA NextEnds ==
  EndsByPass /\ IInv /\ IInv' /\ FreshTracks /\ EndsOK /\ [Next]_vars => EndsOK'
<1> SUFFICES ASSUME EndsByPass, IInv, IInv', FreshTracks, EndsOK, [Next]_vars
             PROVE  EndsOK'
  BY ZenonT(30)
<1>1. Form
  BY ZenonT(30), NextForm
<1>2. RowsCool \/ \E r \in Reconcilers : provision(r)
  BY ZenonT(30), NextRows
<1>3. CursorsKept \/ \E h \in Handlers : CursorMoved(h)
  BY ZenonT(30), NextCursor
<1> QED
  BY ZenonT(30), <1>1, <1>2, <1>3, EndsKept

(* A session that only passes end leaves no sandbox that is wanted and no  *)
(* token that is accepted: the pass that writes the end has stopped and    *)
(* revoked every sandbox of it, and none was made since it read the rows.  *)
THEOREM EndsWithoutSandboxes ==
  ASSUME EndsByPass
  PROVE  Spec => []EndedUnwanted
<1>1. Init => EndsOK
  BY ZenonT(30), InitEnds
<1>2. IInv /\ IInv' /\ FreshTracks /\ EndsOK /\ [Next]_vars => EndsOK'
  BY ZenonT(30), NextEnds
<1>3. EndsOK => EndedUnwanted
  BY Zenon DEF EndsOK, Unworked, EndedUnwanted, Cold, Hot
<1> QED
  BY <1>1, <1>2, <1>3, Invariant, FreshCopiesTrack, PTL DEF Spec

-----------------------------------------------------------------------------
(* The queue, when requests come one at a time and no action fails. *)

LEMMA NextClean ==
  OneRequest /\ IInv /\ IInv' /\ FreshTracks /\ DocsOK /\ CleanOK /\ [Next]_vars => CleanOK'
<1> SUFFICES ASSUME OneRequest, IInv, IInv', FreshTracks, DocsOK, CleanOK, [Next]_vars
             PROVE  CleanOK'
  BY Zenon
<1>1. Form
  BY ZenonT(30), NextForm
<1>2. RowsCool \/ \E r \in Reconcilers : provision(r)
  BY ZenonT(30), NextRows
<1>3. Settled
  BY ZenonT(30), <1>2, RowsSettled
<1> QED
  BY ZenonT(30), <1>1, <1>3, CleanStep

(* With any number of passes that overlap, and requests one at a time, a   *)
(* session in the queue, or being provisioned, names no sandbox and no     *)
(* turn: the late calls of the runner of an earlier sandbox leave nothing  *)
(* of it in the document that is queued again.                             *)
THEOREM QueuedStaysClean ==
  ASSUME OneRequest
  PROVE  Spec => []QueuedClean
<1>1. IInv /\ IInv' /\ FreshTracks /\ DocsOK /\ CleanOK /\ [Next]_vars => CleanOK'
  BY ZenonT(30), NextClean
<1>2. Spec => []DocsOK
  BY Zenon, DocsInvariant
<1>3. CleanOK => QueuedClean
  BY Zenon DEF CleanOK, CleanDoc, Early, QueuedClean
<1> QED
  BY <1>1, <1>2, <1>3, InitClean, Invariant, FreshCopiesTrack, PTL DEF Spec

=============================================================================
