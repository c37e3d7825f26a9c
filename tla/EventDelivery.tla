---------------------------- MODULE EventDelivery ----------------------------
(***************************************************************************)
(* What the path of runner events promises, without its mechanism          *)
(* (sandbox-runner/src/event-buffer.ts, api/internal/coding/events.go).    *)
(*                                                                         *)
(* An event that the runner accepted takes effect once, or it is given up. *)
(* Only an event whose application was cut off or refused is in doubt: it  *)
(* may be given up, or take effect again.                                  *)
(***************************************************************************)
EXTENDS Naturals

CONSTANT Events

VARIABLES
  accepted,   \* events handed to the buffer
  waiting,    \* accepted events that are neither applied nor given up
  applied,    \* how often each event took effect
  doubtful    \* events whose application was cut off or refused

vars == <<accepted, waiting, applied, doubtful>>

Init ==
  /\ accepted = {} /\ waiting = {} /\ doubtful = {}
  /\ applied = [e \in Events |-> 0]

(* The runner hands over a new event; the full buffer may give up others.  *)
Accept(e, S) ==
  /\ e \notin accepted
  /\ accepted' = accepted \cup {e}
  /\ waiting' = (waiting \cup {e}) \ S
  /\ UNCHANGED <<applied, doubtful>>

Apply(S) ==
  /\ S \subseteq waiting \cup doubtful
  /\ applied' = [e \in Events |-> IF e \in S THEN applied[e] + 1 ELSE applied[e]]
  /\ waiting' = waiting \ S
  /\ UNCHANGED <<accepted, doubtful>>

(* Events are given up, some of them in doubt.                             *)
GiveUp(S, D) ==
  /\ waiting' = waiting \ S
  /\ doubtful' = doubtful \cup D
  /\ UNCHANGED <<accepted, applied>>

Next ==
  \/ \E e \in Events, S \in SUBSET Events : Accept(e, S)
  \/ \E S \in SUBSET Events : Apply(S)
  \/ \E S, D \in SUBSET Events : GiveUp(S, D)

Spec == Init /\ [][Next]_vars

(* No event takes effect twice unless it is in doubt, and an event that is *)
(* still on its way has not taken effect.                                  *)
Once ==
  \A e \in Events : e \notin doubtful => applied[e] + (IF e \in waiting THEN 1 ELSE 0) <= 1
=============================================================================
