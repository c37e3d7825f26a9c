-------------------------- MODULE MCCodingSessions --------------------------
(***************************************************************************)
(* CodingSessions for TLC.  Turns, handlers and reconcilers are model      *)
(* values that nothing orders or tells apart, so runs that check no        *)
(* liveness take them up to renaming.                                      *)
(***************************************************************************)
EXTENDS CodingSessions, TLC

Symmetry ==
  Permutations(Turns) \cup Permutations(Handlers) \cup Permutations(Reconcilers)

=============================================================================
