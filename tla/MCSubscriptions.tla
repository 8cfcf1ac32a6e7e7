-------------------------- MODULE MCSubscriptions --------------------------
(***************************************************************************)
(* An instance of the subscriptions for TLC: one user who may buy two      *)
(* subscriptions of different plans and switch strategies in two requests  *)
(* at a time.                                                              *)
(***************************************************************************)
EXTENDS Subscriptions, TLC

Symmetry == Permutations(Subs) \cup Permutations(Requests)
=============================================================================
