----------------------------- MODULE MCWorkPlan -----------------------------
(***************************************************************************)
(* Instances of WorkPlan for TLC.                                          *)
(***************************************************************************)
EXTENDS WorkPlan, TLC

(* Workers and requests are only compared for equality. *)
ProcessSymmetry == Permutations(Worker) \union Permutations(Handler)

=============================================================================
