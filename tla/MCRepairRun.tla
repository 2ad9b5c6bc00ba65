----------------------------- MODULE MCRepairRun -----------------------------
(***************************************************************************)
(* Instances of RepairRun for TLC.                                         *)
(***************************************************************************)
EXTENDS RepairRun, TLC

AllPatches == [i \in Suggestion |-> "patch"]

(* Three attempts, the queue's default: one that parks, one that dies, one that
   takes over. *)
ThreeAttempts == [j \in Job |-> 3]
TwoAttempts == [j \in Job |-> 2]

(* Workers are only compared for equality. *)
WorkerSymmetry == Permutations(Worker)

=============================================================================
