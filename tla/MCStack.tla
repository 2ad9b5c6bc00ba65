------------------------------- MODULE MCStack -------------------------------
(***************************************************************************)
(* Instances of Stack for TLC.                                             *)
(***************************************************************************)
EXTENDS Stack, TLC

(* Three pull requests, each on top of the one before.  The last one's parent is declared;
   the second one's is what its base says. *)
MCLine == [p \in PR |-> p - 1]
MCDeclared == [p \in PR |-> IF p = 3 THEN 2 ELSE NoParent]
MCSetting ==
  {[owned |-> {3}, fork |-> {}], [owned |-> PR, fork |-> {}], [owned |-> PR, fork |-> {2}]}

(* Concurrent jobs matter more here than a second attempt with the same plan. *)
MCAttempts == [j \in Job |-> 1]

(* Workers are only compared for equality. *)
WorkerSymmetry == Permutations(Worker)

=============================================================================
