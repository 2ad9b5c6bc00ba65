----------------------------- MODULE MCJobQueue -----------------------------
(***************************************************************************)
(* Instances of JobQueue for TLC.                                          *)
(***************************************************************************)
EXTENDS JobQueueProperties, TLC

(* Workers, tokens, heads and fingerprints are only compared for equality. *)
Symmetry ==
  Permutations(Worker) \union Permutations(Token)
    \union Permutations(HeadSha) \union Permutations(Hash)

=============================================================================
