----------------------------- MODULE MCWatchlist -----------------------------
(***************************************************************************)
(* Instances of Watchlist for TLC.                                         *)
(***************************************************************************)
EXTENDS Watchlist, TLC

(* Requests are only compared for equality. *)
HandlerSymmetry == Permutations(Handler)

=============================================================================
