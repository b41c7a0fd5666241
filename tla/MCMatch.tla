------------------------------ MODULE MCMatch ------------------------------
(* A match as shipped: three rounds, two to win, ante 4, bets of 10 and 20. *)
EXTENDS Match
=============================================================================
