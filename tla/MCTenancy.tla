----------------------------- MODULE MCTenancy -----------------------------
(* One wallet with two tabs, small, in two ways: one agent that lives       *)
(* through two seasons of two ticks and the grace after the first, with a   *)
(* match at every boundary; and two agents within a season, whose           *)
(* transactions, sweeps, declines and withdrawals meet in every order.      *)
EXTENDS Tenancy

TwoSeasons == [agents |-> 1, matches |-> 1, ticks |-> 4]
TwoAgents == [agents |-> 2, matches |-> 0, ticks |-> 1]
Both == {TwoSeasons, TwoAgents}
=============================================================================
