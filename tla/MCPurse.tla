------------------------------ MODULE MCPurse ------------------------------
(* One agent's purse, small: a vault of twice the least worth keeping, so   *)
(* that a withdrawal or a claim of half leaves a vault and one of the lot   *)
(* none; dust at half of that, so that a claim after a loss leaves dust or  *)
(* takes it along; one match, one withdrawal, two exits (the second at the  *)
(* first's address) and one outage.  Windows run out at any time, so that   *)
(* the worker, the watcher, the submitting request and the owner's own      *)
(* transactions meet in every order.                                        *)
EXTENDS Purse
=============================================================================
