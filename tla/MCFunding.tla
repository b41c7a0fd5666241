----------------------------- MODULE MCFunding -----------------------------
(* One agent, small: two deposits and a plain transfer of the same amount,  *)
(* so that each can be taken for the other; a match that nets as much, and  *)
(* a withdrawal of as much, so that a debit still queued can be taken for   *)
(* either; and one read that fails.  It starts with less than it can lose   *)
(* or take out, so that both need money that has come in.                   *)
EXTENDS Funding
=============================================================================
