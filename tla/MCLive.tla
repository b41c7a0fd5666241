------------------------------- MODULE MCLive -------------------------------
(* Two listeners at one address; reads of two matches of at most three, so  *)
(* that a pass and a replay are cut, and memory for as many.                *)
EXTENDS Live
FreshOrFirst == {NoSeq, 0}
OneAddress == [l \in Listeners |-> "home"]
=============================================================================
