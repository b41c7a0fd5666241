------------------------------ MODULE MCRunner ------------------------------
(* Small instances of Runner: the owners, the bands and the balances.      *)
EXTENDS Runner
CONSTANTS a1, a2, a3, A, B

\* Every agent has an owner of its own; or a1 and a2 share one.
OwnEach == [a \in Agents |-> a]
SharedOwner == [a \in Agents |-> IF a = a2 THEN a1 ELSE a]

\* Band A's worst match is the cheapest; band B's is twice that.
TwoBands == [b \in Bands |-> IF b = A THEN 1 ELSE 2]
OneBand  == [b \in Bands |-> 2]

\* Balances a few matches from nothing.
FourEach == [a \in Agents |-> 4]
ThreeEach == [a \in Agents |-> 3]
Uneven   == [a \in Agents |-> IF a = a1 THEN 6 ELSE 3]
=============================================================================
