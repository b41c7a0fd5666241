------------------------------ MODULE MCOutbox ------------------------------
(* Small instances of Outbox.                                              *)
EXTENDS Outbox
CONSTANTS a1, a2, a3, A, B

OwnEach == [a \in Agents |-> a]
OneBand == [b \in Bands |-> 2]
ThreeBand == [b \in Bands |-> 3]

FourEach  == [a \in Agents |-> 4]
ThreeEach == [a \in Agents |-> 3]
\* Just enough to play, and two chips more for a1.
Thin      == [a \in Agents |-> IF a = a1 THEN 5 ELSE 3]

\* Nothing paid yet; or a1 has paid all its window allows, the settlements of
\* an outage landing late.
NothingPaid == [a \in Agents |-> 0]
FloorPaid   == [a \in Agents |-> IF a = a1 THEN OUTFLOW_FLOOR_CHIPS ELSE 0]
=============================================================================
