------------------------ MODULE MCSettlementProgram ------------------------
(* Small instances of SettlementProgram: who owns which agent.             *)
EXTENDS SettlementProgram
CONSTANTS a1, a2, p1

\* One player's agent and one house agent.
PlayerAndHouse == [a \in Agents |-> IF a = a1 THEN p1 ELSE House]
=============================================================================
