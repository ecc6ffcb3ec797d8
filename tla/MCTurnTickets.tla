--------------------------- MODULE MCTurnTickets ---------------------------
(* Small instances of TurnTickets for TLC.                                  *)
EXTENDS TurnTickets, TLC

CONSTANTS r1, r2, r3, a1, a2, h1, h2

\* a turn in each of two processes
TwoHosts == [r \in Requests |-> IF r = r1 THEN h1 ELSE h2]

\* two turns of one agent, and one of an agent in another org
AgentOfTwo == [r \in Requests |-> IF r = r3 THEN a2 ELSE a1]

\* an agent for each of two turns, in one org or in two
AgentEach == [r \in Requests |-> IF r = r1 THEN a1 ELSE a2]

OneOrg == [a \in Agents |-> 1]

OrgEach == a1 :> 1 @@ a2 :> 2
=============================================================================
