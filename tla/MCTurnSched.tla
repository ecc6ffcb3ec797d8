---------------------------- MODULE MCTurnSched ----------------------------
(* Small instances of TurnSched for TLC.                                    *)
EXTENDS TurnSched, TLC

CONSTANTS a1, a2, a3, a4, gpu

\* two agents in one org and one in another
TwoOrgs == a1 :> 1 @@ a2 :> 1 @@ a3 :> 2

\* three agents in one org and one in another
Outnumbered == [a \in Agents |-> IF a = a4 THEN 2 ELSE 1]

\* an agent in each of two orgs
Apart == a1 :> 1 @@ a2 :> 2

\* two agents in each of two orgs
Pairs == a1 :> 1 @@ a2 :> 2 @@ a3 :> 2 @@ a4 :> 1

\* any agent on any server or on none
Anywhere == [Agents -> Servers \cup {None}]

\* all on the one server but a4
Sharing == {[a \in Agents |-> IF a = a4 THEN None ELSE gpu]}

\* every server serves one agent at a time
OneEach == [k \in Servers |-> 1]

\* Select, which the proofs reason about, is the SelectSeq of the library
ASSUME SelectIsSelectSeq ==
  \A n \in 0..4 : \A s \in [1..n -> 1..3] : \A P \in SUBSET (1..3) :
    LET Kept(x) == x \in P
    IN Select(s, {j \in DOMAIN s : s[j] \in P}) = SelectSeq(s, Kept)

Symmetry == Permutations(Slots)
=============================================================================
