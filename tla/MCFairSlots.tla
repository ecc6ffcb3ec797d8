---------------------------- MODULE MCFairSlots ----------------------------
(* Small instances of FairSlots for TLC.                                    *)
EXTENDS FairSlots, TLC

CONSTANTS a1, a2, a3

\* a busy org and a quiet one
Outnumbered == [a \in Agents |-> IF a = a3 THEN 2 ELSE 1]

Symmetry == Permutations({a1, a2})
=============================================================================
