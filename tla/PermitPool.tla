----------------------------- MODULE PermitPool -----------------------------
(***************************************************************************)
(* What the slots of a project promise: takers of several permits each are *)
(* served whole, once, and only while all that is taken fits in the pool.  *)
(* It says nothing of lines, locks, passes or agents.                      *)
(***************************************************************************)
EXTENDS Integers, FiniteSets

CONSTANTS Takers, MaxPermits

VARIABLES
  cap,    \* permits in the pool; lowering it takes nothing back
  size,   \* permits a taker asks for
  phase   \* "idle", "held" or "done"

poolVars == <<cap, size, phase>>

In(p) == {t \in Takers : phase[t] = p}

\* one pair for every permit that the takers in S ask for
Asked(S) == {p \in S \X (1..MaxPermits) : p[2] <= size[p[1]]}

Init == /\ cap \in 0..MaxPermits
        /\ size \in [Takers -> 1..MaxPermits]
        /\ phase = [t \in Takers |-> "idle"]

\* several takers at once: one pass serves as many as fit
Take(S) ==
  /\ S # {} /\ S \subseteq In("idle")
  /\ Cardinality(Asked(In("held") \cup S)) <= cap
  /\ phase' = [t \in Takers |-> IF t \in S THEN "held" ELSE phase[t]]
  /\ UNCHANGED <<cap, size>>

GiveBack(S) ==
  /\ S # {} /\ S \subseteq In("held")
  /\ phase' = [t \in Takers |-> IF t \in S THEN "done" ELSE phase[t]]
  /\ UNCHANGED <<cap, size>>

\* what is held keeps its size, what waits may change its mind
Ask ==
  /\ size' \in [Takers -> 1..MaxPermits]
  /\ \A t \in Takers : phase[t] # "idle" => size'[t] = size[t]
  /\ UNCHANGED <<cap, phase>>

SetCap ==
  /\ cap' \in 0..MaxPermits
  /\ UNCHANGED <<size, phase>>

Next == Ask \/ SetCap \/ \E S \in SUBSET Takers : Take(S) \/ GiveBack(S)

Spec == Init /\ [][Next]_poolVars
=============================================================================
