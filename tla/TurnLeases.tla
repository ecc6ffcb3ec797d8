----------------------------- MODULE TurnLeases -----------------------------
(***************************************************************************)
(* What turn admission promises of every turn, in one place and without    *)
(* crashes: a lease is asked for, held while it fits under the limit and   *)
(* ended for good; a provider runs once, within its lease.                 *)
(***************************************************************************)
EXTENDS Integers, FiniteSets

CONSTANTS Turns, Agents, AgentOf, MaxLimit

VARIABLES limit, lease, run

leaseVars == <<limit, lease, run>>

Held == {t \in Turns : lease[t] = "held"}

Init == /\ limit \in 0..MaxLimit
        /\ lease = [t \in Turns |-> "none"]
        /\ run = [t \in Turns |-> "off"]

Ask(t) ==
  /\ lease[t] = "none"
  /\ \A u \in Turns : AgentOf[u] = AgentOf[t] => lease[u] \notin {"asked", "held"}
  /\ lease' = [lease EXCEPT ![t] = "asked"]
  /\ UNCHANGED <<limit, run>>

Grant(t) ==
  /\ lease[t] = "asked"
  /\ Cardinality(Held) < limit
  /\ lease' = [lease EXCEPT ![t] = "held"]
  /\ UNCHANGED <<limit, run>>

Start(t) ==
  /\ lease[t] = "held"
  /\ run[t] = "off"
  /\ run' = [run EXCEPT ![t] = "on"]
  /\ UNCHANGED <<limit, lease>>

\* a process takes all its providers with it
Stop(S) ==
  /\ S # {} /\ \A t \in S : run[t] = "on"
  /\ run' = [t \in Turns |-> IF t \in S THEN "over" ELSE run[t]]
  /\ UNCHANGED <<limit, lease>>

\* and all its leases, when no provider runs under them
End(S) ==
  /\ S # {} /\ \A t \in S : lease[t] # "ended" /\ run[t] # "on"
  /\ lease' = [t \in Turns |-> IF t \in S THEN "ended" ELSE lease[t]]
  /\ UNCHANGED <<limit, run>>

SetLimit == limit' \in 0..MaxLimit /\ UNCHANGED <<lease, run>>

Next == \/ \E t \in Turns : Ask(t) \/ Grant(t) \/ Start(t)
        \/ \E S \in SUBSET Turns : Stop(S) \/ End(S)
        \/ SetLimit

Spec == Init /\ [][Next]_leaseVars
=============================================================================
