-------------------------- MODULE SlotsPoolProofs --------------------------
(***************************************************************************)
(* The slots implement the permit pool: every step of the project's        *)
(* permits is a step of the pool, or a step the pool does not see.         *)
(***************************************************************************)
EXTENDS SlotsSafetyProofs

LEMMA PhaseHeld == Pool!In("held") = Held
BY DEF Pool!In, phaseOf, Held

LEMMA AskedPermits ==
  ASSUME NEW S \in SUBSET Requests
  PROVE  Pool!Asked(S) = Permits(S)
BY DEF Pool!Asked, sizeOf, Permits

LEMMA SameCount == \A S : Pool!Cardinality(S) = Cardinality(S)
BY DEF Pool!Cardinality, Cardinality

LEMMA SizeType ==
  ASSUME TypeOK
  PROVE  sizeOf \in [Requests -> 1..MaxCap]
BY DEF TypeOK, Claims, sizeOf

LEMMA PoolInit == Init => Pool!Init
BY CapAssumption DEF Init, Pool!Init, sizeOf, phaseOf, NoClaim, Granted

LEMMA KeepsStep ==
  ASSUME TypeOK, TypeOK', IInv, Keeps
  PROVE  [Pool!Next]_(Pool!poolVars)
<1>1. phaseOf' = phaseOf
  BY DEF Keeps, phaseOf
<1>2. \A r \in Requests : phaseOf[r] # "idle" => sizeOf'[r] = sizeOf[r]
  BY DEF Keeps, phaseOf, sizeOf, IInv, LeaseMarked
<1>3. sizeOf' \in [Requests -> 1..MaxCap] /\ cap' \in 0..MaxCap
  BY SizeType DEF TypeOK, Claims, sizeOf
<1>4. CASE cap' = cap
  BY <1>1, <1>2, <1>3, <1>4 DEF Pool!Next, Pool!Ask
<1>5. CASE claim' = claim
  <2>1. sizeOf' = sizeOf
    BY <1>5 DEF sizeOf
  <2> QED BY <1>1, <1>3, <2>1 DEF Pool!Next, Pool!SetCap
<1> QED BY <1>4, <1>5 DEF Keeps

LEMMA EndsStep ==
  ASSUME TypeOK, IInv, NEW S, Ends(S)
  PROVE  [Pool!Next]_(Pool!poolVars)
<1>1. sizeOf' = sizeOf /\ cap' = cap
  BY DEF Ends, sizeOf
<1>2. slot' = [r \in Requests |-> IF r \in S THEN 0 ELSE slot[r]] /\ claim' = claim
  BY DEF Ends, EndLeases
<1>3. \A r \in Held : Granted(r)
  BY DEF IInv, LeaseMarked, Held
<1>4. phaseOf' = [r \in Requests |-> IF r \in S \cap Held THEN "done" ELSE phaseOf[r]]
  BY <1>2, <1>3 DEF phaseOf, Held, Granted, TypeOK
<1>5. CASE S \cap Held = {}
  <2>1. phaseOf' = phaseOf
    BY <1>4, <1>5 DEF phaseOf
  <2> QED BY <1>1, <2>1 DEF Pool!poolVars
<1>6. CASE S \cap Held # {}
  <2>1. S \cap Held \in SUBSET Requests
    BY DEF Held
  <2>2. Pool!GiveBack(S \cap Held)
    BY <1>1, <1>4, <1>6, PhaseHeld DEF Pool!GiveBack
  <2> QED BY <2>1, <2>2 DEF Pool!Next
<1> QED BY <1>5, <1>6

LEMMA GrantsStep ==
  ASSUME TypeOK, IInv, NEW G, NEW f, Grants(G, f)
  PROVE  [Pool!Next]_(Pool!poolVars)
<1>1. G \in SUBSET Requests /\ cap' = cap /\ cap \in Nat
  BY GrantsEffect, CapAssumption DEF Grants, TypeOK
<1>2. \A r \in Requests : claim'[r].n = claim[r].n
  BY GrantsEffect
<1>3. sizeOf' = sizeOf
  BY <1>2 DEF sizeOf
<1>4. \A r \in G : ~Granted(r) /\ slot[r] = 0
  BY GrantsEffect DEF IInv, LineUnmarked, LeaseMarked
<1>5. phaseOf' = [r \in Requests |-> IF r \in G THEN "held" ELSE phaseOf[r]]
  BY <1>1, GrantsEffect DEF phaseOf, Granted
<1>6. CASE G = {}
  <2>1. phaseOf' = phaseOf
    BY <1>5, <1>6 DEF phaseOf
  <2> QED BY <1>1, <1>3, <2>1 DEF Pool!poolVars
<1>7. CASE G # {}
  <2>1. G \subseteq Pool!In("idle")
    BY <1>1, <1>4 DEF Pool!In, phaseOf
  <2>2. Cardinality(Pool!Asked(Pool!In("held") \cup G)) <= cap
    <3>1. Held \cup G \in SUBSET Requests
      BY <1>1, HeldType
    <3>2. Pool!Asked(Pool!In("held") \cup G) = Permits(Held \cup G)
      BY <3>1, PhaseHeld, AskedPermits
    <3>3. Units(Held \cup G) <= cap
      BY <1>7, GrantsHeld
    <3> QED BY <3>2, <3>3 DEF Units
  <2>3. Pool!Take(G)
    <3>1. UNCHANGED <<cap, sizeOf>>
      BY <1>1, <1>3
    <3> QED BY <1>5, <1>7, <2>1, <2>2, <3>1, SameCount, Zenon DEF Pool!Take
  <2> QED BY <1>1, <2>3 DEF Pool!Next
<1> QED BY <1>6, <1>7

(* The slots of a project are a permit pool: claims are served whole, once,   *)
(* and only while all that is held fits; leases are ended for good; a claim   *)
(* changes its size only while it waits; and nothing else ever happens to     *)
(* permits, through every pass, release, edit, retirement and crash.          *)
THEOREM SlotsImplementPool == Spec => PoolSpec
<1>1. Init => Pool!Init
  BY PoolInit
<1>2. TypeOK /\ IInv /\ TypeOK' /\ [Next]_vars => [Pool!Next]_(Pool!poolVars)
  BY StepKindsShort, KeepsStep, EndsStep, GrantsStep
<1> QED BY <1>1, <1>2, TypeCorrect, MarksKept, PTL DEF Spec, PoolSpec, Pool!Spec
=============================================================================
