------------------------- MODULE SlotsSafetyProofs -------------------------
(***************************************************************************)
(* The safety of grants, and that the slots implement the permit pool.     *)
(***************************************************************************)
EXTENDS SlotsProofs

(* Every step leaves the leases alone, ends some, or grants a set of claims. *)

Keeps == /\ slot' = slot
         /\ cap' = cap \/ claim' = claim
         /\ \A r \in Requests : /\ Granted(r)' = Granted(r)
                                /\ Granted(r) => claim'[r].n = claim[r].n

Ends(S) == EndLeases(S) /\ UNCHANGED <<cap, claim>>

EndsOf(S) == Ends(S) /\ \A r \in S \cap Requests : claim[r].owner # User

LEMMA StepKinds ==
  ASSUME TypeOK, IInv, [Next]_vars
  PROVE  \/ Keeps
         \/ \E S : EndsOf(S)
         \/ \E r \in Requests : ReleaseUserHold(r)
         \/ \E G, f : Grants(G, f)
<1> USE DEF TypeOK
<1>m. \A r \in Requests : claim[r].st \in {"none", "creating"} => ~Granted(r)
  BY DEF IInv, NewUnmarked, Granted
<1>1. ASSUME NEW r \in Requests, NEW a \in Agents, NEW k \in 1..MaxCap, NEW inline \in BOOLEAN, CreateBegin(r, a, k, inline)
      PROVE  Keeps
  BY <1>1, <1>m DEF CreateBegin, Keeps, Granted, Claims
<1>2. ASSUME NEW r \in Requests, ClaimRefused(r)
      PROVE  Keeps
  BY <1>2, <1>m DEF ClaimRefused, Keeps, Granted, Forget, NoClaim, IInv, CallsOnNew
<1>3. ASSUME NEW r \in Requests, ClaimBegin(r)
      PROVE  Keeps
  BY <1>3 DEF ClaimBegin, Keeps, Granted
<1>4. ASSUME GrantBegin
      PROVE  Keeps
  BY <1>4 DEF GrantBegin, Keeps, Granted
<1>5. ASSUME ClaimRollback
      PROVE  Keeps
  BY <1>5 DEF ClaimRollback, Keeps, Granted
<1>6. ASSUME GrantFails
      PROVE  Keeps
  BY <1>6 DEF GrantFails, Keeps, Granted
<1>7. ASSUME NEW r \in Requests, Insert(r)
      PROVE  Keeps
  <2>1. claim[r].st = "creating" /\ slot' = slot /\ cap' = cap
    BY <1>7 DEF Insert, IInv, CallsOnNew
  <2>2. CASE SetState({r}, "armed")
    BY <2>1, <2>2, SetStateEffect, <1>m DEF Keeps, Granted
  <2>3. CASE Forget({r})
    BY <2>1, <2>3, <1>m DEF Forget, NoClaim, Keeps, Granted
  <2> QED BY <1>7, <2>2, <2>3 DEF Insert
<1>8. ASSUME NEW r \in Requests, NEW k \in 1..MaxCap, SlotHold(r, k)
      PROVE  Keeps
  BY <1>8, <1>m DEF SlotHold, Keeps, Granted, Claims
<1>9. ASSUME NEW r \in Requests, Fire(r)
      PROVE  Keeps
  BY <1>9, SetStateEffect DEF Fire, Keeps, Granted
<1>10. ASSUME NEW r \in Requests, FireFails(r)
      PROVE  Keeps
  BY <1>10 DEF FireFails, Keeps, Granted
<1>11. ASSUME NEW r \in Requests, Release(r)
      PROVE  \E S : EndsOf(S)
  BY <1>11 DEF Release, EndsOf, Ends
<1>13. ASSUME CheckHolders
      PROVE  \E S : EndsOf(S)
  BY <1>13, UserAssumption DEF CheckHolders, Unfit, EndsOf, Ends
<1>14. ASSUME NEW a \in Agents, DeathEnd(a)
      PROVE  \E S : EndsOf(S)
  BY <1>14, UserAssumption DEF DeathEnd, HeldBy, EndsOf, Ends
<1>15. ASSUME NEW r \in Requests, IdleReclaim(r)
      PROVE  \E S : EndsOf(S)
  BY <1>15 DEF IdleReclaim, EndsOf, Ends
<1>16. ASSUME NEW a \in Agents, RecheckHolder(a)
      PROVE  Keeps
  BY <1>16 DEF RecheckHolder, Keeps, Granted
<1>17. ASSUME NEW a \in Agents, DeathRead(a)
      PROVE  Keeps
  BY <1>17 DEF DeathRead, Keeps, Granted
<1>18. ASSUME NEW r \in Requests, IdleRemind(r)
      PROVE  Keeps
  BY <1>18 DEF IdleRemind, Keeps, Granted
<1>18a. ASSUME NEW r \in Requests, IdlePage(r)
      PROVE  Keeps
  BY <1>18a DEF IdlePage, Keeps, Granted
<1>19. ASSUME NEW a \in Agents, SlotUnqueue(a)
      PROVE  Keeps
  BY <1>19, SetStateEffect DEF SlotUnqueue, Pending, Keeps, Granted
<1>20. ASSUME NEW r \in Requests, SlotCancel(r)
      PROVE  Keeps
  BY <1>20, SetStateEffect DEF SlotCancel, Pending, Keeps, Granted
<1>21. ASSUME NEW r \in Requests, NEW verb \in {"pause", "remove"}, ActBegin(r, verb)
      PROVE  Keeps
  BY <1>21 DEF ActBegin, Keeps, Granted
<1>22. ASSUME NEW r \in Requests, NEW verb \in {"pause", "remove"}, ActWrite(r, verb)
      PROVE  Keeps
  <2>1. claim[r].st # "inline" /\ slot' = slot /\ cap' = cap
    BY <1>22 DEF ActWrite, IInv, ActsOnDogs
  <2>2. \E st \in {"paused", "removed"} : SetState({r}, st)
    BY <1>22 DEF ActWrite
  <2> QED BY <2>1, <2>2, SetStateEffect DEF Keeps, Granted
<1>23. ASSUME NEW r \in Requests, ResumeSlot(r)
      PROVE  Keeps
  BY <1>23, SetStateEffect DEF ResumeSlot, Keeps, Granted
<1>24. ASSUME NEW r \in Requests, NEW k \in 1..MaxCap, Edit(r, k)
      PROVE  Keeps
  BY <1>24 DEF Edit, Keeps, Granted, Claims
<1>25. ASSUME NEW a \in Agents, NEW on \in BOOLEAN, SetHalt(a, on)
      PROVE  Keeps
  BY <1>25 DEF SetHalt, Keeps, Granted
<1>26. ASSUME NEW a \in Agents, FreezeTurn(a)
      PROVE  Keeps
  BY <1>26 DEF FreezeTurn, Keeps, Granted
<1>27. ASSUME NEW a \in Agents, FreezeNoAccount(a)
      PROVE  Keeps
  BY <1>27 DEF FreezeNoAccount, Keeps, Granted
<1>28. ASSUME NEW a \in Agents, Thaw(a)
      PROVE  Keeps
  BY <1>28 DEF Thaw, Keeps, Granted
<1>28a. ASSUME NEW a \in Agents, NEW on \in BOOLEAN, UserHalt(a, on)
      PROVE  Keeps
  BY <1>28a DEF UserHalt, Keeps, Granted
<1>28b. ASSUME NEW a \in Agents, FreezeStranded(a)
      PROVE  Keeps
  BY <1>28b DEF FreezeStranded, Keeps, Granted
<1>28c. ASSUME NEW a \in Agents, ContinueOn(a)
      PROVE  Keeps
  BY <1>28c DEF ContinueOn, Keeps, Granted
<1>29. ASSUME NEW a \in Agents, TurnDies(a)
      PROVE  Keeps
  BY <1>29 DEF TurnDies, Keeps, Granted
<1>30. ASSUME NEW a \in Agents, Move(a)
      PROVE  Keeps
  BY <1>30 DEF Move, Keeps, Granted
<1>31. ASSUME NEW a \in Agents, AfterMove(a)
      PROVE  Keeps
  BY <1>31 DEF AfterMove, Keeps, Granted
<1>32. ASSUME NEW a \in Agents, Retire(a)
      PROVE  Keeps
  BY <1>32, SetStateEffect DEF Retire, Keeps, Granted
<1>33. ASSUME NEW a \in Agents, Rehire(a)
      PROVE  Keeps
  BY <1>33, SetStateEffect DEF Rehire, Keeps, Granted
<1>34. ASSUME DropUnreached
      PROVE  Keeps
  BY <1>34, SetStateEffect DEF DropUnreached, Pending, Keeps, Granted
<1>35. ASSUME NEW c \in 0..MaxCap, SetSlots(c)
      PROVE  Keeps
  BY <1>35 DEF SetSlots, Keeps, Granted
<1>36. ASSUME NEW on \in BOOLEAN, SetProject(on)
      PROVE  Keeps
  BY <1>36 DEF SetProject, Keeps, Granted
<1>37. ASSUME Crash
      PROVE  Keeps
  BY <1>37, <1>m DEF Crash, Forget, NoClaim, Keeps, Granted
<1>38. ASSUME UNCHANGED vars
      PROVE  Keeps
  BY <1>38 DEF vars, Keeps, Granted
<1> HIDE DEF TypeOK
<1> QED
  BY <1>1, <1>2, <1>3, <1>4, <1>5, <1>6, <1>7, <1>8, <1>9, <1>10, <1>11, <1>13, <1>14,
     <1>15, <1>16, <1>17, <1>18, <1>18a, <1>19, <1>20, <1>21, <1>22, <1>23, <1>24, <1>25, <1>26,
     <1>27, <1>28, <1>28a, <1>28b, <1>28c, <1>29, <1>30, <1>31, <1>32, <1>33, <1>34, <1>35, <1>36, <1>37, <1>38,
     CommitGrants
     DEF Next, Work, Calls, Events

LEMMA UserReleaseEnds ==
  ASSUME NEW r, ReleaseUserHold(r)
  PROVE  Ends({r})
BY DEF ReleaseUserHold, Ends

LEMMA StepKindsShort ==
  ASSUME TypeOK, IInv, [Next]_vars
  PROVE  Keeps \/ (\E S : Ends(S)) \/ (\E G, f : Grants(G, f))
BY StepKinds, UserReleaseEnds DEF EndsOf

(* How many permits a set of claims stands for. *)

LEMMA PermitsFinite ==
  ASSUME TypeOK, NEW S \in SUBSET Requests
  PROVE  IsFiniteSet(Permits(S)) /\ Units(S) \in Nat
<1>1. IsFiniteSet(S)
  BY FiniteAssumption, FS_Subset
<1>2. IsFiniteSet(1..MaxCap)
  BY CapAssumption, FS_Interval
<1>3. IsFiniteSet(S \X (1..MaxCap))
  BY <1>1, <1>2, FS_Product
<1>4. Permits(S) \subseteq S \X (1..MaxCap)
  BY DEF Permits
<1>5. IsFiniteSet(Permits(S))
  BY <1>3, <1>4, FS_Subset
<1> QED BY <1>5, FS_CardinalityType DEF Units

LEMMA UnitsMonotonic ==
  ASSUME TypeOK, NEW S \in SUBSET Requests, NEW T \in SUBSET S
  PROVE  Units(T) <= Units(S)
<1>1. Permits(T) \subseteq Permits(S)
  BY DEF Permits
<1> QED BY <1>1, PermitsFinite, FS_Subset DEF Units

LEMMA UnitsUnion ==
  ASSUME TypeOK, NEW S \in SUBSET Requests, NEW T \in SUBSET Requests
  PROVE  Units(S \cup T) <= Units(S) + Units(T)
<1>1. Permits(S \cup T) = Permits(S) \cup Permits(T)
  BY DEF Permits
<1>2. /\ IsFiniteSet(Permits(S)) /\ IsFiniteSet(Permits(T))
      /\ Units(S) \in Nat /\ Units(T) \in Nat
  BY PermitsFinite
<1>3. Cardinality(Permits(S \cup T))
        = Cardinality(Permits(S)) + Cardinality(Permits(T)) - Cardinality(Permits(S) \cap Permits(T))
  BY <1>1, <1>2, FS_Union
<1>4. Cardinality(Permits(S) \cap Permits(T)) \in Nat
  BY <1>2, FS_Subset, FS_CardinalityType
<1> QED BY <1>2, <1>3, <1>4 DEF Units

LEMMA UnitsEmpty == Units({}) = 0
BY FS_EmptySet DEF Units, Permits

LEMMA HeldType == Held \in SUBSET Requests /\ HeldBy(User) \in SUBSET Requests
BY DEF Held, HeldBy

(* What each kind of step does to the permits that are held. *)

LEMMA KeepsHeld ==
  ASSUME TypeOK, IInv, Keeps
  PROVE  Held' = Held /\ Units(Held)' = Units(Held)
<1>1. Held' = Held
  BY DEF Keeps, Held
<1>2. \A r \in Held : claim'[r].n = claim[r].n
  BY DEF Keeps, Held, IInv, LeaseMarked
<1>3. Permits(Held)' = Permits(Held)
  BY <1>1, <1>2 DEF Permits
<1> QED BY <1>1, <1>3 DEF Units

LEMMA EndsHeld ==
  ASSUME TypeOK, TypeOK', NEW S, Ends(S)
  PROVE  Held' = Held \ S /\ Units(Held)' <= Units(Held)
<1>1. Held' = Held \ S
  BY DEF Ends, EndLeases, Held, TypeOK
<1>2. Units(Held)' = Units(Held \ S)
  BY <1>1 DEF Units, Permits, Ends
<1> QED BY <1>1, <1>2, UnitsMonotonic, HeldType

LEMMA GrantsHeld ==
  ASSUME TypeOK, NEW G, NEW f, Grants(G, f)
  PROVE  /\ Held' = Held \cup G
         /\ Units(Held)' = Units(Held \cup G)
         /\ cap' = cap
         /\ G # {} => Units(Held \cup G) <= cap
<1> USE DEF TypeOK
<1>1. Held' = Held \cup G
  BY GrantsEffect DEF Held
<1>2. \A r \in Requests : claim'[r].n = claim[r].n
  BY GrantsEffect
<1>3. Permits(Held)' = Permits(Held \cup G)
  BY <1>1, <1>2, HeldType, GrantsEffect DEF Permits
<1>4. G \in SUBSET Requests /\ cap' = cap /\ (G # {} => Units(G) <= cap - Units(Held))
  BY GrantsEffect DEF Grants, Winners
<1>5. Units(Held \cup G) <= Units(Held) + Units(G)
  BY <1>4, UnitsUnion, HeldType
<1>6. Units(Held) \in Nat /\ Units(G) \in Nat /\ Units(Held \cup G) \in Nat /\ cap \in Nat
  BY <1>4, PermitsFinite, HeldType, CapAssumption
<1> QED BY <1>1, <1>3, <1>4, <1>5, <1>6 DEF Units

(* No over-allocation: leases are added only while all that is held fits in  *)
(* the slot count, however claims, edits and slot count changes interleave.  *)
THEOREM NoOverAllocation == Spec => CapacityKept
<1>1. ASSUME TypeOK, IInv, TypeOK', [Next]_vars
      PROVE  Units(Held)' > Units(Held) => Units(Held)' <= cap'
  <2>1. Units(Held) \in Nat
    BY <1>1, PermitsFinite, HeldType
  <2>2. CASE Keeps
    BY <1>1, <2>1, <2>2, KeepsHeld
  <2>3. CASE \E S : Ends(S)
    <3>1. PICK S : Ends(S)
      BY <2>3
    <3>2. Units(Held)' <= Units(Held)
      BY <1>1, <3>1, EndsHeld
    <3>3. Units(Held)' \in Nat
      <4>1. Held' = Held \ S /\ Units(Held)' = Units(Held \ S)
        BY <1>1, <3>1, EndsHeld DEF Units, Permits, Ends
      <4> QED BY <1>1, <4>1, PermitsFinite, HeldType
    <3> QED BY <2>1, <3>2, <3>3
  <2>4. CASE \E G, f : Grants(G, f)
    <3>1. PICK G, f : Grants(G, f)
      BY <2>4
    <3>2. CASE G = {}
      BY <1>1, <2>1, <3>1, <3>2, GrantsHeld
    <3>3. CASE G # {}
      BY <1>1, <3>1, <3>3, GrantsHeld
    <3> QED BY <3>2, <3>3
  <2> QED BY <1>1, <2>2, <2>3, <2>4, StepKindsShort
<1>2. TypeOK /\ IInv /\ TypeOK' /\ [Next]_vars
        => [Units(Held)' > Units(Held) => Units(Held)' <= cap']_vars
  BY <1>1
<1> QED BY <1>2, TypeCorrect, MarksKept, PTL DEF Spec, CapacityKept

(* No double grant: a claim that has had a lease never gets another, and a   *)
(* lease keeps its anchor, though grants overlap with every other call.      *)
THEOREM NoDoubleGrant == Spec => GrantedOnce
<1>1. ASSUME TypeOK, IInv, [Next]_vars
      PROVE  \A r \in Requests : claim[r].lease \/ claim[r].st = "inline"
                                   => slot'[r] \in {0, slot[r]}
  <2>1. CASE Keeps
    BY <2>1 DEF Keeps
  <2>2. CASE \E S : Ends(S)
    BY <2>2 DEF Ends, EndLeases
  <2>3. CASE \E G, f : Grants(G, f)
    <3>1. PICK G, f : Grants(G, f)
      BY <2>3
    <3>2. \A r \in G : ~Granted(r)
      BY <1>1, <3>1, GrantsEffect DEF IInv, LineUnmarked
    <3> QED BY <1>1, <3>1, <3>2, GrantsEffect DEF Granted
  <2> QED BY <1>1, <2>1, <2>2, <2>3, StepKindsShort
<1>2. TypeOK /\ IInv /\ [Next]_vars
        => [\A r \in Requests : claim[r].lease \/ claim[r].st = "inline"
                                  => slot'[r] \in {0, slot[r]}]_vars
  BY <1>1
<1> QED BY <1>2, TypeCorrect, MarksKept, PTL DEF Spec, GrantedOnce

(* The user's hold ends by the user's release and by nothing else: no death,  *)
(* check, reclaim, forced release, retirement or crash takes it.              *)
THEOREM UserHoldKept == Spec => UserHoldsLast
<1>1. ASSUME TypeOK, IInv, [Next]_vars
      PROVE  \A r \in Requests : (claim[r].owner = User /\ slot[r] # 0 /\ slot'[r] = 0)
                                   => ReleaseUserHold(r)
  <2>1. CASE Keeps
    BY <2>1 DEF Keeps
  <2>2. CASE \E S : EndsOf(S)
    BY <2>2 DEF EndsOf, Ends, EndLeases
  <2>3. CASE \E s \in Requests : ReleaseUserHold(s)
    <3>1. PICK s \in Requests : ReleaseUserHold(s)
      BY <2>3
    <3>2. \A r \in Requests \ {s} : slot'[r] = slot[r]
      BY <3>1, UserReleaseEnds DEF Ends, EndLeases
    <3> QED BY <3>1, <3>2
  <2>4. CASE \E G, f : Grants(G, f)
    <3>1. PICK G, f : Grants(G, f)
      BY <2>4
    <3>2. cap \in Nat
      BY <1>1, CapAssumption DEF TypeOK
    <3> QED BY <1>1, <3>1, <3>2, GrantsEffect
  <2> QED BY <1>1, <2>1, <2>2, <2>3, <2>4, StepKinds
<1>2. TypeOK /\ IInv /\ [Next]_vars
        => [\A r \in Requests : (claim[r].owner = User /\ slot[r] # 0 /\ slot'[r] = 0)
                                  => ReleaseUserHold(r)]_vars
  BY <1>1
<1> QED BY <1>2, TypeCorrect, MarksKept, PTL DEF Spec, UserHoldsLast

(* First come, first served: a pass that grants a claim grants every claim    *)
(* that it read ahead of it in the line.                                      *)
THEOREM FirstComeFirstServed == Spec => StrictFIFO
<1>1. ASSUME TypeOK, IInv, [Next]_vars
      PROVE  \A r, s \in Requests :
               (slot[r] = 0 /\ slot'[r] # 0 /\ <<s, r>> \in before /\ s \in pass.waiting)
                 => slot'[s] # 0
  <2>1. CASE Keeps
    BY <2>1 DEF Keeps
  <2>2. CASE \E S : Ends(S)
    BY <1>1, <2>2 DEF Ends, EndLeases
  <2>3. CASE \E G, f : Grants(G, f)
    <3>1. PICK G, f : Grants(G, f)
      BY <2>3
    <3>2. \A r \in G : UpTo(r, pass.waiting) \subseteq G
      BY <3>1 DEF Grants, Winners
    <3>3. cap \in Nat
      BY <1>1, CapAssumption DEF TypeOK
    <3> QED BY <1>1, <3>1, <3>2, <3>3, GrantsEffect DEF UpTo
  <2> QED BY <1>1, <2>1, <2>2, <2>3, StepKindsShort
<1>2. TypeOK /\ IInv /\ [Next]_vars
        => [\A r, s \in Requests :
              (slot[r] = 0 /\ slot'[r] # 0 /\ <<s, r>> \in before /\ s \in pass.waiting)
                => slot'[s] # 0]_vars
  BY <1>1
<1> QED BY <1>2, TypeCorrect, MarksKept, PTL DEF Spec, StrictFIFO

(* Two active leases never share an anchor.                                   *)
THEOREM AnchorsKept == Spec => []AnchorsDistinct
<1>1. Init => AnchorsDistinct
  BY DEF Init, AnchorsDistinct, Held
<1>2. ASSUME TypeOK, IInv, AnchorsDistinct, [Next]_vars
      PROVE  AnchorsDistinct'
  <2>1. CASE Keeps
    BY <1>2, <2>1 DEF Keeps, AnchorsDistinct, Held
  <2>2. CASE \E S : Ends(S)
    BY <1>2, <2>2 DEF Ends, EndLeases, AnchorsDistinct, Held
  <2>3. CASE \E G, f : Grants(G, f)
    <3>1. PICK G, f : Grants(G, f)
      BY <2>3
    <3>2. \A r \in G : /\ f[r] \notin {slot[s] : s \in Held}
                       /\ \A s \in G : f[s] = f[r] => s = r
      BY <3>1 DEF Grants, Anchors
    <3> QED BY <1>2, <3>1, <3>2, GrantsEffect DEF AnchorsDistinct, Held
  <2> QED BY <1>2, <2>1, <2>2, <2>3, StepKindsShort
<1>3. TypeOK /\ IInv /\ AnchorsDistinct /\ [Next]_vars => AnchorsDistinct'
  BY <1>2
<1> QED BY <1>1, <1>3, TypeCorrect, MarksKept, PTL DEF Spec
=============================================================================
