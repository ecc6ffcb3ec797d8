---------------------------- MODULE SlotsProofs ----------------------------
(***************************************************************************)
(* What holds of the slots for any agents, any claims and any capacity.    *)
(***************************************************************************)
EXTENDS SlotsPool, TLAPS, FiniteSetTheorems

USE DEF Grant, Check, Drop

(* Types. *)

LEMMA TypeInit == Init => TypeOK
BY CapAssumption, BoundAssumption
   DEF Init, TypeOK, AgentRows, Claims, NoClaim, States, Passes, NoPass, Jobs, Owners

LEMMA SetStateType ==
  ASSUME TypeOK, NEW S, NEW st \in States, SetState(S, st)
  PROVE  claim' \in [Requests -> Claims]
BY DEF TypeOK, SetState, Claims

LEMMA StampedType ==
  ASSUME TypeOK, NEW r \in Requests, Stamped(r)
  PROVE  before' \in SUBSET (Requests \X Requests)
BY DEF TypeOK, Stamped

LEMMA ForgetType ==
  ASSUME TypeOK, NEW S, Forget(S)
  PROVE  /\ claim' \in [Requests -> Claims]
         /\ before' \in SUBSET (Requests \X Requests)
BY CapAssumption DEF TypeOK, Forget, NoClaim, Claims, States, Owners

LEMMA EndLeasesType ==
  ASSUME TypeOK, NEW S, EndLeases(S)
  PROVE  /\ slot' \in [Requests -> 0..MaxCap]
         /\ wakes' \in [Requests -> 0..Reminders]
BY CapAssumption, BoundAssumption DEF TypeOK, EndLeases

LEMMA WinType ==
  ASSUME TypeOK, NEW G \in SUBSET pass.waiting, NEW f \in [G -> 1..cap], Win(G, f)
  PROVE  /\ slot' \in [Requests -> 0..MaxCap]
         /\ wakes' \in [Requests -> 0..Reminders]
         /\ claim' \in [Requests -> Claims]
<1>1. slot' \in [Requests -> 0..MaxCap]
  <2>1. \A r \in G : f[r] \in 0..MaxCap
    BY CapAssumption DEF TypeOK
  <2>2. slot' = [r \in Requests |-> IF r \in G THEN f[r] ELSE slot[r]]
    BY Zenon DEF Win
  <2> QED BY <2>1, <2>2 DEF TypeOK
<1>2. wakes' \in [Requests -> 0..Reminders]
  <2>1. wakes' = [r \in Requests |-> IF r \in G THEN 0 ELSE wakes[r]]
    BY Zenon DEF Win
  <2> QED BY <2>1, BoundAssumption DEF TypeOK
<1>3. claim' \in [Requests -> Claims]
  BY DEF TypeOK, Win, Claims, States
<1> QED BY <1>1, <1>2, <1>3

(* Every step of the slots is of one of four kinds, as far as leases go. *)

Grants(G, f) ==
  /\ G \in SUBSET pass.waiting
  /\ Winners(G, pass.waiting)
  /\ f \in [G -> 1..cap]
  /\ Anchors(f, G)
  /\ Win(G, f)
  /\ due' = due \cup Fires(G)
  /\ pass' = NoPass
  /\ UNCHANGED <<cap, live, agent, before, crashes>>

LEMMA CommitGrants ==
  ASSUME GrantCommit \/ ClaimCommit
  PROVE  \E G, f : Grants(G, f)
BY Zenon DEF GrantCommit, ClaimCommit, Grants

LEMMA FiresType ==
  ASSUME TypeOK, NEW G \in SUBSET pass.waiting
  PROVE  Fires(G) \in SUBSET Jobs
BY DEF TypeOK, Fires, Passes, Jobs

LEMMA AgentType ==
  ASSUME TypeOK, NEW a \in Agents, NEW on \in BOOLEAN
  PROVE  /\ [agent EXCEPT ![a].live = on] \in [Agents -> AgentRows]
         /\ [agent EXCEPT ![a].halt = on] \in [Agents -> AgentRows]
         /\ [agent EXCEPT ![a].frozen = on] \in [Agents -> AgentRows]
         /\ [agent EXCEPT ![a].reach = on] \in [Agents -> AgentRows]
         /\ [agent EXCEPT ![a].live = on, ![a].halt = FALSE] \in [Agents -> AgentRows]
<1> USE DEF TypeOK
<1>1. /\ [agent[a] EXCEPT !.live = on] \in AgentRows
      /\ [agent[a] EXCEPT !.halt = on] \in AgentRows
      /\ [agent[a] EXCEPT !.frozen = on] \in AgentRows
      /\ [agent[a] EXCEPT !.reach = on] \in AgentRows
      /\ [agent[a] EXCEPT !.live = on, !.halt = FALSE] \in AgentRows
  BY DEF AgentRows
<1> QED BY <1>1

LEMMA TypeStep ==
  ASSUME TypeOK, ActsOnDogs, [Next]_vars
  PROVE  TypeOK'
<1> USE DEF TypeOK
<1>1. ASSUME NEW r \in Requests, NEW a \in Agents, NEW k \in 1..MaxCap, NEW inline \in BOOLEAN, CreateBegin(r, a, k, inline)
      PROVE  TypeOK'
  BY <1>1, StampedType DEF CreateBegin, Claims, States, Owners, Jobs
<1>2. ASSUME NEW r \in Requests, ClaimRefused(r)
      PROVE  TypeOK'
  BY <1>2, ForgetType DEF ClaimRefused, Jobs
<1>3. ASSUME NEW r \in Requests, ClaimBegin(r)
      PROVE  TypeOK'
  BY <1>3 DEF ClaimBegin, Passes, Refires
<1>4. ASSUME GrantBegin
      PROVE  TypeOK'
  BY <1>4 DEF GrantBegin, Passes, Refires
<1>5. ASSUME NEW G, NEW f, Grants(G, f)
      PROVE  TypeOK'
  BY <1>5, WinType, FiresType DEF Grants, NoPass, Passes
<1>6. ASSUME ClaimRollback
      PROVE  TypeOK'
  BY <1>6 DEF ClaimRollback, Jobs, NoPass, Passes
<1>7. ASSUME GrantFails
      PROVE  TypeOK'
  BY <1>7 DEF GrantFails, NoPass, Passes
<1>8. ASSUME NEW r \in Requests, Insert(r)
      PROVE  TypeOK'
  <2>1. CASE Admit(claim[r].owner, claim[r].n, {})
    BY <1>8, <2>1, SetStateType DEF Insert, Jobs, States
  <2>2. CASE ~Admit(claim[r].owner, claim[r].n, {})
    BY <1>8, <2>2, ForgetType DEF Insert, Jobs
  <2> QED BY <1>8, <2>1, <2>2 DEF Insert
<1>9. ASSUME NEW r \in Requests, NEW k \in 1..MaxCap, SlotHold(r, k)
      PROVE  TypeOK'
  BY <1>9, StampedType DEF SlotHold, Claims, States, Owners, Jobs
<1>10. ASSUME NEW r \in Requests, Fire(r)
      PROVE  TypeOK'
  BY <1>10, SetStateType DEF Fire, States
<1>11. ASSUME NEW r \in Requests, FireFails(r)
      PROVE  TypeOK'
  BY <1>11 DEF FireFails
<1>12. ASSUME NEW r \in Requests, Release(r)
      PROVE  TypeOK'
  BY <1>12, EndLeasesType DEF Release, Jobs
<1>13. ASSUME NEW r \in Requests, ReleaseUserHold(r)
      PROVE  TypeOK'
  BY <1>13, EndLeasesType DEF ReleaseUserHold, Jobs
<1>14. ASSUME CheckHolders
      PROVE  TypeOK'
  BY <1>14, EndLeasesType DEF CheckHolders, Jobs
<1>15. ASSUME NEW a \in Agents, DeathEnd(a)
      PROVE  TypeOK'
  BY <1>15, EndLeasesType DEF DeathEnd, Jobs
<1>16. ASSUME NEW a \in Agents, RecheckHolder(a)
      PROVE  TypeOK'
  BY <1>16 DEF RecheckHolder, Jobs
<1>17. ASSUME NEW a \in Agents, DeathRead(a)
      PROVE  TypeOK'
  BY <1>17 DEF DeathRead, Jobs
<1>18. ASSUME NEW r \in Requests, IdleRemind(r)
      PROVE  TypeOK'
  BY <1>18, BoundAssumption DEF IdleRemind
<1>18a. ASSUME NEW r \in Requests, IdlePage(r)
      PROVE  TypeOK'
  BY <1>18a DEF IdlePage, Jobs
<1>19. ASSUME NEW r \in Requests, IdleReclaim(r)
      PROVE  TypeOK'
  BY <1>19, EndLeasesType DEF IdleReclaim, Jobs
<1>20. ASSUME NEW a \in Agents, SlotUnqueue(a)
      PROVE  TypeOK'
  BY <1>20, SetStateType DEF SlotUnqueue, States, Jobs
<1>21. ASSUME NEW r \in Requests, SlotCancel(r)
      PROVE  TypeOK'
  BY <1>21, SetStateType DEF SlotCancel, States, Jobs
<1>22. ASSUME NEW r \in Requests, NEW verb \in {"pause", "remove"}, ActBegin(r, verb)
      PROVE  TypeOK'
  BY <1>22 DEF ActBegin, Jobs
<1>23. ASSUME NEW r \in Requests, NEW verb \in {"pause", "remove"}, ActWrite(r, verb)
      PROVE  TypeOK'
  <2>1. claim' \in [Requests -> Claims]
    BY <1>23, SetStateType DEF ActWrite, States
  <2>2. claim[r].owner \in Agents
    BY <1>23 DEF ActWrite, ActsOnDogs, Claims, Owners
  <2> QED BY <1>23, <2>1, <2>2 DEF ActWrite, Jobs
<1>24. ASSUME NEW r \in Requests, ResumeSlot(r)
      PROVE  TypeOK'
  BY <1>24, SetStateType, StampedType DEF ResumeSlot, States, Jobs
<1>25. ASSUME NEW r \in Requests, NEW k \in 1..MaxCap, Edit(r, k)
      PROVE  TypeOK'
  BY <1>25, StampedType DEF Edit, Claims
<1>26. ASSUME NEW a \in Agents, NEW on \in BOOLEAN, SetHalt(a, on)
      PROVE  TypeOK'
  <2>1. agent' \in [Agents -> AgentRows]
    BY <1>26, AgentType, Zenon DEF SetHalt
  <2>2. due' \in SUBSET Jobs
    BY <1>26 DEF SetHalt, Jobs
  <2> QED BY <1>26, <2>1, <2>2 DEF SetHalt
<1>27. ASSUME NEW a \in Agents, FreezeTurn(a)
      PROVE  TypeOK'
  <2>1. agent' \in [Agents -> AgentRows]
    BY <1>27, AgentType, Zenon DEF FreezeTurn
  <2>2. due' \in SUBSET Jobs
    BY <1>27 DEF FreezeTurn, Jobs
  <2> QED BY <1>27, <2>1, <2>2 DEF FreezeTurn
<1>28. ASSUME NEW a \in Agents, FreezeNoAccount(a)
      PROVE  TypeOK'
  <2>1. agent' \in [Agents -> AgentRows]
    BY <1>28, AgentType, Zenon DEF FreezeNoAccount
  <2>2. due' \in SUBSET Jobs
    BY <1>28 DEF FreezeNoAccount, Jobs
  <2> QED BY <1>28, <2>1, <2>2 DEF FreezeNoAccount
<1>29. ASSUME NEW a \in Agents, Thaw(a)
      PROVE  TypeOK'
  <2>1. agent' \in [Agents -> AgentRows]
    BY <1>29, AgentType, Zenon DEF Thaw
  <2>2. due' \in SUBSET Jobs
    BY <1>29 DEF Thaw, Jobs
  <2> QED BY <1>29, <2>1, <2>2 DEF Thaw
<1>29a. ASSUME NEW a \in Agents, NEW on \in BOOLEAN, UserHalt(a, on)
      PROVE  TypeOK'
  <2>1. agent' \in [Agents -> AgentRows]
    BY <1>29a, AgentType, Zenon DEF UserHalt
  <2> QED BY <1>29a, <2>1 DEF UserHalt
<1>29b. ASSUME NEW a \in Agents, FreezeStranded(a)
      PROVE  TypeOK'
  <2>1. agent' \in [Agents -> AgentRows]
    BY <1>29b, AgentType, Zenon DEF FreezeStranded
  <2> QED BY <1>29b, <2>1 DEF FreezeStranded
<1>29c. ASSUME NEW a \in Agents, ContinueOn(a)
      PROVE  TypeOK'
  <2>1. agent' \in [Agents -> AgentRows]
    BY <1>29c, AgentType, Zenon DEF ContinueOn
  <2> QED BY <1>29c, <2>1 DEF ContinueOn
<1>30. ASSUME NEW a \in Agents, TurnDies(a)
      PROVE  TypeOK'
  BY <1>30 DEF TurnDies, Jobs
<1>31. ASSUME NEW a \in Agents, Retire(a)
      PROVE  TypeOK'
  <2>1. agent' \in [Agents -> AgentRows]
    BY <1>31, AgentType, Zenon DEF Retire
  <2>2. due' \in SUBSET Jobs
    BY <1>31 DEF Retire, Jobs
  <2>3. claim' \in [Requests -> Claims]
    BY <1>31, SetStateType DEF Retire, States
  <2> QED BY <1>31, <2>1, <2>2, <2>3 DEF Retire
<1>32. ASSUME NEW a \in Agents, Rehire(a)
      PROVE  TypeOK'
  <2>1. agent' \in [Agents -> AgentRows]
    BY <1>32, AgentType, Zenon DEF Rehire
  <2>2. due' \in SUBSET Jobs
    BY <1>32 DEF Rehire, Jobs
  <2>3. claim' \in [Requests -> Claims]
    BY <1>32, SetStateType DEF Rehire, States
  <2> QED BY <1>32, <2>1, <2>2, <2>3 DEF Rehire
<1>33. ASSUME NEW a \in Agents, Move(a)
      PROVE  TypeOK'
  <2>1. agent' \in [Agents -> AgentRows]
    BY <1>33, AgentType, Zenon DEF Move
  <2>2. due' \in SUBSET Jobs
    BY <1>33 DEF Move, Jobs
  <2> QED BY <1>33, <2>1, <2>2 DEF Move
<1>34. ASSUME NEW a \in Agents, AfterMove(a)
      PROVE  TypeOK'
  BY <1>34 DEF AfterMove, Jobs
<1>35. ASSUME DropUnreached
      PROVE  TypeOK'
  BY <1>35, SetStateType DEF DropUnreached, States, Jobs
<1>36. ASSUME NEW c \in 0..MaxCap, SetSlots(c)
      PROVE  TypeOK'
  BY <1>36 DEF SetSlots, Jobs
<1>37. ASSUME NEW on \in BOOLEAN, SetProject(on)
      PROVE  TypeOK'
  BY <1>37 DEF SetProject
<1>38. ASSUME Crash
      PROVE  TypeOK'
  BY <1>38, ForgetType, BoundAssumption DEF Crash, Jobs, NoPass, Passes
<1>39. ASSUME UNCHANGED vars
      PROVE  TypeOK'
  BY <1>39 DEF vars
<1> QED
  BY <1>1, <1>2, <1>3, <1>4, <1>5, <1>6, <1>7, <1>8, <1>9, <1>10, <1>11, <1>12, <1>13,
     <1>14, <1>15, <1>16, <1>17, <1>18, <1>18a, <1>19, <1>20, <1>21, <1>22, <1>23, <1>24, <1>25,
     <1>26, <1>27, <1>28, <1>29, <1>29a, <1>29b, <1>29c, <1>30, <1>31, <1>32, <1>33, <1>34, <1>35, <1>36, <1>37,
     <1>38, <1>39, CommitGrants
     DEF Next, Work, Calls, Events

(* What the updates do to one claim. *)

LEMMA SetStateEffect ==
  ASSUME TypeOK, NEW S, NEW st, SetState(S, st)
  PROVE  \A r \in Requests : /\ claim'[r].owner = claim[r].owner
                             /\ claim'[r].n = claim[r].n
                             /\ claim'[r].lease = claim[r].lease
                             /\ claim'[r].st = IF r \in S THEN st ELSE claim[r].st
BY DEF TypeOK, SetState, Claims

LEMMA InlineFields ==
  ASSUME NEW c \in Claims, NEW d, d = [c EXCEPT !.st = "inline"]
  PROVE  d.owner = c.owner /\ d.n = c.n /\ d.lease = c.lease /\ d.st = "inline"
BY DEF Claims

LEMMA GrantsEffect ==
  ASSUME TypeOK, NEW G, NEW f, Grants(G, f)
  PROVE  /\ G \subseteq Requests /\ G \subseteq pass.waiting
         /\ \A r \in G : slot'[r] = f[r] /\ slot'[r] \in 1..cap
         /\ \A r \in Requests \ G : slot'[r] = slot[r] /\ claim'[r] = claim[r]
         /\ \A r \in G : /\ claim'[r].owner = claim[r].owner
                         /\ claim'[r].n = claim[r].n
                         /\ r \in pass.inline => /\ claim'[r].st = "inline"
                                                 /\ claim'[r].lease = claim[r].lease
                         /\ r \notin pass.inline => /\ claim'[r].st \in {claim[r].st, "spent"}
                                                    /\ claim'[r].lease
<1>1. G \subseteq Requests /\ G \subseteq pass.waiting /\ f \in [G -> 1..cap]
  BY DEF TypeOK, Passes, Grants
<1>2. slot' = [r \in Requests |-> IF r \in G THEN f[r] ELSE slot[r]]
  BY Zenon DEF Grants, Win
<1>3. claim' = [r \in Requests |->
                 IF r \notin G THEN claim[r]
                 ELSE IF r \in pass.inline THEN [claim[r] EXCEPT !.st = "inline"]
                 ELSE [claim[r] EXCEPT !.lease = TRUE,
                                       !.st = IF claim[r].owner = User THEN "spent" ELSE @]]
  BY Zenon DEF Grants, Win
<1>4. \A r \in G \cap pass.inline : claim'[r] = [claim[r] EXCEPT !.st = "inline"]
  BY <1>1, <1>3
<1>5. \A r \in G \ pass.inline :
        claim'[r] = [claim[r] EXCEPT !.lease = TRUE,
                                     !.st = IF claim[r].owner = User THEN "spent" ELSE @]
  BY <1>1, <1>3
<1>6. \A r \in Requests : claim[r] \in Claims
  BY DEF TypeOK
<1>7. \A r \in G \cap pass.inline : /\ claim'[r].owner = claim[r].owner
                                    /\ claim'[r].n = claim[r].n
                                    /\ claim'[r].lease = claim[r].lease
                                    /\ claim'[r].st = "inline"
  <2> SUFFICES ASSUME NEW r \in G \cap pass.inline
               PROVE  /\ claim'[r].owner = claim[r].owner
                      /\ claim'[r].n = claim[r].n
                      /\ claim'[r].lease = claim[r].lease
                      /\ claim'[r].st = "inline"
    OBVIOUS
  <2>1. claim'[r] = [claim[r] EXCEPT !.st = "inline"]
    BY <1>4
  <2>2. claim[r] \in Claims
    BY <1>1, <1>6
  <2> QED BY <2>1, <2>2, InlineFields
<1>8. \A r \in G \ pass.inline : /\ claim'[r].owner = claim[r].owner
                                 /\ claim'[r].n = claim[r].n
                                 /\ claim'[r].lease
                                 /\ claim'[r].st \in {claim[r].st, "spent"}
  <2> SUFFICES ASSUME NEW r \in G \ pass.inline
               PROVE  /\ claim'[r].owner = claim[r].owner
                      /\ claim'[r].n = claim[r].n
                      /\ claim'[r].lease
                      /\ claim'[r].st \in {claim[r].st, "spent"}
    OBVIOUS
  <2>1. PICK x \in {claim[r].st, "spent"} :
          claim'[r] = [claim[r] EXCEPT !.lease = TRUE, !.st = x]
    <3>1. CASE claim[r].owner = User
      BY <3>1, <1>5, Zenon
    <3>2. CASE claim[r].owner # User
      BY <3>2, <1>5, Zenon
    <3> QED BY <3>1, <3>2
  <2>2. claim[r] \in Claims
    BY <1>1, <1>6
  <2> DEFINE d == claim'[r]
  <2>3. d = [claim[r] EXCEPT !.lease = TRUE, !.st = x]
    BY <2>1
  <2> HIDE DEF d
  <2>4. d.owner = claim[r].owner /\ d.n = claim[r].n /\ d.lease /\ d.st = x
    BY <2>2, <2>3 DEF Claims
  <2> QED BY <2>4, Zenon DEF d
<1> QED BY <1>1, <1>2, <1>3, <1>7, <1>8

LEMMA GrantsOnlyFire ==
  ASSUME NEW G, NEW f, Grants(G, f), NEW r
  PROVE  /\ <<"claim", r>> \in due' <=> <<"claim", r>> \in due
         /\ <<"insert", r>> \in due' <=> <<"insert", r>> \in due
         /\ <<"pause", r>> \in due' <=> <<"pause", r>> \in due
         /\ <<"remove", r>> \in due' <=> <<"remove", r>> \in due
<1>1. \A j \in Fires(G) : j[1] = "fire"
  BY DEF Fires
<1>2. due' = due \cup Fires(G)
  BY DEF Grants
<1> QED BY <1>1, <1>2

LEMMA InsertDue ==
  ASSUME NEW r, Insert(r), NEW s
  PROVE  /\ <<"claim", s>> \in due' => <<"claim", s>> \in due
         /\ <<"insert", s>> \in due' => <<"insert", s>> \in due /\ s # r
         /\ <<"pause", s>> \in due' => <<"pause", s>> \in due
         /\ <<"remove", s>> \in due' => <<"remove", s>> \in due
<1>1. due' \in {(due \ {<<"insert", r>>}) \cup {Grant}, due \ {<<"insert", r>>}}
  BY DEF Insert
<1> QED BY <1>1

LEMMA ActWriteDue ==
  ASSUME NEW r, NEW verb, ActWrite(r, verb), NEW s
  PROVE  /\ <<"claim", s>> \in due' => <<"claim", s>> \in due
         /\ <<"insert", s>> \in due' => <<"insert", s>> \in due
         /\ <<"pause", s>> \in due' => <<"pause", s>> \in due
         /\ <<"remove", s>> \in due' => <<"remove", s>> \in due
<1>1. due' = (due \ {<<verb, r>>}) \cup {<<"recheck", claim[r].owner>>}
  BY DEF ActWrite
<1> QED BY <1>1

(* The inductive invariant. *)

LEMMA InvInit == Init => IInv
BY DEF Init, IInv, LeaseMarked, NewUnmarked, LineUnmarked, PassLocal, CallsOnNew, ActsOnDogs,
       NoClaim, NoPass

LEMMA InvStep ==
  ASSUME TypeOK, IInv, [Next]_vars
  PROVE  IInv'
<1> USE DEF TypeOK, IInv, LeaseMarked, NewUnmarked, LineUnmarked, PassLocal, CallsOnNew, ActsOnDogs,
            Granted, Unlocked
<1> DEFINE Called(s) == <<"claim", s>> \in due \/ <<"insert", s>> \in due
           Acted(s) == <<"pause", s>> \in due \/ <<"remove", s>> \in due
<1>a. pass.waiting \subseteq Requests /\ pass.inline \subseteq Requests
  BY DEF Passes
<1>0. \A s \in Requests :
        /\ Called(s) => claim[s].st = "creating"
        /\ Acted(s) => claim[s].owner # User /\ claim[s].st \notin {"none", "creating", "inline"}
  BY Zenon
<1>1. ASSUME NEW r \in Requests, NEW a \in Agents, NEW k \in 1..MaxCap, NEW inline \in BOOLEAN, CreateBegin(r, a, k, inline)
      PROVE  IInv'
  BY <1>1 DEF CreateBegin, Passes
<1>2. ASSUME NEW r \in Requests, ClaimRefused(r)
      PROVE  IInv'
  BY <1>2 DEF ClaimRefused, Forget, NoClaim, Passes
<1>3. ASSUME NEW r \in Requests, ClaimBegin(r)
      PROVE  IInv'
  BY <1>3 DEF ClaimBegin, Eligible, InLine, Passes, Claims
<1>4. ASSUME GrantBegin
      PROVE  IInv'
  BY <1>4 DEF GrantBegin, Eligible, InLine, Passes, Claims
<1>5. ASSUME NEW G, NEW f, Grants(G, f)
      PROVE  IInv'
  <2>1. pass' = NoPass
    BY <1>5 DEF Grants
  <2>2. \A r \in Requests : /\ claim'[r].owner = claim[r].owner
                            /\ slot'[r] # 0 => Granted(r)'
                            /\ claim'[r].st \in {claim[r].st, "spent", "inline"}
                            /\ claim'[r].st # claim[r].st => r \in G
    BY <1>5, GrantsEffect
  <2>3. LeaseMarked' /\ PassLocal' /\ LineUnmarked'
    BY <2>1, <2>2 DEF NoPass
  <2>4. NewUnmarked'
    BY <1>5, GrantsEffect
  <2>5. ASSUME NEW r \in Requests
        PROVE  /\ Called(r)' = Called(r) /\ Acted(r)' = Acted(r)
               /\ ~(<<"claim", r>> \in due' /\ <<"insert", r>> \in due')
    BY <1>5, GrantsOnlyFire, Zenon
  <2>6. ASSUME NEW r \in Requests
        PROVE  /\ Called(r) => claim'[r].st = "creating"
               /\ Acted(r) => claim'[r].owner # User /\ claim'[r].st \notin {"none", "creating", "inline"}
    <3>1. r \in G => ~Called(r)
      BY <1>5, GrantsEffect
    <3>2. r \in G /\ r \in pass.inline => ~Acted(r)
      BY <1>5
    <3> HIDE DEF Called, Acted
    <3> QED BY <1>5, <3>1, <3>2, GrantsEffect DEF Called, Acted
  <2>7. CallsOnNew' /\ ActsOnDogs'
    BY <2>5, <2>6
  <2> QED BY <2>3, <2>4, <2>7
<1>6. ASSUME ClaimRollback
      PROVE  IInv'
  BY <1>6 DEF ClaimRollback, NoPass, Passes
<1>7. ASSUME GrantFails
      PROVE  IInv'
  BY <1>7 DEF GrantFails, NoPass, Passes
<1>8. ASSUME NEW r \in Requests, Insert(r)
      PROVE  IInv'
  <2>1. pass' = pass /\ slot' = slot /\ pass.kind = "none" /\ claim[r].st = "creating"
    BY <1>8 DEF Insert
  <2>2. <<"claim", r>> \notin due
    BY <1>8 DEF Insert
  <2>3. CASE SetState({r}, "armed")
    <3>1. LeaseMarked' /\ NewUnmarked' /\ PassLocal' /\ LineUnmarked'
      BY <2>1, <2>3, SetStateEffect
    <3>2. ASSUME NEW s \in Requests
          PROVE  /\ Called(s)' => Called(s) /\ s # r
                 /\ Acted(s)' => Acted(s) /\ s # r
                 /\ ~(<<"claim", s>> \in due' /\ <<"insert", s>> \in due')
      BY <1>8, <2>1, <2>2, InsertDue, Zenon
    <3>3. \A s \in Requests : s # r => /\ claim'[s].st = claim[s].st
                                       /\ claim'[s].owner = claim[s].owner
      BY <2>3, SetStateEffect
    <3> HIDE DEF Called, Acted
    <3>4. \A s \in Requests : /\ Called(s)' => claim'[s].st = "creating"
                              /\ Acted(s)' => claim'[s].owner # User
                                              /\ claim'[s].st \notin {"none", "creating", "inline"}
      BY <1>0, <3>2, <3>3
    <3> QED BY <3>1, <3>2, <3>4 DEF Called, Acted
  <2>4. CASE Forget({r})
    BY <1>8, <2>1, <2>2, <2>4, InsertDue DEF Forget, NoClaim
  <2> QED BY <1>8, <2>3, <2>4 DEF Insert
<1>9. ASSUME NEW r \in Requests, NEW k \in 1..MaxCap, SlotHold(r, k)
      PROVE  IInv'
  BY <1>9 DEF SlotHold, Claims, Passes, UserAssumption
<1>10. ASSUME NEW r \in Requests, Fire(r)
      PROVE  IInv'
  BY <1>10 DEF Fire, SetState, Claims, Passes
<1>11. ASSUME NEW r \in Requests, FireFails(r)
      PROVE  IInv'
  BY <1>11 DEF FireFails
<1>12. ASSUME NEW r \in Requests, Release(r)
      PROVE  IInv'
  BY <1>12 DEF Release, EndLeases
<1>13. ASSUME NEW r \in Requests, ReleaseUserHold(r)
      PROVE  IInv'
  BY <1>13 DEF ReleaseUserHold, EndLeases
<1>14. ASSUME CheckHolders
      PROVE  IInv'
  BY <1>14 DEF CheckHolders, EndLeases
<1>15. ASSUME NEW a \in Agents, DeathEnd(a)
      PROVE  IInv'
  BY <1>15 DEF DeathEnd, EndLeases
<1>16. ASSUME NEW a \in Agents, RecheckHolder(a)
      PROVE  IInv'
  BY <1>16 DEF RecheckHolder
<1>17. ASSUME NEW a \in Agents, DeathRead(a)
      PROVE  IInv'
  BY <1>17 DEF DeathRead
<1>18. ASSUME NEW r \in Requests, IdleRemind(r)
      PROVE  IInv'
  BY <1>18 DEF IdleRemind
<1>18a. ASSUME NEW r \in Requests, IdlePage(r)
      PROVE  IInv'
  BY <1>18a DEF IdlePage
<1>19. ASSUME NEW r \in Requests, IdleReclaim(r)
      PROVE  IInv'
  BY <1>19 DEF IdleReclaim, EndLeases
<1>20. ASSUME NEW a \in Agents, SlotUnqueue(a)
      PROVE  IInv'
  BY <1>20 DEF SlotUnqueue, Pending, SetState, Claims, Passes
<1>21. ASSUME NEW r \in Requests, SlotCancel(r)
      PROVE  IInv'
  BY <1>21 DEF SlotCancel, Pending, SetState, Claims, Passes
<1>22. ASSUME NEW r \in Requests, NEW verb \in {"pause", "remove"}, ActBegin(r, verb)
      PROVE  IInv'
  BY <1>22 DEF ActBegin
<1>23. ASSUME NEW r \in Requests, NEW verb \in {"pause", "remove"}, ActWrite(r, verb)
      PROVE  IInv'
  <2>1. /\ claim[r].st \notin {"none", "creating", "inline"}
        /\ pass' = pass /\ slot' = slot
    BY <1>23 DEF ActWrite
  <2>2. /\ \A s \in Requests : /\ claim'[s].owner = claim[s].owner
                               /\ claim'[s].lease = claim[s].lease
                               /\ s # r => claim'[s].st = claim[s].st
        /\ claim'[r].st \in {"paused", "removed"}
    BY <1>23, SetStateEffect DEF ActWrite
  <2>3. LeaseMarked' /\ NewUnmarked' /\ PassLocal'
    BY <2>1, <2>2, <1>a
  <2>5. ASSUME NEW s \in Requests
        PROVE  /\ Called(s)' => Called(s) /\ s # r
               /\ Acted(s)' => Acted(s)
               /\ ~(<<"claim", s>> \in due' /\ <<"insert", s>> \in due')
    BY <1>23, <2>1, ActWriteDue, Zenon
  <2>4. LineUnmarked'
    <3>1. \A s \in pass.waiting \cup pass.inline : ~Called(s)'
      BY <2>5, <1>a
    <3>2. \A s \in pass.waiting \cup pass.inline :
            /\ claim'[s].lease = claim[s].lease
            /\ s = r => claim'[s].st \in {"paused", "removed"}
            /\ s # r => claim'[s].st = claim[s].st
      BY <2>2, <1>a
    <3>3. ASSUME NEW s \in pass.waiting \cup pass.inline
          PROVE  /\ ~Granted(s)'
                 /\ claim'[s].st # "none"
                 /\ s \notin pass.inline => claim'[s].st # "creating"
      <4>1. ~claim[s].lease /\ claim[s].st # "inline" /\ claim[s].st # "none"
            /\ (s \notin pass.inline => claim[s].st # "creating")
        BY <3>3
      <4> QED BY <3>2, <4>1
    <3> QED BY <2>1, <3>1, <3>3
  <2> HIDE DEF Called, Acted
  <2>6. \A s \in Requests : /\ Called(s)' => claim'[s].st = "creating"
                            /\ Acted(s)' => claim'[s].owner # User
                                            /\ claim'[s].st \notin {"none", "creating", "inline"}
    BY <1>0, <2>1, <2>2, <2>5
  <2> QED BY <2>3, <2>4, <2>5, <2>6 DEF Called, Acted
<1>24. ASSUME NEW r \in Requests, ResumeSlot(r)
      PROVE  IInv'
  BY <1>24 DEF ResumeSlot, SetState, Claims, Passes
<1>25. ASSUME NEW r \in Requests, NEW k \in 1..MaxCap, Edit(r, k)
      PROVE  IInv'
  BY <1>25 DEF Edit, Claims, Passes
<1>26. ASSUME NEW a \in Agents, NEW on \in BOOLEAN, SetHalt(a, on)
      PROVE  IInv'
  BY <1>26 DEF SetHalt
<1>27. ASSUME NEW a \in Agents, FreezeTurn(a)
      PROVE  IInv'
  BY <1>27 DEF FreezeTurn
<1>28. ASSUME NEW a \in Agents, FreezeNoAccount(a)
      PROVE  IInv'
  BY <1>28 DEF FreezeNoAccount
<1>29. ASSUME NEW a \in Agents, Thaw(a)
      PROVE  IInv'
  BY <1>29 DEF Thaw
<1>29a. ASSUME NEW a \in Agents, NEW on \in BOOLEAN, UserHalt(a, on)
      PROVE  IInv'
  BY <1>29a DEF UserHalt
<1>29b. ASSUME NEW a \in Agents, FreezeStranded(a)
      PROVE  IInv'
  BY <1>29b DEF FreezeStranded
<1>29c. ASSUME NEW a \in Agents, ContinueOn(a)
      PROVE  IInv'
  BY <1>29c DEF ContinueOn
<1>30. ASSUME NEW a \in Agents, TurnDies(a)
      PROVE  IInv'
  BY <1>30 DEF TurnDies
<1>31. ASSUME NEW a \in Agents, Move(a)
      PROVE  IInv'
  BY <1>31 DEF Move
<1>32. ASSUME NEW a \in Agents, AfterMove(a)
      PROVE  IInv'
  BY <1>32 DEF AfterMove
<1>33. ASSUME NEW a \in Agents, Retire(a)
      PROVE  IInv'
  BY <1>33 DEF Retire, SetState, Claims, Passes
<1>34. ASSUME NEW a \in Agents, Rehire(a)
      PROVE  IInv'
  BY <1>34 DEF Rehire, SetState, Claims, Passes
<1>35. ASSUME DropUnreached
      PROVE  IInv'
  BY <1>35 DEF DropUnreached, Pending, SetState, Claims, Passes
<1>36. ASSUME NEW c \in 0..MaxCap, SetSlots(c)
      PROVE  IInv'
  BY <1>36 DEF SetSlots
<1>37. ASSUME NEW on \in BOOLEAN, SetProject(on)
      PROVE  IInv'
  BY <1>37 DEF SetProject
<1>38. ASSUME Crash
      PROVE  IInv'
  BY <1>38 DEF Crash, Forget, NoClaim, NoPass, Passes
<1>39. ASSUME UNCHANGED vars
      PROVE  IInv'
  BY <1>39 DEF vars
<1> HIDE DEF TypeOK, IInv, Granted, Unlocked
<1> QED
  BY <1>1, <1>2, <1>3, <1>4, <1>5, <1>6, <1>7, <1>8, <1>9, <1>10, <1>11, <1>12, <1>13,
     <1>14, <1>15, <1>16, <1>17, <1>18, <1>18a, <1>19, <1>20, <1>21, <1>22, <1>23, <1>24, <1>25,
     <1>26, <1>27, <1>28, <1>29, <1>29a, <1>29b, <1>29c, <1>30, <1>31, <1>32, <1>33, <1>34, <1>35, <1>36, <1>37,
     <1>38, <1>39, CommitGrants
     DEF Next, Work, Calls, Events

(* The values of every variable keep their types: a permit count, an anchor, *)
(* the line and the promised work are never out of range.                    *)
THEOREM TypeCorrect == Spec => []TypeOK
<1>1. Init => TypeOK /\ IInv
  BY TypeInit, InvInit
<1>2. TypeOK /\ IInv /\ [Next]_vars => (TypeOK /\ IInv)'
  BY TypeStep, InvStep DEF IInv
<1> QED BY <1>1, <1>2, PTL DEF Spec

(* A lease is always marked on its claim, and a marked claim is never waiting *)
(* again, whatever pauses, removals, retirements and crashes come between     *)
(* the two steps of a grant pass.                                             *)
THEOREM MarksKept == Spec => []IInv
<1>1. Init => TypeOK /\ IInv
  BY TypeInit, InvInit
<1>2. TypeOK /\ IInv /\ [Next]_vars => (TypeOK /\ IInv)'
  BY TypeStep, InvStep DEF IInv
<1> QED BY <1>1, <1>2, PTL DEF Spec
=============================================================================
