------------------------- MODULE SlotsWakeupsProofs -------------------------
(***************************************************************************)
(* What is promised after a commit and kept in memory only (`due`): that   *)
(* no wakeup of the line is lost, no granted dog stays unfired, and no     *)
(* holder keeps a lease it cannot hold.  A hypothesis on Env names the     *)
(* environment in which the code keeps the promise.                        *)
(***************************************************************************)
EXTENDS SlotsSafetyProofs

USE DEF Grant, Check, Drop

(* An agent stands in the line at most once. *)

Standing(r) == claim[r].st \in {"armed", "shelved"} /\ ~claim[r].lease

\* no claim comes into the line
NoneJoins == \A r \in Requests : Standing(r)' => Standing(r) /\ claim'[r].owner = claim[r].owner

\* one does, and no other claim of its owner is there
Joins(r) == \A s \in Requests \ {r} :
              /\ claim'[s] = claim[s]
              /\ Standing(s) /\ claim'[r].owner \in Agents => claim[s].owner # claim'[r].owner

LEMMA LineEntry ==
  ASSUME TypeOK, IInv, [Next]_vars
  PROVE  NoneJoins \/ \E r \in Requests : Joins(r)
<1> USE DEF TypeOK, Standing, NoneJoins
<1>m. \A r \in Requests : claim[r].st \in {"none", "creating"} => ~Standing(r)
  OBVIOUS
<1>1. ASSUME NEW r \in Requests, NEW a \in Agents, NEW k \in 1..MaxCap, NEW inline \in BOOLEAN, CreateBegin(r, a, k, inline)
      PROVE  NoneJoins
  BY <1>1 DEF CreateBegin, Claims
<1>2. ASSUME NEW r \in Requests, ClaimRefused(r)
      PROVE  NoneJoins
  BY <1>2 DEF ClaimRefused, Forget, NoClaim
<1>5. ASSUME NEW G, NEW f, Grants(G, f)
      PROVE  NoneJoins
  BY <1>5, GrantsEffect
<1>8. ASSUME NEW r \in Requests, Insert(r)
      PROVE  NoneJoins \/ Joins(r)
  <2>1. CASE Admit(claim[r].owner, claim[r].n, {}) /\ SetState({r}, "armed")
    <3>1. \A s \in Requests \ {r} : claim'[s] = claim[s]
      BY <2>1 DEF SetState
    <3>2. claim'[r].owner = claim[r].owner
      BY <2>1, SetStateEffect
    <3>3. claim[r].owner \in Agents => Pending(claim[r].owner) = {}
      BY <2>1 DEF Admit
    <3> QED BY <3>1, <3>2, <3>3 DEF Joins, Pending
  <2>2. CASE Forget({r})
    BY <2>2 DEF Forget, NoClaim
  <2> QED BY <1>8, <2>1, <2>2 DEF Insert
<1>9. ASSUME NEW r \in Requests, NEW k \in 1..MaxCap, SlotHold(r, k)
      PROVE  Joins(r)
  BY <1>9, UserAssumption DEF SlotHold, Joins
<1>10. ASSUME NEW r \in Requests, Fire(r)
      PROVE  NoneJoins
  BY <1>10, SetStateEffect DEF Fire
<1>19. ASSUME NEW a \in Agents, SlotUnqueue(a)
      PROVE  NoneJoins
  BY <1>19, SetStateEffect DEF SlotUnqueue
<1>20. ASSUME NEW r \in Requests, SlotCancel(r)
      PROVE  NoneJoins
  BY <1>20, SetStateEffect DEF SlotCancel
<1>22. ASSUME NEW r \in Requests, NEW verb \in {"pause", "remove"}, ActWrite(r, verb)
      PROVE  NoneJoins
  BY <1>22, SetStateEffect DEF ActWrite
<1>23. ASSUME NEW r \in Requests, ResumeSlot(r)
      PROVE  Joins(r)
  <2>1. Admit(claim[r].owner, claim[r].n, {r}) /\ SetState({r}, "armed") /\ claim[r].owner \in Agents
    BY <1>23 DEF ResumeSlot
  <2>2. \A s \in Requests \ {r} : claim'[s] = claim[s]
    BY <2>1 DEF SetState
  <2>3. claim'[r].owner = claim[r].owner
    BY <2>1, SetStateEffect
  <2>4. Pending(claim[r].owner) \ {r} = {}
    BY <2>1 DEF Admit
  <2> QED BY <2>2, <2>3, <2>4 DEF Joins, Pending
<1>24. ASSUME NEW r \in Requests, NEW k \in 1..MaxCap, Edit(r, k)
      PROVE  NoneJoins
  BY <1>24 DEF Edit, Claims
<1>32. ASSUME NEW a \in Agents, Retire(a)
      PROVE  NoneJoins
  BY <1>32, SetStateEffect DEF Retire
<1>33. ASSUME NEW a \in Agents, Rehire(a)
      PROVE  NoneJoins
  BY <1>33, SetStateEffect DEF Rehire
<1>34. ASSUME DropUnreached
      PROVE  NoneJoins
  BY <1>34, SetStateEffect DEF DropUnreached
<1>37. ASSUME Crash
      PROVE  NoneJoins
  BY <1>37 DEF Crash, Forget, NoClaim
<1>38. ASSUME claim' = claim
      PROVE  NoneJoins
  BY <1>38
<1>39. ASSUME [Next]_vars
       PROVE  \/ claim' = claim
              \/ Crash \/ DropUnreached
              \/ \E G, f : Grants(G, f)
              \/ \E r \in Requests, a \in Agents, k \in 1..MaxCap, inline \in BOOLEAN : CreateBegin(r, a, k, inline)
              \/ \E r \in Requests : ClaimRefused(r) \/ Insert(r) \/ Fire(r) \/ SlotCancel(r) \/ ResumeSlot(r)
              \/ \E r \in Requests, k \in 1..MaxCap : SlotHold(r, k) \/ Edit(r, k)
              \/ \E r \in Requests, verb \in {"pause", "remove"} : ActWrite(r, verb)
              \/ \E a \in Agents : SlotUnqueue(a) \/ Retire(a) \/ Rehire(a)
  <2>1. ASSUME NEW r \in Requests, \/ ClaimBegin(r) \/ FireFails(r) \/ Release(r) \/ ReleaseUserHold(r)
                                   \/ IdleRemind(r) \/ IdlePage(r) \/ IdleReclaim(r) \/ \E verb : ActBegin(r, verb)
        PROVE  claim' = claim
    BY <2>1 DEF ClaimBegin, FireFails, Release, ReleaseUserHold, IdleRemind, IdlePage, IdleReclaim, ActBegin
  <2>2. ASSUME NEW a \in Agents, \/ RecheckHolder(a) \/ DeathRead(a) \/ DeathEnd(a) \/ AfterMove(a)
                                 \/ FreezeTurn(a) \/ FreezeNoAccount(a) \/ FreezeStranded(a) \/ Thaw(a)
                                 \/ ContinueOn(a) \/ TurnDies(a) \/ Move(a)
                                 \/ \E on : SetHalt(a, on) \/ UserHalt(a, on)
        PROVE  claim' = claim
    BY <2>2 DEF RecheckHolder, DeathRead, DeathEnd, AfterMove, FreezeTurn, FreezeNoAccount, FreezeStranded, Thaw, ContinueOn, TurnDies,
                Move, SetHalt, UserHalt
  <2>3. ASSUME GrantBegin \/ ClaimRollback \/ GrantFails \/ CheckHolders \/ UNCHANGED vars
               \/ (\E c : SetSlots(c)) \/ (\E on : SetProject(on))
        PROVE  claim' = claim
    BY <2>3 DEF GrantBegin, ClaimRollback, GrantFails, CheckHolders, SetSlots, SetProject, vars
  <2> QED BY <1>39, <2>1, <2>2, <2>3, CommitGrants DEF Next, Work, Calls, Events
<1> HIDE DEF TypeOK, Standing, NoneJoins
<1> QED
  BY <1>1, <1>2, <1>5, <1>8, <1>9, <1>10, <1>19, <1>20, <1>22, <1>23, <1>24, <1>32, <1>33, <1>34, <1>37,
     <1>38, <1>39

(* An agent stands in the line at most once, however pauses, removals, resumes,   *)
(* retirements and rehires of its claims overlap.                                 *)
THEOREM LineEnteredOnce == Spec => []OneInLine
<1> DEFINE Same == \A r, s \in Requests : /\ Standing(r) /\ Standing(s)
                                          /\ claim[r].owner \in Agents /\ claim[s].owner = claim[r].owner
                                          => r = s
<1>1. TypeOK => (OneInLine <=> Same)
  BY DEF OneInLine, Pending, Standing
<1>2. Init => Same
  BY DEF Init, NoClaim, Standing
<1>3. ASSUME TypeOK, IInv, Same, [Next]_vars
      PROVE  Same'
  <2>1. CASE NoneJoins
    BY <1>3, <2>1 DEF NoneJoins
  <2>2. ASSUME NEW r \in Requests, Joins(r)
        PROVE  Same'
    BY <1>3, <2>2 DEF Joins, Standing
  <2> QED BY <1>3, <2>1, <2>2, LineEntry
<1>4. TypeOK /\ IInv /\ Same /\ [Next]_vars => Same'
  BY <1>3
<1> HIDE DEF Same
<1> QED BY <1>1, <1>2, <1>4, TypeCorrect, MarksKept, PTL DEF Spec

(* Jobs of some kinds stay when others are done. *)

LEMMA JobsKept ==
  ASSUME NEW D, NEW E, NEW K, \A j \in D : j[1] \in K => j \in E
  PROVE  \A k \in K : \A x : <<k, x>> \in D => <<k, x>> \in E
<1> SUFFICES ASSUME NEW k \in K, NEW x, <<k, x>> \in D PROVE <<k, x>> \in E
  OBVIOUS
<1> DEFINE j == <<k, x>>
<1>1. j[1] = k
  OBVIOUS
<1> HIDE DEF j
<1>2. j \in D
  BY DEF j
<1>3. j \in E
  BY <1>1, <1>2
<1> QED BY <1>3 DEF j

(* A granted dog that keeps its lease is fired. *)

Granting == pass.kind = "grant"

\* a dog to be fired, and what will see to it
Unfired(r) == claim[r].st = "armed" /\ slot[r] # 0 /\ claim[r].owner # User

FireComing(r) == \/ <<"fire", r>> \in due \/ Grant \in due
                 \/ Granting /\ r \in pass.refire

\* no dog is newly unfired, and what was to come still is
FiresWait == \A r \in Requests : Unfired(r)' => Unfired(r) /\ (FireComing(r) => FireComing(r)')

LEMMA FireStep ==
  ASSUME TypeOK, IInv, "dbfail" \notin Env, FireOwed, [Next]_vars
  PROVE  FireOwed'
<1> DEFINE Owed == \A r \in Requests : Unfired(r) => FireComing(r)
<1>0. FireOwed <=> Owed
  BY DEF FireOwed, Unfired, FireComing, Granting
<1>00. FireOwed' <=> Owed'
  BY DEF FireOwed, Unfired, FireComing, Granting
<1>w. FiresWait => Owed'
  BY <1>0 DEF FiresWait
<1>m. \A r \in Requests : claim[r].st \in {"none", "creating"} => slot[r] = 0
  BY DEF IInv, LeaseMarked, NewUnmarked, Granted
<1> HIDE DEF Owed
<1> USE DEF TypeOK, Unfired, FireComing, Granting, FiresWait, Unlocked
<1>1. ASSUME NEW r \in Requests, NEW a \in Agents, NEW k \in 1..MaxCap, NEW inline \in BOOLEAN, CreateBegin(r, a, k, inline)
      PROVE  FiresWait
  BY <1>1 DEF CreateBegin, Claims
<1>2. ASSUME NEW r \in Requests, ClaimRefused(r)
      PROVE  FiresWait
  BY <1>2 DEF ClaimRefused, Forget, NoClaim
<1>3. ASSUME NEW r \in Requests, ClaimBegin(r)
      PROVE  FiresWait
  BY <1>3 DEF ClaimBegin
<1>4. ASSUME GrantBegin
      PROVE  Owed'
  <2>1. \A r \in Requests : Unfired(r)' => r \in pass'.refire
    <3>1. pass'.refire = Refires
      BY <1>4 DEF GrantBegin
    <3>2. \A r \in Requests : Unfired(r) => claim[r].lease
      BY DEF IInv, LeaseMarked, Granted
    <3> QED BY <1>4, <3>1, <3>2 DEF GrantBegin, Refires
  <2>2. pass'.kind = "grant"
    BY <1>4 DEF GrantBegin
  <2> QED BY <2>1, <2>2 DEF Owed
<1>5. ASSUME NEW G, NEW f, Grants(G, f)
      PROVE  Owed'
  <2> SUFFICES ASSUME NEW r \in Requests, Unfired(r)'
               PROVE  FireComing(r)'
    BY DEF Owed
  <2>1. due' = due \cup Fires(G) /\ pass.inline \subseteq Requests
    BY <1>5 DEF Grants, Passes
  <2>2. CASE r \in G
    <3>1. r \notin pass.inline /\ claim[r].owner # User
      BY <1>5, <2>2, GrantsEffect
    <3> QED BY <2>1, <2>2, <3>1 DEF Fires
  <2>3. CASE r \notin G
    <3>1. Unfired(r) /\ claim[r].lease
      BY <1>5, <2>3, GrantsEffect DEF IInv, LeaseMarked, Granted
    <3>2. r \notin pass.inline
      BY <3>1 DEF IInv, PassLocal
    <3>3. FireComing(r)
      BY <1>0, <3>1, FireOwed DEF Owed
    <3> QED BY <2>1, <3>1, <3>2, <3>3 DEF Fires
  <2> QED BY <2>2, <2>3
<1>6. ASSUME ClaimRollback
      PROVE  FiresWait
  BY <1>6 DEF ClaimRollback
<1>8. ASSUME NEW r \in Requests, Insert(r)
      PROVE  FiresWait
  <2>1. claim[r].st = "creating" /\ slot' = slot /\ pass' = pass
    BY <1>8 DEF Insert, IInv, CallsOnNew
  <2>2. \A s \in Requests \ {r} : claim'[s].st \in {claim[s].st, "none"} /\ (claim'[s].st # "none" => claim'[s].owner = claim[s].owner)
    BY <1>8, SetStateEffect DEF Insert, Forget, NoClaim
  <2>3. due \ {<<"insert", r>>} \subseteq due'
    BY <1>8 DEF Insert
  <2>4. \A s \in Requests : FireComing(s) => FireComing(s)'
    BY <2>1, <2>3
  <2>5. \A s \in Requests : Unfired(s)' => Unfired(s)
    BY <1>m, <2>1, <2>2
  <2> QED BY <2>4, <2>5
<1>9. ASSUME NEW r \in Requests, NEW k \in 1..MaxCap, SlotHold(r, k)
      PROVE  FiresWait
  BY <1>9 DEF SlotHold, Claims
<1>10. ASSUME NEW r \in Requests, Fire(r)
      PROVE  FiresWait
  <2>1. claim'[r].st # "armed" /\ (\A s \in Requests : claim'[s].st \in {claim[s].st, "spent"} /\ claim'[s].owner = claim[s].owner)
    BY <1>10, SetStateEffect DEF Fire
  <2>2. due' = due \ {<<"fire", r>>} /\ pass' = pass /\ slot' = slot
    BY <1>10 DEF Fire
  <2>3. \A s \in Requests \ {r} : FireComing(s) => FireComing(s)'
    BY <2>2
  <2> QED BY <2>1, <2>2, <2>3
<1>11. ASSUME \/ \E r \in Requests : FireFails(r)
              \/ GrantFails
       PROVE  FALSE
  BY <1>11 DEF FireFails, GrantFails
\* the claims stay, and what is to be fired still is
<1>12. ASSUME claim' = claim, pass' = pass, \A r \in Requests : slot'[r] # 0 => slot[r] # 0,
              \A j \in due : j[1] \in {"fire", "grant"} => j \in due'
       PROVE  FiresWait
  <2>1. \A r \in Requests : FireComing(r) => FireComing(r)'
    <3> DEFINE K == {"fire", "grant"}
    <3>1. \A k \in K : \A x : <<k, x>> \in due => <<k, x>> \in due'
      <4>1. \A j \in due : j[1] \in K => j \in due'
        BY <1>12
      <4> HIDE DEF K
      <4> QED BY <4>1, JobsKept, Zenon
    <3>2. "fire" \in K /\ "grant" \in K
      OBVIOUS
    <3> HIDE DEF K
    <3>3. \A x : <<"fire", x>> \in due => <<"fire", x>> \in due'
      BY <3>1, <3>2, Zenon
    <3>4. Grant \in due => Grant \in due'
      BY <3>1, <3>2, Zenon
    <3>5. Granting' = Granting /\ pass'.refire = pass.refire
      BY <1>12
    <3> HIDE DEF Granting
    <3> QED BY <3>3, <3>4, <3>5
  <2> QED BY <1>12, <2>1
<1>13. ASSUME NEW r \in Requests, Release(r) \/ ReleaseUserHold(r) \/ IdlePage(r) \/ IdleReclaim(r) \/ IdleRemind(r)
                                  \/ \E verb \in {"pause", "remove"} : ActBegin(r, verb)
       PROVE  FiresWait
  BY <1>12, <1>13 DEF Release, ReleaseUserHold, IdlePage, IdleReclaim, IdleRemind, ActBegin, EndLeases
<1>14. ASSUME CheckHolders \/ (\E c : SetSlots(c)) \/ (\E on : SetProject(on)) \/ UNCHANGED vars
       PROVE  FiresWait
  BY <1>12, <1>14 DEF CheckHolders, EndLeases, SetSlots, SetProject, vars
<1>15. ASSUME NEW a \in Agents, \/ RecheckHolder(a) \/ DeathRead(a) \/ DeathEnd(a) \/ AfterMove(a)
                                \/ FreezeTurn(a) \/ FreezeNoAccount(a) \/ FreezeStranded(a) \/ Thaw(a)
                                \/ ContinueOn(a) \/ TurnDies(a) \/ Move(a)
                                \/ \E on : SetHalt(a, on) \/ UserHalt(a, on)
       PROVE  FiresWait
  <2>1. claim' = claim /\ pass' = pass
    BY <1>15 DEF RecheckHolder, DeathRead, DeathEnd, AfterMove, FreezeTurn, FreezeNoAccount, FreezeStranded, Thaw, ContinueOn,
                 TurnDies, Move, SetHalt, UserHalt
  <2>2. \A r \in Requests : slot'[r] # 0 => slot[r] # 0
    BY <1>15 DEF RecheckHolder, DeathRead, DeathEnd, AfterMove, FreezeTurn, FreezeNoAccount, FreezeStranded, Thaw, ContinueOn,
                 TurnDies, Move, SetHalt, UserHalt, EndLeases
  <2>3. \A j \in due : j[1] \in {"fire", "grant"} => j \in due'
    <3>1. CASE RecheckHolder(a) \/ DeathRead(a) \/ DeathEnd(a) \/ AfterMove(a)
      BY <3>1 DEF RecheckHolder, DeathRead, DeathEnd, AfterMove
    <3>2. CASE \/ FreezeTurn(a) \/ FreezeNoAccount(a) \/ FreezeStranded(a) \/ Thaw(a) \/ ContinueOn(a)
               \/ TurnDies(a) \/ Move(a) \/ \E on : SetHalt(a, on) \/ UserHalt(a, on)
      BY <3>2 DEF FreezeTurn, FreezeNoAccount, FreezeStranded, Thaw, ContinueOn, TurnDies, Move, SetHalt, UserHalt
    <3> QED BY <1>15, <3>1, <3>2
  <2> QED BY <1>12, <2>1, <2>2, <2>3
\* dogs leave the line or move in it
<1>16. ASSUME slot' = slot, pass' = pass,
              \A r \in Requests : claim'[r].st \in {claim[r].st, "removed", "shelved", "paused"} /\ claim'[r].owner = claim[r].owner,
              \A j \in due : j[1] \in {"fire", "grant"} => j \in due'
       PROVE  FiresWait
  <2>1. \A r \in Requests : FireComing(r) => FireComing(r)'
    <3> DEFINE K == {"fire", "grant"}
    <3>1. \A k \in K : \A x : <<k, x>> \in due => <<k, x>> \in due'
      <4>1. \A j \in due : j[1] \in K => j \in due'
        BY <1>16
      <4> HIDE DEF K
      <4> QED BY <4>1, JobsKept, Zenon
    <3>2. "fire" \in K /\ "grant" \in K
      OBVIOUS
    <3> HIDE DEF K
    <3>3. \A x : <<"fire", x>> \in due => <<"fire", x>> \in due'
      BY <3>1, <3>2, Zenon
    <3>4. Grant \in due => Grant \in due'
      BY <3>1, <3>2, Zenon
    <3>5. Granting' = Granting /\ pass'.refire = pass.refire
      BY <1>16
    <3> HIDE DEF Granting
    <3> QED BY <3>3, <3>4, <3>5
  <2> QED BY <1>16, <2>1
<1>17. ASSUME NEW a \in Agents, SlotUnqueue(a) \/ Retire(a)
       PROVE  FiresWait
  <2>1. \A x \in Requests : claim'[x].st \in {claim[x].st, "removed", "shelved", "paused"} /\ claim'[x].owner = claim[x].owner
    BY <1>17, SetStateEffect DEF SlotUnqueue, Retire
  <2>2. slot' = slot /\ pass' = pass /\ due \subseteq due'
    BY <1>17 DEF SlotUnqueue, Retire
  <2> QED BY <1>16, <2>1, <2>2
<1>18. ASSUME NEW r \in Requests, NEW verb \in {"pause", "remove"}, SlotCancel(r) \/ ActWrite(r, verb)
       PROVE  FiresWait
  <2>1. \A x \in Requests : claim'[x].st \in {claim[x].st, "removed", "shelved", "paused"} /\ claim'[x].owner = claim[x].owner
    <3>1. CASE SlotCancel(r)
      BY <3>1, SetStateEffect DEF SlotCancel
    <3>2. CASE ActWrite(r, verb)
      BY <3>2, SetStateEffect DEF ActWrite
    <3> QED BY <1>18, <3>1, <3>2
  <2>2. slot' = slot /\ pass' = pass
    BY <1>18 DEF SlotCancel, ActWrite
  <2>3. \A j \in due : j[1] \in {"fire", "grant"} => j \in due'
    BY <1>18 DEF SlotCancel, ActWrite
  <2> QED BY <1>16, <2>1, <2>2, <2>3
<1>19. ASSUME DropUnreached
       PROVE  FiresWait
  <2>1. \A x \in Requests : claim'[x].st \in {claim[x].st, "removed", "shelved", "paused"} /\ claim'[x].owner = claim[x].owner
    BY <1>19, SetStateEffect DEF DropUnreached
  <2>2. slot' = slot /\ pass' = pass
    BY <1>19, Zenon DEF DropUnreached
  <2>3. due' = (due \ {Drop}) \cup {Check}
    BY <1>19, Zenon DEF DropUnreached
  <2>4. \A j \in due : j[1] \in {"fire", "grant"} => j \in due'
    <3>1. \A j \in due : j[1] # "drop" => j \in due'
      <4>1. \A j \in due : j # Drop => j \in due'
        BY <2>3
      <4>2. Drop[1] = "drop"
        OBVIOUS
      <4> HIDE DEF Drop
      <4> QED BY <4>1, <4>2
    <3> QED BY <3>1
  <2> QED BY <1>16, <2>1, <2>2, <2>4
\* dogs are armed, and a pass is to come
<1>20. ASSUME Grant \in due'
       PROVE  Owed'
  BY <1>20 DEF Owed
<1>21. ASSUME NEW r \in Requests, ResumeSlot(r)
       PROVE  Grant \in due'
  BY <1>21 DEF ResumeSlot
<1>22. ASSUME NEW r \in Requests, NEW k \in 1..MaxCap, Edit(r, k)
      PROVE  FiresWait
  BY <1>22 DEF Edit, Claims
<1>23. ASSUME NEW a \in Agents, Rehire(a)
       PROVE  FiresWait \/ Grant \in due'
  <2> DEFINE S == {r \in Requests : claim[r].owner = a /\ claim[r].st = "shelved"}
  <2>1. S # {} => Grant \in due'
    BY <1>23 DEF Rehire
  <2>2. S = {} => \A r \in Requests : claim'[r].st = claim[r].st /\ claim'[r].owner = claim[r].owner
    BY <1>23, SetStateEffect DEF Rehire
  <2>3. slot' = slot /\ pass' = pass /\ due \subseteq due'
    BY <1>23 DEF Rehire
  <2> QED BY <2>1, <2>2, <2>3
<1>24. ASSUME Crash
       PROVE  Owed'
  <2>1. CASE \E r \in Requests : claim[r].st = "armed" /\ claim[r].owner # User
    BY <1>20, <1>24, <2>1 DEF Crash
  <2>2. CASE \A r \in Requests : ~(claim[r].st = "armed" /\ claim[r].owner # User)
    BY <1>24, <2>2 DEF Crash, Forget, NoClaim, Owed
  <2> QED BY <2>1, <2>2
<1> HIDE DEF TypeOK, Unfired, FireComing, Granting, FiresWait, Unlocked
<1> QED
  BY <1>00, <1>w, <1>1, <1>2, <1>3, <1>4, <1>5, <1>6, <1>8, <1>9, <1>10, <1>11, <1>13, <1>14, <1>15, <1>17,
     <1>18, <1>19, <1>20, <1>21, <1>22, <1>23, <1>24, CommitGrants DEF Next, Work, Calls, Events

(* Every grant reaches its owner, at any moment a crash may come, as long as no   *)
(* database error cuts a pass or a fire short.                                    *)
THEOREM FiresAreOwed ==
  ASSUME "dbfail" \notin Env
  PROVE  Spec => []FireOwed
<1>1. Init => FireOwed
  BY DEF Init, FireOwed, NoClaim
<1>2. TypeOK /\ IInv /\ FireOwed /\ [Next]_vars => FireOwed'
  BY FireStep
<1> QED BY <1>1, <1>2, TypeCorrect, MarksKept, PTL DEF Spec

(* More of what the dogs' states say. *)

LEMMA SetStateVia ==
  ASSUME TypeOK, NEW S, NEW st, SetState(S, st)
  PROVE  \A r \in Requests : claim'[r].via = claim[r].via
BY DEF TypeOK, SetState, Claims

LEMMA GrantsState ==
  ASSUME TypeOK, NEW G, NEW f, Grants(G, f), NEW r \in G \ pass.inline
  PROVE  claim'[r].via = claim[r].via /\ claim'[r].st = IF claim[r].owner = User THEN "spent" ELSE claim[r].st
<1>1. r \in Requests
  BY GrantsEffect
<1>2. claim' = [x \in Requests |->
                 IF x \notin G THEN claim[x]
                 ELSE IF x \in pass.inline THEN [claim[x] EXCEPT !.st = "inline"]
                 ELSE [claim[x] EXCEPT !.lease = TRUE,
                                       !.st = IF claim[x].owner = User THEN "spent" ELSE @]]
  BY Zenon DEF Grants, Win
<1>3. claim'[r] = [claim[r] EXCEPT !.lease = TRUE, !.st = IF claim[r].owner = User THEN "spent" ELSE @]
  BY <1>1, <1>2
<1>4. claim[r] \in Claims
  BY <1>1 DEF TypeOK
<1> DEFINE x == IF claim[r].owner = User THEN "spent" ELSE claim[r].st
           c == claim[r]
           d == claim'[r]
<1>5. d = [c EXCEPT !.lease = TRUE, !.st = x]
  BY <1>3
<1> HIDE DEF x, c, d
<1>6. c \in Claims
  BY <1>4 DEF c
<1>7. d.via = c.via /\ d.st = x
  BY <1>5, <1>6 DEF Claims
<1> QED BY <1>7 DEF c, d, x

\* only granted dogs fire
FiresGranted ==
  \A r \in Requests : <<"fire", r>> \in due \/ r \in pass.refire \/ claim[r].st = "spent" => claim[r].lease

LEMMA FiresGrantedStep ==
  ASSUME TypeOK, IInv, FiresGranted, [Next]_vars
  PROVE  FiresGranted'
<1> DEFINE Kept(s) == /\ claim[s].lease => claim'[s].lease
                      /\ claim'[s].st = "spent" => claim[s].st = "spent" \/ claim'[s].lease
           NoFires == \A j \in due' : j[1] = "fire" => j \in due
<1>k. ASSUME \A s \in Requests : Kept(s), NoFires, pass'.refire \subseteq pass.refire
      PROVE  FiresGranted'
  <2> SUFFICES ASSUME NEW s \in Requests, <<"fire", s>> \in due' \/ s \in pass'.refire \/ claim'[s].st = "spent"
               PROVE  claim'[s].lease
    BY DEF FiresGranted
  <2>1. CASE <<"fire", s>> \in due'
    <3> DEFINE j == <<"fire", s>>
    <3>1. j[1] = "fire"
      OBVIOUS
    <3> HIDE DEF j
    <3>2. j \in due' => j \in due
      BY <1>k, <3>1
    <3> QED BY <1>k, <2>1, <3>2 DEF j, FiresGranted
  <2> QED BY <1>k, <2>1 DEF FiresGranted
<1>m. \A s \in Requests : claim[s].st \in {"none", "creating"} => ~claim[s].lease
  BY DEF IInv, NewUnmarked
<1>d. pass.refire \subseteq Requests /\ NoPass.refire = {}
  BY DEF TypeOK, Passes, NoPass
<1>1. ASSUME NEW r \in Requests, NEW a \in Agents, NEW k \in 1..MaxCap, NEW inline \in BOOLEAN, CreateBegin(r, a, k, inline)
      PROVE  FiresGranted'
  <2>1. \A s \in Requests : Kept(s)
    BY <1>1, <1>m DEF CreateBegin, TypeOK, Claims
  <2>2. NoFires /\ pass' = pass
    BY <1>1 DEF CreateBegin
  <2> QED BY <1>k, <2>1, <2>2
<1>2. ASSUME NEW S, Forget(S), \A s \in S \cap Requests : claim[s].st \in {"none", "creating"}, NoFires,
             pass'.refire \subseteq pass.refire
      PROVE  FiresGranted'
  <2>1. \A s \in Requests : Kept(s)
    BY <1>2, <1>m DEF Forget, NoClaim, TypeOK
  <2> QED BY <1>2, <1>k, <2>1
<1>3. ASSUME NEW S, NEW st, SetState(S, st), st # "spent", NoFires, pass' = pass
      PROVE  FiresGranted'
  <2>1. \A s \in Requests : Kept(s)
    BY <1>3, SetStateEffect
  <2> QED BY <1>3, <1>k, <2>1
<1>4. ASSUME claim' = claim, NoFires, pass'.refire \subseteq pass.refire
      PROVE  FiresGranted'
  BY <1>4, <1>k
<1>5. ASSUME NEW G, NEW f, Grants(G, f)
      PROVE  FiresGranted'
  <2> SUFFICES ASSUME NEW s \in Requests, <<"fire", s>> \in due' \/ s \in pass'.refire \/ claim'[s].st = "spent"
               PROVE  claim'[s].lease
    BY DEF FiresGranted
  <2>1. claim[s].lease => claim'[s].lease
    BY <1>5, GrantsEffect
  <2>2. CASE claim'[s].st = "spent"
    BY <1>5, <2>1, <2>2, GrantsEffect DEF FiresGranted, IInv, PassLocal
  <2>3. CASE <<"fire", s>> \in due'
    <3>1. due' = due \cup Fires(G)
      BY <1>5 DEF Grants
    <3>2. <<"fire", s>> \in due \/ (s \in (pass.refire \cup G) \ pass.inline)
      BY <2>3, <3>1 DEF Fires
    <3> QED BY <1>5, <2>1, <3>2, GrantsEffect DEF FiresGranted
  <2>4. s \notin pass'.refire
    BY <1>5, <1>d DEF Grants
  <2> QED BY <2>2, <2>3, <2>4
<1>6. ASSUME NEW r \in Requests, ClaimRefused(r)
      PROVE  FiresGranted'
  <2>1. Forget({r}) /\ claim[r].st = "creating" /\ pass' = pass
    BY <1>6 DEF ClaimRefused, IInv, CallsOnNew
  <2>2. NoFires
    BY <1>6 DEF ClaimRefused
  <2> QED BY <1>2, <2>1, <2>2
<1>7. ASSUME GrantBegin \/ \E r \in Requests : ClaimBegin(r)
      PROVE  FiresGranted'
  <2>1. claim' = claim /\ pass'.refire = Refires /\ due' \subseteq due
    <3>1. CASE GrantBegin
      BY <3>1 DEF GrantBegin
    <3>2. ASSUME NEW r \in Requests, ClaimBegin(r)
          PROVE  claim' = claim /\ pass'.refire = Refires /\ due' \subseteq due
      BY <3>2 DEF ClaimBegin
    <3> QED BY <1>7, <3>1, <3>2
  <2>2. \A s \in Refires : claim[s].lease
    BY DEF Refires
  <2> QED BY <2>1, <2>2 DEF FiresGranted
<1>8. ASSUME NEW r \in Requests, Insert(r)
      PROVE  FiresGranted'
  <2>1. claim[r].st = "creating" /\ pass' = pass
    BY <1>8 DEF Insert, IInv, CallsOnNew
  <2>2. NoFires
    BY <1>8 DEF Insert
  <2> QED BY <1>2, <1>3, <1>8, <2>1, <2>2 DEF Insert
<1>9. ASSUME NEW r \in Requests, NEW k \in 1..MaxCap, SlotHold(r, k)
      PROVE  FiresGranted'
  <2>1. \A s \in Requests : Kept(s)
    BY <1>9, <1>m DEF SlotHold, TypeOK, Claims
  <2>2. NoFires /\ pass' = pass
    BY <1>9 DEF SlotHold
  <2> QED BY <1>k, <2>1, <2>2
<1>10. ASSUME NEW r \in Requests, Fire(r)
      PROVE  FiresGranted'
  <2>1. \A s \in Requests : Kept(s)
    BY <1>10, SetStateEffect DEF Fire, FiresGranted
  <2>2. NoFires /\ pass' = pass
    BY <1>10 DEF Fire
  <2> QED BY <1>k, <2>1, <2>2
<1>11. ASSUME NEW r \in Requests, NEW verb \in {"pause", "remove"}, ActWrite(r, verb)
      PROVE  FiresGranted'
  <2>1. NoFires /\ pass' = pass
    BY <1>11 DEF ActWrite
  <2>2. \E st \in {"paused", "removed"} : SetState({r}, st)
    BY <1>11 DEF ActWrite
  <2> QED BY <1>3, <2>1, <2>2
<1>12. ASSUME NEW r \in Requests, ResumeSlot(r) \/ SlotCancel(r)
      PROVE  FiresGranted'
  <2>1. NoFires /\ pass' = pass
    BY <1>12 DEF ResumeSlot, SlotCancel
  <2>2. \E st \in {"armed", "removed"} : SetState({r}, st)
    BY <1>12 DEF ResumeSlot, SlotCancel
  <2> QED BY <1>3, <2>1, <2>2
<1>13. ASSUME NEW r \in Requests, NEW k \in 1..MaxCap, Edit(r, k)
      PROVE  FiresGranted'
  <2>1. \A s \in Requests : Kept(s)
    BY <1>13 DEF Edit, TypeOK, Claims
  <2>2. NoFires /\ pass' = pass
    BY <1>13 DEF Edit
  <2> QED BY <1>k, <2>1, <2>2
<1>14. ASSUME NEW a \in Agents, SlotUnqueue(a) \/ Retire(a) \/ Rehire(a)
      PROVE  FiresGranted'
  <2>1. NoFires /\ pass' = pass
    BY <1>14 DEF SlotUnqueue, Retire, Rehire
  <2>2. \/ \E S : SetState(S, "removed")
        \/ \E S : SetState(S, "shelved")
        \/ \E S : SetState(S, "armed")
    BY <1>14, Zenon DEF SlotUnqueue, Retire, Rehire
  <2> QED BY <1>3, <2>1, <2>2
<1>15. ASSUME DropUnreached
      PROVE  FiresGranted'
  <2>1. (\E S : SetState(S, "removed")) /\ due' = (due \ {Drop}) \cup {Check} /\ pass' = pass
    BY <1>15, Zenon DEF DropUnreached
  <2>2. NoFires
    BY <2>1
  <2> QED BY <1>3, <2>1, <2>2
<1>16. ASSUME Crash
      PROVE  FiresGranted'
  <2>1. \A s \in Requests : Kept(s)
    BY <1>16, <1>m DEF Crash, Forget, NoClaim
  <2>2. NoFires /\ pass' = NoPass
    BY <1>16 DEF Crash
  <2> QED BY <1>k, <1>d, <2>1, <2>2
<1>17. ASSUME ClaimRollback \/ GrantFails
      PROVE  FiresGranted'
  BY <1>4, <1>17, <1>d DEF ClaimRollback, GrantFails
<1>18. ASSUME NEW r \in Requests, \/ FireFails(r) \/ Release(r) \/ ReleaseUserHold(r)
                                  \/ IdleRemind(r) \/ IdlePage(r) \/ IdleReclaim(r) \/ \E verb \in {"pause", "remove"} : ActBegin(r, verb)
       PROVE  FiresGranted'
  <2>1. NoFires /\ pass' = pass /\ claim' = claim
    BY <1>18 DEF FireFails, Release, ReleaseUserHold, IdleRemind, IdlePage, IdleReclaim, ActBegin
  <2> QED BY <1>4, <2>1
<1>19. ASSUME NEW a \in Agents, \/ RecheckHolder(a) \/ DeathRead(a) \/ DeathEnd(a) \/ AfterMove(a)
                                \/ FreezeTurn(a) \/ FreezeNoAccount(a) \/ FreezeStranded(a) \/ Thaw(a)
                                \/ ContinueOn(a) \/ TurnDies(a) \/ Move(a)
                                \/ \E on : SetHalt(a, on) \/ UserHalt(a, on)
       PROVE  FiresGranted'
  <2>1. pass' = pass /\ claim' = claim
    BY <1>19 DEF RecheckHolder, DeathRead, DeathEnd, AfterMove, FreezeTurn, FreezeNoAccount, FreezeStranded, Thaw, ContinueOn,
                 TurnDies, Move, SetHalt, UserHalt
  <2>2. NoFires
    <3>1. CASE RecheckHolder(a) \/ DeathRead(a) \/ DeathEnd(a) \/ AfterMove(a)
      BY <3>1 DEF RecheckHolder, DeathRead, DeathEnd, AfterMove
    <3>2. CASE \/ FreezeTurn(a) \/ FreezeNoAccount(a) \/ FreezeStranded(a) \/ Thaw(a) \/ ContinueOn(a)
               \/ TurnDies(a) \/ Move(a) \/ \E on : SetHalt(a, on) \/ UserHalt(a, on)
      BY <3>2 DEF FreezeTurn, FreezeNoAccount, FreezeStranded, Thaw, ContinueOn, TurnDies, Move, SetHalt, UserHalt
    <3> QED BY <1>19, <3>1, <3>2
  <2> QED BY <1>4, <2>1, <2>2
<1>20. ASSUME CheckHolders \/ (\E c : SetSlots(c)) \/ (\E on : SetProject(on)) \/ UNCHANGED vars
       PROVE  FiresGranted'
  <2>1. NoFires /\ pass' = pass /\ claim' = claim
    BY <1>20 DEF CheckHolders, SetSlots, SetProject, vars
  <2> QED BY <1>4, <2>1
<1> QED
  BY <1>1, <1>5, <1>6, <1>7, <1>8, <1>9, <1>10, <1>11, <1>12, <1>13, <1>14, <1>15, <1>16, <1>17, <1>18,
     <1>19, <1>20, CommitGrants DEF Next, Work, Calls, Events

LEMMA FiresGrantedHolds == Spec => []FiresGranted
<1>1. Init => FiresGranted
  BY DEF Init, FiresGranted, NoPass, NoClaim
<1>2. TypeOK /\ IInv /\ FiresGranted /\ [Next]_vars => FiresGranted'
  BY FiresGrantedStep
<1> QED BY <1>1, <1>2, TypeCorrect, MarksKept, PTL DEF Spec

(* Without pauses a claim out of the line is removed, spent or of a retired agent. *)

NeverPaused == \A r \in Requests : claim[r].st # "paused" /\ <<"pause", r>> \notin due

ShelvedRetired == \A r \in Requests : claim[r].st = "shelved" => claim[r].owner \in Agents /\ ~agent[claim[r].owner].live

LEMMA ShelvedStep ==
  ASSUME TypeOK, IInv, "pause" \notin Env, NeverPaused, ShelvedRetired, [Next]_vars
  PROVE  NeverPaused' /\ ShelvedRetired'
<1> DEFINE Kept(s) == claim'[s].st \in {"paused", "shelved"} => claim'[s].st = claim[s].st /\ claim'[s].owner = claim[s].owner
           NoPauses == \A j \in due' : j[1] = "pause" => j \in due
           Good == NeverPaused' /\ ShelvedRetired'
<1>p. ASSUME NoPauses
      PROVE  \A s \in Requests : <<"pause", s>> \notin due'
  <2> SUFFICES ASSUME NEW s \in Requests, <<"pause", s>> \in due' PROVE FALSE
    OBVIOUS
  <2> DEFINE j == <<"pause", s>>
  <2>1. j[1] = "pause" /\ j \notin due
    BY DEF NeverPaused
  <2>2. j \in due'
    OBVIOUS
  <2> HIDE DEF j
  <2> QED BY <1>p, <2>1, <2>2
<1>k. ASSUME \A s \in Requests : Kept(s), NoPauses, \A a \in Agents : agent'[a].live => agent[a].live
      PROVE  Good
  BY <1>k, <1>p DEF NeverPaused, ShelvedRetired
<1> HIDE DEF Good
<1>1. ASSUME NEW r \in Requests, NEW a \in Agents, NEW k \in 1..MaxCap, NEW inline \in BOOLEAN, CreateBegin(r, a, k, inline)
      PROVE  Good
  <2>1. (\A s \in Requests : Kept(s)) /\ agent' = agent
    BY <1>1 DEF CreateBegin, TypeOK, Claims
  <2>2. NoPauses
    BY <1>1 DEF CreateBegin
  <2> QED BY <1>k, <2>1, <2>2
<1>2. ASSUME NEW S, Forget(S), NoPauses, agent' = agent
      PROVE  Good
  <2>1. \A s \in Requests : Kept(s)
    BY <1>2 DEF Forget, NoClaim, TypeOK
  <2> QED BY <1>2, <1>k, <2>1
<1>3. ASSUME NEW S, NEW st, SetState(S, st), st \notin {"paused", "shelved"}, NoPauses, agent' = agent
      PROVE  Good
  <2>1. \A s \in Requests : Kept(s)
    BY <1>3, SetStateEffect
  <2> QED BY <1>3, <1>k, <2>1
<1>4. ASSUME claim' = claim, NoPauses, \A a \in Agents : agent'[a].live => agent[a].live
      PROVE  Good
  BY <1>4, <1>k
<1>5. ASSUME NEW G, NEW f, Grants(G, f)
      PROVE  Good
  <2>1. \A s \in Requests : Kept(s)
    BY <1>5, GrantsEffect
  <2>2. NoPauses /\ agent' = agent
    <3>1. due' = due \cup Fires(G) /\ agent' = agent
      BY <1>5 DEF Grants
    <3> QED BY <3>1 DEF Fires
  <2> QED BY <1>k, <2>1, <2>2
<1>6. ASSUME NEW r \in Requests, ClaimRefused(r)
      PROVE  Good
  <2>1. Forget({r}) /\ agent' = agent /\ NoPauses
    BY <1>6 DEF ClaimRefused
  <2> QED BY <1>2, <2>1
<1>7. ASSUME GrantBegin \/ ClaimRollback \/ GrantFails \/ \E r \in Requests : ClaimBegin(r)
      PROVE  Good
  <2>1. CASE GrantBegin
    BY <1>4, <2>1 DEF GrantBegin
  <2>2. CASE ClaimRollback \/ GrantFails
    BY <1>4, <2>2 DEF ClaimRollback, GrantFails
  <2>3. ASSUME NEW r \in Requests, ClaimBegin(r)
        PROVE  Good
    BY <1>4, <2>3 DEF ClaimBegin
  <2> QED BY <1>7, <2>1, <2>2, <2>3
<1>8. ASSUME NEW r \in Requests, Insert(r)
      PROVE  Good
  <2>1. NoPauses /\ agent' = agent
    BY <1>8 DEF Insert
  <2> QED BY <1>2, <1>3, <1>8, <2>1 DEF Insert
<1>9. ASSUME NEW r \in Requests, NEW k \in 1..MaxCap, SlotHold(r, k)
      PROVE  Good
  <2>1. (\A s \in Requests : Kept(s)) /\ agent' = agent
    BY <1>9 DEF SlotHold, TypeOK, Claims
  <2>2. NoPauses
    BY <1>9 DEF SlotHold
  <2> QED BY <1>k, <2>1, <2>2
<1>10. ASSUME NEW r \in Requests, Fire(r)
      PROVE  Good
  <2>1. NoPauses /\ agent' = agent /\ \E S : SetState(S, "spent")
    BY <1>10 DEF Fire
  <2> QED BY <1>3, <2>1
<1>11. ASSUME NEW r \in Requests, NEW verb \in {"pause", "remove"}, ActWrite(r, verb)
      PROVE  Good
  <2>1. NoPauses /\ agent' = agent
    BY <1>11 DEF ActWrite
  <2>2. SetState({r}, "removed")
    BY <1>11 DEF ActWrite, NeverPaused
  <2> QED BY <1>3, <2>1, <2>2
<1>12. ASSUME NEW r \in Requests, ResumeSlot(r) \/ SlotCancel(r)
      PROVE  Good
  <2>1. NoPauses /\ agent' = agent
    BY <1>12 DEF ResumeSlot, SlotCancel
  <2>2. \E st \in {"armed", "removed"} : SetState({r}, st)
    BY <1>12 DEF ResumeSlot, SlotCancel
  <2> QED BY <1>3, <2>1, <2>2
<1>13. ASSUME NEW r \in Requests, NEW k \in 1..MaxCap, Edit(r, k)
      PROVE  Good
  <2>1. \A s \in Requests : Kept(s)
    BY <1>13 DEF Edit, TypeOK, Claims
  <2>2. NoPauses /\ agent' = agent
    BY <1>13 DEF Edit
  <2> QED BY <1>k, <2>1, <2>2
<1>14. ASSUME NEW a \in Agents, SlotUnqueue(a)
      PROVE  Good
  <2>1. NoPauses /\ agent' = agent /\ SetState(Pending(a), "removed")
    BY <1>14 DEF SlotUnqueue
  <2> QED BY <1>3, <2>1
<1>15. ASSUME DropUnreached
      PROVE  Good
  <2>1. (\E S : SetState(S, "removed")) /\ due' = (due \ {Drop}) \cup {Check} /\ agent' = agent
    BY <1>15, Zenon DEF DropUnreached
  <2>2. NoPauses
    BY <2>1
  <2> QED BY <1>3, <2>1, <2>2
<1>16. ASSUME Crash
      PROVE  Good
  <2>1. (\E S : Forget(S)) /\ agent' = agent
    BY <1>16, Zenon DEF Crash
  <2>2. NoPauses
    BY <1>16 DEF Crash
  <2> QED BY <1>2, <2>1, <2>2
<1>17. ASSUME NEW a \in Agents, Retire(a)
      PROVE  Good
  <2> DEFINE S == {r \in Requests : claim[r].owner = a /\ claim[r].st = "armed"}
  <2>1. NoPauses /\ SetState(S, "shelved")
    BY <1>17 DEF Retire
  <2>2. \A x \in Agents : agent'[x].live => agent[x].live /\ x # a
    BY <1>17 DEF Retire, TypeOK, AgentRows
  <2>3. \A s \in Requests : /\ claim'[s].owner = claim[s].owner
                            /\ claim'[s].st = IF s \in S THEN "shelved" ELSE claim[s].st
    BY <2>1, SetStateEffect
  <2> QED BY <1>p, <2>1, <2>2, <2>3 DEF Good, NeverPaused, ShelvedRetired
<1>18. ASSUME NEW r \in Requests, \/ FireFails(r) \/ Release(r) \/ ReleaseUserHold(r)
                                  \/ IdleRemind(r) \/ IdlePage(r) \/ IdleReclaim(r) \/ \E verb \in {"pause", "remove"} : ActBegin(r, verb)
       PROVE  Good
  <2>1. NoPauses /\ agent' = agent /\ claim' = claim
    BY <1>18 DEF FireFails, Release, ReleaseUserHold, IdleRemind, IdlePage, IdleReclaim, ActBegin
  <2> QED BY <1>4, <2>1
<1>19. ASSUME NEW a \in Agents, \/ RecheckHolder(a) \/ DeathRead(a) \/ DeathEnd(a) \/ AfterMove(a)
       PROVE  Good
  <2>1. agent' = agent /\ claim' = claim /\ NoPauses
    BY <1>19 DEF RecheckHolder, DeathRead, DeathEnd, AfterMove
  <2> QED BY <1>4, <2>1
<1>20. ASSUME NEW a \in Agents, \/ FreezeTurn(a) \/ FreezeNoAccount(a) \/ FreezeStranded(a) \/ Thaw(a)
                                \/ ContinueOn(a) \/ TurnDies(a) \/ Move(a)
                                \/ \E on : SetHalt(a, on) \/ UserHalt(a, on)
       PROVE  Good
  <2>1. claim' = claim /\ NoPauses
    BY <1>20 DEF FreezeTurn, FreezeNoAccount, FreezeStranded, Thaw, ContinueOn, TurnDies, Move, SetHalt, UserHalt
  <2>2. \A x \in Agents : agent'[x].live => agent[x].live
    BY <1>20 DEF FreezeTurn, FreezeNoAccount, FreezeStranded, Thaw, ContinueOn, TurnDies, Move, SetHalt, UserHalt, TypeOK, AgentRows
  <2> QED BY <1>4, <2>1, <2>2
<1>21. ASSUME CheckHolders \/ (\E c : SetSlots(c)) \/ (\E on : SetProject(on)) \/ UNCHANGED vars
       PROVE  Good
  <2>1. NoPauses /\ agent' = agent /\ claim' = claim
    BY <1>21 DEF CheckHolders, SetSlots, SetProject, vars
  <2> QED BY <1>4, <2>1
<1>22. ASSUME NEW a \in Agents, Rehire(a)
      PROVE  Good
  <2> DEFINE S == {r \in Requests : claim[r].owner = a /\ claim[r].st = "shelved"}
  <2>1. NoPauses /\ SetState(S, "armed")
    BY <1>22 DEF Rehire
  <2>2. \A x \in Agents : agent'[x].live => agent[x].live \/ x = a
    BY <1>22 DEF Rehire, TypeOK, AgentRows
  <2>3. \A s \in Requests : /\ claim'[s].owner = claim[s].owner
                            /\ claim'[s].st = IF s \in S THEN "armed" ELSE claim[s].st
    BY <2>1, SetStateEffect
  <2> QED BY <1>p, <2>1, <2>2, <2>3 DEF Good, NeverPaused, ShelvedRetired
<1> QED
  BY <1>1, <1>5, <1>6, <1>7, <1>8, <1>9, <1>10, <1>11, <1>12, <1>13, <1>14, <1>15, <1>16, <1>17, <1>18,
     <1>19, <1>20, <1>21, <1>22, CommitGrants DEF Next, Work, Calls, Events, Good

(* A holder that cannot hold its lease any more is told so. *)

Checked == Check \in due \/ Drop \in due

Told(a) == Checked \/ <<"recheck", a>> \in due \/ <<"moved", a>> \in due

\* the leases that are to be taken back
HoldersTold ==
  \A r \in Held : Unfit(r) /\ claim[r].st \notin {"removed", "inline"} => Told(claim[r].owner)

\* and the claims that the open pass may still grant
ReadTold ==
  \A r \in pass.waiting \ pass.inline :
    Unfit(r) /\ claim[r].st # "removed" => Checked \/ (Told(claim[r].owner) /\ claim[r].st # "shelved")

Telling == {"check", "drop", "recheck", "moved"}

LEMMA ToldKept ==
  ASSUME \A j \in due : j[1] \in Telling => j \in due'
  PROVE  (Checked => Checked') /\ \A a : Told(a) => Told(a)'
<1>1. /\ "check" \in Telling /\ "drop" \in Telling /\ "recheck" \in Telling /\ "moved" \in Telling
  BY DEF Telling
<1> HIDE DEF Telling
<1>2. \A k \in Telling : \A x : <<k, x>> \in due => <<k, x>> \in due'
  BY JobsKept, Zenon
<1> QED BY <1>1, <1>2, Zenon DEF Checked, Told

\* what the open pass read is in one of few states
LEMMA ReadStates ==
  ASSUME TypeOK, IInv, FiresGranted, NeverPaused, NEW r \in pass.waiting \ pass.inline
  PROVE  r \in Requests /\ ~claim[r].lease /\ claim[r].st \in {"armed", "shelved", "removed"}
<1>1. r \in Requests /\ claim[r] \in Claims
  BY DEF TypeOK, Passes
<1>2. ~claim[r].lease /\ claim[r].st \notin {"none", "creating", "inline", "paused", "spent"}
  BY <1>1 DEF IInv, LineUnmarked, Granted, FiresGranted, NeverPaused
<1> QED BY <1>1, <1>2 DEF Claims, States

LEMMA HeldMarked ==
  ASSUME TypeOK, IInv, NEW r \in Requests, claim[r].st \in {"none", "creating"} \/ (~claim[r].lease /\ claim[r].st # "inline")
  PROVE  slot[r] = 0
BY DEF IInv, LeaseMarked, NewUnmarked, Granted

\* claims change, and agents do not
LEMMA ToldClaims ==
  ASSUME TypeOK, IInv, FiresGranted, NeverPaused, HoldersTold, ReadTold,
         agent' = agent, pass' = pass, slot' = slot,
         \A j \in due : j[1] \in Telling => j \in due',
         \A r \in Requests :
           \/ slot[r] = 0 /\ r \notin pass.waiting
           \/ /\ claim'[r].owner = claim[r].owner /\ claim'[r].via = claim[r].via
              /\ claim'[r].st \in {claim[r].st, "removed", "spent"}
              /\ claim'[r].st = "spent" /\ claim[r].st # "spent" => r \notin pass.waiting /\ claim[r].st = "armed"
  PROVE  HoldersTold' /\ ReadTold'
<1>1. (Checked => Checked') /\ \A a : Told(a) => Told(a)'
  BY ToldKept
<1>2. \A r \in Requests : claim'[r].owner = claim[r].owner /\ claim'[r].via = claim[r].via
                          /\ claim'[r].st \in {claim[r].st, "removed", "spent"} /\ Unfit(r)'
                          => Unfit(r) \/ claim[r].st = "inline"
  BY DEF Unfit, Runs
<1>3. ASSUME NEW r \in Held', Unfit(r)', claim'[r].st \notin {"removed", "inline"}
      PROVE  Told(claim[r].owner)'
  <2>1. r \in Held /\ r \in Requests /\ slot[r] # 0
    BY <1>3 DEF Held
  <2>2. claim[r].st # "inline"
    BY <1>3, <2>1
  <2> QED BY <1>1, <1>2, <1>3, <2>1, <2>2 DEF HoldersTold
<1>4. ASSUME NEW r \in pass'.waiting \ pass'.inline, Unfit(r)', claim'[r].st # "removed"
      PROVE  Checked' \/ (Told(claim[r].owner)' /\ claim'[r].st # "shelved")
  <2>1. r \in pass.waiting \ pass.inline /\ r \in Requests
    BY <1>4, ReadStates
  <2>2. claim[r].st \in {"armed", "shelved", "removed"}
    BY <2>1, ReadStates
  <2>3. claim'[r].st = claim[r].st
    BY <1>4, <2>1, <2>2
  <2>4. Unfit(r)
    BY <1>2, <1>4, <2>1, <2>2, <2>3
  <2> QED BY <1>1, <1>4, <2>1, <2>3, <2>4 DEF ReadTold
<1>5. \A r \in Requests : slot[r] # 0 \/ r \in pass.waiting => claim'[r].owner = claim[r].owner
  OBVIOUS
<1>6. HoldersTold'
  BY <1>3, <1>5 DEF HoldersTold, Held
<1>7. ReadTold'
  <2>1. pass.waiting \subseteq Requests
    BY DEF TypeOK, Passes
  <2> QED BY <1>4, <1>5, <2>1 DEF ReadTold
<1> QED BY <1>6, <1>7

\* agents change, and claims only with them
LEMMA ToldFacts ==
  ASSUME TypeOK, claim' = claim, agent' = agent, pass' = pass, HoldersTold, ReadTold,
         \A r \in Requests : slot'[r] # 0 => slot[r] # 0,
         \A j \in due : j[1] \in Telling => j \in due'
  PROVE  HoldersTold' /\ ReadTold'
<1>1. (Checked => Checked') /\ \A a : Told(a) => Told(a)'
  BY ToldKept
<1>2. \A r \in Requests : Unfit(r)' = Unfit(r)
  BY DEF Unfit, Runs
<1>3. Held' \subseteq Held /\ Held \subseteq Requests /\ pass.waiting \subseteq Requests
  BY DEF Held, TypeOK, Passes
<1> HIDE DEF Held, Unfit, Checked, Told
<1>4. HoldersTold'
  BY <1>1, <1>2, <1>3 DEF HoldersTold
<1>5. ReadTold'
  BY <1>1, <1>2, <1>3 DEF ReadTold
<1> QED BY <1>4, <1>5

\* an agent changes, and is told of it
LEMMA ToldAgent ==
  ASSUME TypeOK, IInv, FiresGranted, NeverPaused, ShelvedRetired, HoldersTold, ReadTold, NEW a \in Agents,
         agent[a].live \/ \A r \in Requests : claim[r].owner = a /\ Unfit(r)' => Unfit(r) \/ claim[r].st # "shelved",
         claim' = claim, pass' = pass, slot' = slot,
         \A b \in Agents \ {a} : agent'[b] = agent[b],
         due \subseteq due', Told(a)'
  PROVE  HoldersTold' /\ ReadTold'
<1>1. (Checked => Checked') /\ \A b : Told(b) => Told(b)'
  BY DEF Told, Checked
<1>2. \A r \in Requests : claim[r].owner # a => Unfit(r)' = Unfit(r)
  BY DEF Unfit, Runs
<1>3. Held' = Held /\ Held \subseteq Requests /\ pass.waiting \subseteq Requests
  BY DEF Held, TypeOK, Passes
<1>4. \A r \in Requests : claim[r].owner = a /\ Unfit(r)' => Unfit(r) \/ claim[r].st # "shelved"
  BY DEF ShelvedRetired
<1> HIDE DEF Held, Unfit, Checked, Told
<1>5. HoldersTold'
  BY <1>1, <1>2, <1>3 DEF HoldersTold
<1>6. ReadTold'
  BY <1>1, <1>2, <1>3, <1>4 DEF ReadTold
<1> QED BY <1>5, <1>6

LEMMA ToldStep ==
  ASSUME TypeOK, IInv, FiresGranted, {"freeze", "pause", "userhalt", "removal"} \cap Env = {}, NeverPaused, ShelvedRetired,
         HoldersTold, ReadTold, [Next]_vars
  PROVE  HoldersTold' /\ ReadTold'
<1> DEFINE Good == HoldersTold' /\ ReadTold'
           StillTold == \A j \in due : j[1] \in Telling => j \in due'
<1>u. Unlocked => pass.waiting = {}
  BY DEF IInv, PassLocal
<1>h. \A r \in Requests : claim[r].st \in {"none", "creating"} \/ (~claim[r].lease /\ claim[r].st # "inline") => slot[r] = 0
  BY HeldMarked
<1>e. \A r \in Requests : Eligible(r) => ~Unfit(r)
  BY UserAssumption DEF Eligible, InLine, Reaches, Unfit, Runs
\* claims change
<1> DEFINE Gone(r) == slot[r] = 0 /\ r \notin pass.waiting
           Kept(r) == claim'[r] = claim[r]
           Quit(r) == claim'[r].owner = claim[r].owner /\ claim'[r].via = claim[r].via /\ claim'[r].st \in {claim[r].st, "removed"}
           Frame == agent' = agent /\ pass' = pass /\ slot' = slot /\ StillTold
<1>c. ASSUME Frame, \A r \in Requests : Gone(r) \/ Kept(r) \/ Quit(r)
      PROVE  Good
  BY <1>c, ToldClaims
<1>s. ASSUME NEW S, SetState(S, "removed")
      PROVE  \A r \in Requests : Quit(r)
  BY <1>s, SetStateEffect, SetStateVia
<1>1. ASSUME NEW r \in Requests, NEW a \in Agents, NEW k \in 1..MaxCap, NEW inline \in BOOLEAN, CreateBegin(r, a, k, inline)
      PROVE  Good
  <2>1. Frame
    BY <1>1 DEF CreateBegin, Telling
  <2>2. claim[r].st = "none" /\ \A s \in Requests \ {r} : Kept(s)
    BY <1>1 DEF CreateBegin, TypeOK
  <2>3. Gone(r)
    BY <2>2, <1>h DEF IInv, LineUnmarked
  <2> QED BY <1>c, <2>1, <2>2, <2>3
<1>2. ASSUME NEW r \in Requests, ClaimRefused(r) \/ Insert(r)
      PROVE  Good
  <2>1. Frame
    <3>1. CASE ClaimRefused(r)
      BY <3>1 DEF ClaimRefused, Telling
    <3>2. CASE Insert(r)
      BY <3>2 DEF Insert, Telling
    <3> QED BY <1>2, <3>1, <3>2
  <2>2. claim[r].st = "creating" /\ pass.waiting = {}
    BY <1>2, <1>u DEF ClaimRefused, Insert, IInv, CallsOnNew
  <2>3. Gone(r)
    BY <2>2, <1>h
  <2>4. \A s \in Requests \ {r} : Kept(s)
    BY <1>2 DEF ClaimRefused, Insert, Forget, SetState
  <2> QED BY <1>c, <2>1, <2>3, <2>4
<1>3. ASSUME NEW r \in Requests, NEW k \in 1..MaxCap, SlotHold(r, k)
      PROVE  Good
  <2>1. Frame
    BY <1>3 DEF SlotHold, Telling
  <2>2. claim[r].st = "none" /\ pass.waiting = {} /\ \A s \in Requests \ {r} : Kept(s)
    BY <1>3, <1>u DEF SlotHold, TypeOK
  <2>3. Gone(r)
    BY <2>2, <1>h
  <2> QED BY <1>c, <2>1, <2>2, <2>3
<1>4. ASSUME NEW r \in Requests, Fire(r)
      PROVE  Good
  <2>1. Frame /\ <<"fire", r>> \in due
    BY <1>4 DEF Fire, Telling
  <2>2. r \notin pass.waiting
    BY <2>1 DEF FiresGranted, IInv, LineUnmarked, Granted
  <2>3. \A s \in Requests : /\ claim'[s].owner = claim[s].owner /\ claim'[s].via = claim[s].via
                            /\ claim'[s].st = IF s = r /\ claim[s].st = "armed" THEN "spent" ELSE claim[s].st
    BY <1>4, SetStateEffect, SetStateVia DEF Fire
  <2> QED BY <2>1, <2>2, <2>3, ToldClaims
<1>5. ASSUME NEW a \in Agents, SlotUnqueue(a)
      PROVE  Good
  <2>1. Frame /\ SetState(Pending(a), "removed")
    BY <1>5 DEF SlotUnqueue, Telling
  <2> QED BY <1>c, <1>s, <2>1
<1>6. ASSUME NEW r \in Requests, SlotCancel(r)
      PROVE  Good
  <2>1. Frame /\ SetState({r}, "removed")
    BY <1>6 DEF SlotCancel, Telling
  <2> QED BY <1>c, <1>s, <2>1
<1>7. ASSUME NEW r \in Requests, NEW verb \in {"pause", "remove"}, ActWrite(r, verb)
      PROVE  Good
  <2>1. Frame
    BY <1>7 DEF ActWrite, Telling
  <2>2. SetState({r}, "removed")
    BY <1>7 DEF ActWrite, NeverPaused
  <2> QED BY <1>c, <1>s, <2>1, <2>2
<1>8. ASSUME NEW r \in Requests, ResumeSlot(r)
      PROVE  Good
  <2>1. Frame
    BY <1>8 DEF ResumeSlot, Telling
  <2>2. \A s \in Requests \ {r} : Kept(s)
    BY <1>8 DEF ResumeSlot, SetState
  <2>3. Gone(r)
    BY <1>8, <1>h, <1>u DEF ResumeSlot
  <2> QED BY <1>c, <2>1, <2>2, <2>3
<1>9. ASSUME NEW r \in Requests, NEW k \in 1..MaxCap, Edit(r, k)
      PROVE  Good
  <2>1. Frame
    BY <1>9 DEF Edit, Telling
  <2>2. \A s \in Requests : Kept(s) \/ Quit(s)
    BY <1>9 DEF Edit, TypeOK, Claims
  <2> QED BY <1>c, <2>1, <2>2
<1>10. ASSUME DropUnreached
       PROVE  Good
  <2> DEFINE S == {r \in UNION {Pending(a) : a \in Agents} : ~Reaches(r)}
  <2>1. /\ SetState(S, "removed") /\ Unlocked /\ Check \in due'
        /\ agent' = agent /\ pass' = pass /\ slot' = slot
    BY <1>10, Zenon DEF DropUnreached
  <2>2. pass'.waiting = {} /\ \A a : Told(a)'
    BY <1>u, <2>1 DEF Told, Checked
  <2> QED BY <2>2 DEF HoldersTold, ReadTold
<1>11. ASSUME Crash
       PROVE  Good
  <2>1. pass'.waiting = {} /\ slot' = slot /\ (Held # {} => Check \in due')
    BY <1>11 DEF Crash, NoPass
  <2>2. \A r \in Held' : Checked'
    BY <2>1 DEF Held, Checked
  <2> QED BY <2>1, <2>2 DEF HoldersTold, ReadTold, Told
\* leases end, or nothing that matters changes
<1>f. ASSUME claim' = claim, agent' = agent, pass' = pass, StillTold,
             \A s \in Requests : slot'[s] # 0 => slot[s] # 0
      PROVE  Good
  BY <1>f, ToldFacts
<1>12. ASSUME NEW r \in Requests, \/ FireFails(r) \/ Release(r) \/ ReleaseUserHold(r)
                                  \/ IdleRemind(r) \/ IdlePage(r) \/ IdleReclaim(r)
       PROVE  Good
  <2>1. claim' = claim /\ agent' = agent /\ pass' = pass /\ StillTold
    BY <1>12 DEF FireFails, Release, ReleaseUserHold, IdleRemind, IdlePage, IdleReclaim, Telling
  <2>2. \A s \in Requests : slot'[s] # 0 => slot[s] # 0
    BY <1>12 DEF FireFails, Release, ReleaseUserHold, IdleRemind, IdlePage, IdleReclaim, EndLeases
  <2> QED BY <1>f, <2>1, <2>2
<1>13. ASSUME NEW a \in Agents, DeathRead(a) \/ DeathEnd(a) \/ TurnDies(a)
       PROVE  Good
  <2>1. claim' = claim /\ agent' = agent /\ pass' = pass /\ StillTold
    BY <1>13 DEF DeathRead, DeathEnd, TurnDies, Telling
  <2>2. \A s \in Requests : slot'[s] # 0 => slot[s] # 0
    BY <1>13 DEF DeathRead, DeathEnd, TurnDies, EndLeases
  <2> QED BY <1>f, <2>1, <2>2
<1>14. ASSUME \/ (\E c : SetSlots(c)) \/ (\E on : SetProject(on)) \/ UNCHANGED vars
              \/ \E r \in Requests, verb \in {"pause", "remove"} : ActBegin(r, verb)
       PROVE  Good
  <2>1. claim' = claim /\ agent' = agent /\ pass' = pass /\ slot' = slot /\ StillTold
    BY <1>14 DEF SetSlots, SetProject, ActBegin, vars
  <2> QED BY <1>f, <2>1
<1>15. ASSUME ClaimRollback \/ GrantFails
       PROVE  Good
  <2>1. claim' = claim /\ agent' = agent /\ slot' = slot /\ pass'.waiting = {} /\ StillTold
    BY <1>15 DEF ClaimRollback, GrantFails, NoPass
  <2>2. \A a : Told(a) => Told(a)'
    BY <2>1, ToldKept
  <2>3. \A r \in Requests : Unfit(r)' = Unfit(r)
    BY <2>1 DEF Unfit, Runs
  <2>4. Held' = Held /\ Held \subseteq Requests
    BY <2>1 DEF Held
  <2> HIDE DEF Held, Unfit, Told
  <2> QED BY <2>1, <2>2, <2>3, <2>4 DEF HoldersTold, ReadTold
\* a pass reads the line
<1>r. ASSUME claim' = claim, agent' = agent, slot' = slot, StillTold,
             \A r \in pass'.waiting \ pass'.inline : r \in Requests /\ ~Unfit(r)
      PROVE  Good
  <2>1. \A a : Told(a) => Told(a)'
    BY <1>r, ToldKept
  <2>2. \A r \in Requests : Unfit(r)' = Unfit(r)
    BY <1>r DEF Unfit, Runs
  <2>3. Held' = Held /\ Held \subseteq Requests
    BY <1>r DEF Held
  <2> HIDE DEF Held, Unfit, Told
  <2> QED BY <1>r, <2>1, <2>2, <2>3 DEF HoldersTold, ReadTold
<1>16. ASSUME GrantBegin
       PROVE  Good
  <2>1. claim' = claim /\ agent' = agent /\ slot' = slot /\ StillTold
    BY <1>16 DEF GrantBegin, Telling
  <2>2. \A r \in pass'.waiting : r \in Requests /\ Eligible(r)
    BY <1>16 DEF GrantBegin
  <2> QED BY <1>r, <1>e, <2>1, <2>2
<1>17. ASSUME NEW r \in Requests, ClaimBegin(r)
       PROVE  Good
  <2>1. claim' = claim /\ agent' = agent /\ slot' = slot /\ StillTold
    BY <1>17 DEF ClaimBegin, Telling
  <2>2. pass'.inline = {r} /\ \A s \in pass'.waiting \ {r} : s \in Requests /\ Eligible(s)
    BY <1>17 DEF ClaimBegin
  <2> QED BY <1>r, <1>e, <2>1, <2>2
<1>18. ASSUME NEW G, NEW f, Grants(G, f)
       PROVE  Good
  <2>1. pass' = NoPass /\ agent' = agent /\ due \subseteq due' /\ G \subseteq pass.waiting
    BY <1>18 DEF Grants
  <2>0. agent' = agent
    BY <2>1
  <2>2. \A a : (Checked => Checked') /\ (Told(a) => Told(a)')
    BY <2>1 DEF Told, Checked
  <2>3. ASSUME NEW r \in Held', Unfit(r)', claim'[r].st \notin {"removed", "inline"}
        PROVE  Told(claim[r].owner)'
    <3>0. r \in Requests /\ slot'[r] # 0
      BY <2>3 DEF Held
    <3>1. CASE r \in G
      <4>1. r \notin pass.inline
        BY <1>18, <2>3, <3>1, GrantsEffect
      <4>2. claim'[r].owner = claim[r].owner
        BY <1>18, <3>1, GrantsEffect
      <4>3. claim'[r].via = claim[r].via /\ claim'[r].st = IF claim[r].owner = User THEN "spent" ELSE claim[r].st
        BY <1>18, <3>1, <4>1, GrantsState
      <4>4. claim[r].owner \in Agents
        BY <2>3, <4>2 DEF Unfit
      <4>5. claim'[r].st = claim[r].st
        BY <4>3, <4>4, UserAssumption
      <4>6. Unfit(r)
        <5>1. Unfit(r)' = Unfit(r)
          BY <2>0, <4>2, <4>3, <4>5 DEF Unfit, Runs
        <5> QED BY <2>3, <5>1
      <4>7. claim[r].st # "removed"
        BY <2>3, <4>5
      <4> QED BY <2>1, <2>2, <3>1, <4>1, <4>2, <4>6, <4>7 DEF ReadTold, Told, Checked
    <3>2. CASE r \notin G
      <4>1. claim'[r] = claim[r] /\ slot'[r] = slot[r]
        BY <1>18, <3>0, <3>2, GrantsEffect
      <4>2. r \in Held
        BY <3>0, <4>1 DEF Held
      <4>3. Unfit(r)' = Unfit(r)
        BY <2>0, <4>1 DEF Unfit, Runs
      <4>4. Told(claim[r].owner)
        BY <2>3, <4>1, <4>2, <4>3 DEF HoldersTold
      <4> QED BY <2>2, <4>1, <4>4 DEF Told, Checked
    <3> QED BY <3>1, <3>2
  <2> QED BY <2>1, <2>3 DEF HoldersTold, ReadTold, NoPass
\* those who were told see to it
<1>q. ASSUME NEW a \in Agents, claim' = claim, agent' = agent, slot' = slot, pass' = pass,
             \A b : Told(b) => Told(b)' \/ b = a, Checked => Checked',
             ~Checked' => \A r \in Requests : claim[r].owner = a => slot[r] = 0 /\ (claim[r].st = "armed" => claim[r].lease)
      PROVE  Good
  <2>1. \A r \in Requests : Unfit(r)' = Unfit(r)
    BY <1>q DEF Unfit, Runs
  <2>2. Held' = Held /\ \A r \in Held : r \in Requests /\ slot[r] # 0
    BY <1>q DEF Held
  <2>3. \A b : Checked' => Told(b)'
    BY DEF Told
  <2>4. \A r \in pass.waiting \ pass.inline : r \in Requests /\ ~claim[r].lease /\ claim[r].st \in {"armed", "shelved", "removed"}
    BY ReadStates
  <2> HIDE DEF Held, Unfit, Told, Checked
  <2>5. HoldersTold'
    BY <1>q, <2>1, <2>2, <2>3 DEF HoldersTold
  <2>6. ReadTold'
    BY <1>q, <2>1, <2>3, <2>4 DEF ReadTold
  <2> QED BY <2>5, <2>6
<1>19. ASSUME NEW a \in Agents, RecheckHolder(a) \/ AfterMove(a)
       PROVE  Good
  <2>1. claim' = claim /\ agent' = agent /\ slot' = slot /\ pass' = pass
    BY <1>19 DEF RecheckHolder, AfterMove
  <2>2. /\ due \ {<<"recheck", a>>, <<"moved", a>>} \subseteq due'
        /\ Check \in due' \/ Drop \in due' \/ \A r \in Requests : claim[r].owner = a => slot[r] = 0 /\ (claim[r].st = "armed" => claim[r].lease)
    <3>1. CASE RecheckHolder(a)
      BY <3>1 DEF RecheckHolder, Touches
    <3>2. CASE AfterMove(a)
      <4>1. \A r \in Requests : claim[r].owner = a /\ (slot[r] # 0 \/ (claim[r].st = "armed" /\ ~claim[r].lease))
                                => r \in HeldBy(a) \cup Pending(a)
        BY DEF HeldBy, Held, Pending
      <4> QED BY <3>2, <4>1 DEF AfterMove
    <3> QED BY <1>19, <3>1, <3>2
  <2>3. (Checked => Checked') /\ \A b : Told(b) => Told(b)' \/ b = a
    BY <2>2 DEF Told, Checked
  <2>4. ~Checked' => \A r \in Requests : claim[r].owner = a => slot[r] = 0 /\ (claim[r].st = "armed" => claim[r].lease)
    BY <2>2 DEF Checked
  <2> QED BY <1>q, <2>1, <2>3, <2>4
<1>20. ASSUME CheckHolders
       PROVE  Good
  <2>1. claim' = claim /\ agent' = agent /\ pass' = pass /\ Unlocked /\ EndLeases({r \in Held : Unfit(r)})
    BY <1>20 DEF CheckHolders
  <2>2. \A r \in Requests : slot'[r] # 0 => slot[r] # 0 /\ ~Unfit(r)
    BY <2>1 DEF EndLeases, Held
  <2>3. \A r \in Requests : Unfit(r)' = Unfit(r)
    BY <2>1 DEF Unfit, Runs
  <2>4. pass'.waiting = {}
    BY <1>u, <2>1
  <2>5. \A r \in Held' : r \in Requests /\ slot'[r] # 0
    BY DEF Held
  <2> HIDE DEF Held, Unfit, Told
  <2> QED BY <2>2, <2>3, <2>4, <2>5 DEF HoldersTold, ReadTold
<1>21. ASSUME NEW a \in Agents, (\E on : SetHalt(a, on)) \/ FreezeNoAccount(a) \/ Thaw(a) \/ Move(a)
       PROVE  Good
  <2>1. claim' = claim /\ pass' = pass /\ slot' = slot /\ due \subseteq due'
    BY <1>21 DEF SetHalt, FreezeNoAccount, Thaw, Move
  <2>2. \A b \in Agents \ {a} : agent'[b] = agent[b]
    BY <1>21 DEF SetHalt, FreezeNoAccount, Thaw, Move, TypeOK
  <2>3. Told(a)'
    BY <1>21 DEF SetHalt, FreezeNoAccount, Thaw, Move, Told
  <2>4. agent[a].live \/ \A r \in Requests : claim[r].owner = a => Unfit(r) \/ claim[r].st # "shelved"
    BY DEF Unfit, Runs
  <2> QED BY <2>1, <2>2, <2>3, <2>4, ToldAgent
<1>22. ASSUME NEW a \in Agents, FreezeTurn(a) \/ FreezeStranded(a) \/ (\E on : UserHalt(a, on))
       PROVE  FALSE
  BY <1>22 DEF FreezeTurn, FreezeStranded, UserHalt
\* one that may hold its lease again need not be told
<1>25. ASSUME NEW a \in Agents, ContinueOn(a)
       PROVE  Good
  <2>1. claim' = claim /\ pass' = pass /\ slot' = slot /\ due' = due
    BY <1>25 DEF ContinueOn
  <2>2. \A r \in Requests : Unfit(r)' => Unfit(r)
    <3>1. \A b \in Agents : Runs(b) => Runs(b)'
      BY <1>25 DEF ContinueOn, Runs, TypeOK, AgentRows
    <3>2. \A b \in Agents : agent'[b].reach = agent[b].reach
      BY <1>25 DEF ContinueOn, TypeOK, AgentRows
    <3> HIDE DEF Runs
    <3> QED BY <2>1, <3>1, <3>2 DEF Unfit
  <2>3. \A b : Told(b)' = Told(b)
    BY <2>1 DEF Told, Checked
  <2>4. Held' = Held /\ Held \subseteq Requests /\ pass.waiting \subseteq Requests
    BY <2>1 DEF Held, TypeOK, Passes
  <2>5. Checked' = Checked
    BY <2>1 DEF Checked
  <2> HIDE DEF Held, Unfit, Told, Checked
  <2> QED BY <2>1, <2>2, <2>3, <2>4, <2>5 DEF HoldersTold, ReadTold
\* retirement and rehire change the claims of one agent with it
<1>t. ASSUME NEW a \in Agents, pass' = pass, slot' = slot, due \subseteq due',
             \A b \in Agents \ {a} : agent'[b] = agent[b],
             \A r \in Requests : claim[r].owner # a => claim'[r] = claim[r],
             \A r \in Requests : claim[r].owner = a => claim'[r].owner = a,
             \A r \in Held : claim[r].owner = a /\ claim'[r].st \notin {"removed", "inline"} => Told(a)',
             \A r \in pass.waiting \ pass.inline :
               claim[r].owner = a /\ claim'[r].st # "removed" => Checked' \/ (Told(a)' /\ claim'[r].st # "shelved")
      PROVE  Good
  <2>1. (Checked => Checked') /\ \A b : Told(b) => Told(b)'
    BY <1>t DEF Told, Checked
  <2>2. \A r \in Requests : claim[r].owner # a => Unfit(r)' = Unfit(r)
    BY <1>t DEF Unfit, Runs
  <2>3. Held' = Held /\ Held \subseteq Requests /\ pass.waiting \subseteq Requests
    BY <1>t DEF Held, TypeOK, Passes
  <2>4. \A r \in Requests : claim'[r].owner = claim[r].owner
    BY <1>t
  <2> HIDE DEF Held, Unfit, Told, Checked
  <2>5. HoldersTold'
    BY <1>t, <2>1, <2>2, <2>3, <2>4 DEF HoldersTold
  <2>6. ReadTold'
    BY <1>t, <2>1, <2>2, <2>3, <2>4 DEF ReadTold
  <2> QED BY <2>5, <2>6
<1>23. ASSUME NEW a \in Agents, Retire(a)
       PROVE  Good
  <2> DEFINE S == {r \in Requests : claim[r].owner = a /\ claim[r].st = "armed"}
  <2>1. /\ SetState(S, "shelved") /\ agent[a].live /\ pass' = pass /\ slot' = slot /\ due \subseteq due'
        /\ Touches(a) => Check \in due'
    BY <1>23 DEF Retire
  <2>2. \A b \in Agents \ {a} : agent'[b] = agent[b]
    BY <1>23 DEF Retire, TypeOK
  <2>3. \A r \in Requests : claim'[r].owner = claim[r].owner /\ claim'[r].st = IF r \in S THEN "shelved" ELSE claim[r].st
    BY <2>1, SetStateEffect
  <2>4. \A r \in Requests : claim[r].owner # a => claim'[r] = claim[r]
    BY <2>1 DEF SetState
  <2>5. \A r \in Requests : claim[r].owner = a /\ (slot[r] # 0 \/ claim[r].st = "armed") => Checked'
    BY <2>1 DEF Touches, Checked
  <2>6. \A r \in pass.waiting \ pass.inline : claim[r].owner = a /\ claim'[r].st # "removed" => Checked'
    <3>1. \A r \in Requests : claim[r].owner = a => claim[r].st # "shelved"
      BY <2>1 DEF ShelvedRetired
    <3> QED BY <2>3, <2>5, <3>1, ReadStates
  <2>7. Checked' => Told(a)'
    BY DEF Told
  <2>8. \A r \in Held : r \in Requests /\ slot[r] # 0
    BY DEF Held
  <2> HIDE DEF S, Held, Told, Checked
  <2> QED BY <1>t, <2>1, <2>2, <2>3, <2>4, <2>5, <2>6, <2>7, <2>8
<1>24. ASSUME NEW a \in Agents, Rehire(a)
       PROVE  Good
  <2> DEFINE S == {r \in Requests : claim[r].owner = a /\ claim[r].st = "shelved"}
  <2>1. SetState(S, "armed") /\ ~agent[a].live /\ pass' = pass /\ slot' = slot /\ due \subseteq due'
    BY <1>24 DEF Rehire
  <2>2. \A b \in Agents \ {a} : agent'[b] = agent[b]
    BY <1>24 DEF Rehire, TypeOK
  <2>3. \A r \in Requests : claim'[r].owner = claim[r].owner /\ claim'[r].st = IF r \in S THEN "armed" ELSE claim[r].st
    BY <2>1, SetStateEffect
  <2>4. \A r \in Requests : claim[r].owner # a => claim'[r] = claim[r]
    BY <2>1 DEF SetState
  <2>5. \A r \in Requests : claim[r].owner = a => Unfit(r)
    BY <2>1 DEF Unfit, Runs
  <2>6. (Checked => Checked') /\ \A b : Told(b) => Told(b)'
    BY <2>1 DEF Told, Checked
  <2>7. \A r \in Requests : /\ claim'[r].st \notin {"removed", "inline"} => claim[r].st \notin {"removed", "inline"}
                            /\ claim'[r].st # "removed" => claim[r].st # "removed"
                            /\ claim'[r].st = "shelved" => claim[r].st = "shelved"
    BY <2>3
  <2>8. Held \subseteq Requests /\ pass.waiting \subseteq Requests
    BY DEF Held, TypeOK, Passes
  <2> HIDE DEF S, Held, Told, Checked, Unfit
  <2>9. \A r \in Held : claim[r].owner = a /\ claim'[r].st \notin {"removed", "inline"} => Told(a)'
    BY <2>5, <2>6, <2>7, <2>8 DEF HoldersTold
  <2>10. \A r \in pass.waiting \ pass.inline :
           claim[r].owner = a /\ claim'[r].st # "removed" => Checked' \/ (Told(a)' /\ claim'[r].st # "shelved")
    BY <2>5, <2>6, <2>7, <2>8 DEF ReadTold
  <2> QED BY <1>t, <2>1, <2>2, <2>3, <2>4, <2>9, <2>10
<1> HIDE DEF Good
<1> QED
  BY <1>1, <1>2, <1>3, <1>4, <1>5, <1>6, <1>7, <1>8, <1>9, <1>10, <1>11, <1>12, <1>13, <1>14, <1>15, <1>16,
     <1>17, <1>18, <1>19, <1>20, <1>21, <1>22, <1>23, <1>24, <1>25,
     CommitGrants DEF Next, Work, Calls, Events, Good

(* A holder that is retired, halted by halt_targets, frozen for want of an account  *)
(* or moved out of the project's line is owed the recheck that takes its lease      *)
(* back, also when it goes on with another account in between.  Excepted are the    *)
(* writers that run no recheck (the user's halt of one agent, the freeze after the  *)
(* removal of an account), the freeze that ends a turn, whose death may be read     *)
(* before a grant in flight commits, and the late pause that revives a claim.       *)
THEOREM UnfitHoldersLeave ==
  ASSUME {"freeze", "pause", "userhalt", "removal"} \cap Env = {}
  PROVE  Spec => []UnfitHolderLeaves
<1>1. Init => NeverPaused /\ ShelvedRetired /\ HoldersTold /\ ReadTold
  BY DEF Init, NoClaim, NoPass, NeverPaused, ShelvedRetired, HoldersTold, ReadTold, Held
<1>2. TypeOK /\ IInv /\ FiresGranted /\ NeverPaused /\ ShelvedRetired /\ HoldersTold /\ ReadTold /\ [Next]_vars
      => NeverPaused' /\ ShelvedRetired' /\ HoldersTold' /\ ReadTold'
  <2>1. "pause" \notin Env
    OBVIOUS
  <2> QED BY <2>1, ShelvedStep, ToldStep
<1>3. HoldersTold => UnfitHolderLeaves
  <2> SUFFICES ASSUME HoldersTold, NEW r \in Held, Unfit(r), claim[r].st \notin {"removed", "inline"}
               PROVE  CheckComing
    BY DEF UnfitHolderLeaves
  <2>1. Told(claim[r].owner)
    BY DEF HoldersTold
  <2>2. claim[r].owner \in Agents
    BY DEF Unfit
  <2>3. Touches(claim[r].owner) /\ HeldBy(claim[r].owner) # {}
    BY DEF Touches, HeldBy, Held
  <2> QED BY <2>1, <2>2, <2>3 DEF CheckComing, Told, Checked
<1> QED BY <1>1, <1>2, <1>3, TypeCorrect, MarksKept, FiresGrantedHolds, PTL DEF Spec

(* More about the number of permits. *)

LEMMA UnitsDisjoint ==
  ASSUME TypeOK, NEW S \in SUBSET Requests, NEW T \in SUBSET Requests, S \cap T = {}
  PROVE  Units(S \cup T) = Units(S) + Units(T)
<1>1. Permits(S \cup T) = Permits(S) \cup Permits(T) /\ Permits(S) \cap Permits(T) = {}
  BY DEF Permits
<1>2. /\ IsFiniteSet(Permits(S)) /\ IsFiniteSet(Permits(T))
      /\ Units(S) \in Nat /\ Units(T) \in Nat
  BY PermitsFinite
<1>3. Cardinality(Permits(S) \cup Permits(T))
        = Cardinality(Permits(S)) + Cardinality(Permits(T)) - Cardinality(Permits(S) \cap Permits(T))
  BY <1>2, FS_Union
<1>4. Cardinality(Permits(S) \cap Permits(T)) = 0
  BY <1>1, FS_EmptySet
<1>5. Units(S \cup T) = Cardinality(Permits(S) \cup Permits(T))
  BY <1>1, Zenon DEF Units
<1> QED BY <1>2, <1>3, <1>4, <1>5 DEF Units

LEMMA UnitsOne ==
  ASSUME TypeOK, NEW r \in Requests
  PROVE  Units({r}) <= claim[r].n
<1> DEFINE n == claim[r].n
           f == [p \in Permits({r}) |-> p[2]]
<1>1. n \in 1..MaxCap
  BY DEF TypeOK, Claims
<1>2. IsFiniteSet(1..n) /\ Cardinality(1..n) = n
  <2>1. n \in Int /\ 1 \in Int /\ n >= 1
    BY <1>1, CapAssumption
  <2> HIDE DEF n
  <2> QED BY <2>1, FS_Interval
<1>3. \A p \in Permits({r}) : p[1] = r /\ p[2] \in 1..n /\ p = <<r, p[2]>>
  BY <1>1, CapAssumption DEF Permits
<1>4. f \in Injection(Permits({r}), 1..n)
  BY <1>3 DEF Injection, IsInjective
<1> QED BY <1>2, <1>4, FS_Injection DEF Units

(* While the head of the line fits, some caller owes the project a pass. *)

Wake == Grant \in due \/ Check \in due \/ Drop \in due

\* the owner of a claim in the line has changed and is yet to be looked at
LineOwed(r) == /\ InLine(r) /\ claim[r].owner \in Agents
               /\ <<"recheck", claim[r].owner>> \in due \/ <<"moved", claim[r].owner>> \in due

Owed == Wake \/ \E r \in Requests : LineOwed(r)

\* an open pass knows the line, but for claims whose owners are to be looked at
PassRead ==
  /\ pass.kind # "none" => \A r \in Requests \ pass.inline :
                             (r \in pass.waiting <=> Eligible(r)) \/ Wake \/ LineOwed(r)
  /\ pass.kind = "grant" => pass.inline = {}

LineServed == pass.kind # "grant" => \A r \in Requests : HeadFits(r) => Owed

\* the environment in which nothing else changes the line
Calm == {"edit", "project", "rehire", "dbfail", "freeze", "pause", "remove",
         "continue", "userhalt", "removal"} \cap Env = {}

Undisturbed == live /\ \A r \in Requests : <<"pause", r>> \notin due /\ <<"remove", r>> \notin due

Waking == {"grant", "check", "drop", "recheck", "moved"}

LEMMA WakingKept ==
  ASSUME \A j \in due : j[1] \in Waking => j \in due'
  PROVE  /\ Wake => Wake'
         /\ \A a : <<"recheck", a>> \in due => <<"recheck", a>> \in due'
         /\ \A a : <<"moved", a>> \in due => <<"moved", a>> \in due'
<1>1. /\ "grant" \in Waking /\ "check" \in Waking /\ "drop" \in Waking
      /\ "recheck" \in Waking /\ "moved" \in Waking
  BY DEF Waking
<1> HIDE DEF Waking
<1>2. \A k \in Waking : \A x : <<k, x>> \in due => <<k, x>> \in due'
  BY JobsKept, Zenon
<1> QED BY <1>1, <1>2, Zenon DEF Wake

\* nothing moves in the line
LineStays ==
  /\ cap' = cap /\ live' = live
  /\ Held' = Held /\ \A r \in Held : claim'[r].n = claim[r].n
  /\ \A r \in Requests : Eligible(r)' = Eligible(r) /\ (Eligible(r) => claim'[r].n = claim[r].n)
  /\ \A r, s \in Requests : Eligible(r) /\ Eligible(s) => (<<s, r>> \in before' <=> <<s, r>> \in before)

OwedStays == (Wake => Wake') /\ \A r \in Requests : LineOwed(r) => LineOwed(r)'

LEMMA HeadSame ==
  ASSUME LineStays
  PROVE  \A r \in Requests : HeadFits(r)' => HeadFits(r)
<1> USE DEF LineStays
<1>1. Waiting' = Waiting
  BY DEF Waiting
<1>2. \A r \in Waiting : UpTo(r, Waiting)' = UpTo(r, Waiting)
  BY <1>1 DEF UpTo, Waiting
<1>3. Permits(Held)' = Permits(Held)
  BY DEF Permits
<1>4. Units(Held)' = Units(Held)
  BY <1>3 DEF Units
<1>5. \A r \in Waiting : r \in Requests /\ Eligible(r)
  BY DEF Waiting
<1> HIDE DEF Waiting, Held
<1> QED BY <1>1, <1>2, <1>4, <1>5 DEF HeadFits

\* what is owed stays so, and nobody new comes to be the head
LEMMA LineKept ==
  ASSUME PassRead, LineServed, LineStays, OwedStays,
         pass' = pass \/ (pass'.kind = "none" /\ pass.kind = "claim")
  PROVE  PassRead' /\ LineServed'
<1>1. \A r \in Requests : HeadFits(r)' => HeadFits(r)
  BY HeadSame
<1>2. PassRead'
  BY DEF PassRead, LineStays, OwedStays
<1>3. LineServed'
  BY <1>1 DEF LineServed, Owed, OwedStays
<1> QED BY <1>2, <1>3

\* a pass that has been told of all it read leaves no head behind that fits
LEMMA CommitServes ==
  ASSUME TypeOK, TypeOK', IInv, PassRead, pass.kind # "none", NEW G, NEW f, Grants(G, f), pass.inline \subseteq G
  PROVE  PassRead' /\ LineServed'
<1> DEFINE W == pass.waiting
<1>1. pass' = NoPass /\ cap' = cap /\ agent' = agent /\ before' = before /\ due \subseteq due' /\ Winners(G, W)
  BY DEF Grants
<1>2. G \in SUBSET Requests /\ G \in SUBSET W /\ W \in SUBSET Requests
  BY GrantsEffect DEF TypeOK, Passes
<1>3. \A r \in Requests \ G : claim'[r] = claim[r]
  BY GrantsEffect
<1>4. \A r \in G : ~InLine(r)'
  BY GrantsEffect DEF InLine
<1>5. \A r \in Requests : Eligible(r)' <=> Eligible(r) /\ r \notin G
  <2>1. \A r \in Requests \ G : Eligible(r)' = Eligible(r)
    BY <1>1, <1>3 DEF Eligible, InLine, Reaches, Runs
  <2> QED BY <1>4, <2>1 DEF Eligible
<1>6. (Wake => Wake') /\ \A r \in Requests \ G : LineOwed(r) => LineOwed(r)'
  BY <1>1, <1>3 DEF Wake, LineOwed, InLine
<1>7. ASSUME NEW q \in Requests, HeadFits(q)', ~Owed'
      PROVE  FALSE
  <2>1. \A r \in Requests \ G : r \in W <=> Eligible(r)
    BY <1>6, <1>7 DEF PassRead, Owed
  <2>2. Eligible(q)' /\ UpTo(q, Waiting)' = {q} /\ claim'[q].n <= cap' - Units(Held)'
    BY <1>7 DEF HeadFits, Waiting
  <2>3. q \notin G /\ q \in W
    BY <1>5, <2>1, <2>2
  <2>4. ASSUME NEW s \in UpTo(q, W), s \notin G
        PROVE  s = q
    <3>1. s \in Requests /\ s \in W /\ (s = q \/ <<s, q>> \in before)
      BY <1>2, <2>4 DEF UpTo
    <3>2. Eligible(s)'
      BY <1>5, <2>1, <2>4, <3>1
    <3>3. s \in UpTo(q, Waiting)'
      BY <1>1, <3>1, <3>2 DEF UpTo, Waiting
    <3> QED BY <2>2, <3>3
  <2>5. UpTo(q, W) \in SUBSET (G \cup {q})
    BY <2>4
  <2>6. Units(UpTo(q, W)) > cap - Units(Held)
    BY <1>1, <2>3 DEF Winners
  <2>7. Units(UpTo(q, W)) <= Units(G \cup {q}) /\ Units(G \cup {q}) <= Units(G) + Units({q})
    BY <1>2, <2>5, UnitsMonotonic, UnitsUnion
  <2>8. Units({q}) <= claim[q].n /\ claim'[q].n = claim[q].n
    BY <1>3, <2>3, UnitsOne
  <2>9. Held \cap G = {}
    BY <1>2 DEF IInv, LineUnmarked, LeaseMarked, Held
  <2>10. Units(Held)' = Units(Held) + Units(G)
    BY <1>2, <2>9, UnitsDisjoint, GrantsHeld, HeldType
  <2>11. /\ Units(G) \in Nat /\ Units({q}) \in Nat /\ Units(Held) \in Nat /\ Units(G \cup {q}) \in Nat
         /\ Units(UpTo(q, W)) \in Nat /\ claim[q].n \in Nat /\ cap \in Nat
    <3>1. UpTo(q, W) \in SUBSET Requests
      BY <1>2 DEF UpTo
    <3>2. claim[q].n \in Nat /\ cap \in Nat
      BY CapAssumption DEF TypeOK, Claims
    <3> QED BY <1>2, <3>1, <3>2, PermitsFinite, HeldType
  <2> QED BY <1>1, <2>2, <2>6, <2>7, <2>8, <2>10, <2>11
<1>8. PassRead'
  BY <1>1 DEF PassRead, NoPass
<1> QED BY <1>7, <1>8 DEF LineServed

LEMMA LineStep ==
  ASSUME TypeOK, TypeOK', IInv, FiresGranted, Calm, Undisturbed, PassRead, LineServed, [Next]_vars
  PROVE  PassRead' /\ LineServed'
<1> DEFINE Good == PassRead' /\ LineServed'
           StillWakes == \A j \in due : j[1] \in Waking => j \in due'
           Frame == cap' = cap /\ live' = live /\ slot' = slot /\ pass' = pass
<1>u. Unlocked => pass.waiting = {} /\ pass.inline = {}
  BY DEF IInv, PassLocal
<1>h. \A r \in Requests : claim[r].st \in {"none", "creating"} => slot[r] = 0
  BY HeldMarked
<1>i. \A r \in Requests : Eligible(r) => InLine(r)
  BY DEF Eligible
\* a pass is owed whatever happens
<1>w. ASSUME Wake', pass'.kind = "grant" => pass'.inline = {}
      PROVE  Good
  BY <1>w DEF PassRead, LineServed, Owed
\* the line does not change
<1>k. ASSUME Frame, StillWakes, agent' = agent,
             \A r \in Requests : claim'[r] = claim[r] \/ (~InLine(r) /\ ~InLine(r)' /\ (slot[r] = 0 \/ claim'[r].n = claim[r].n)),
             \A r, s \in Requests : Eligible(r) /\ Eligible(s) => (<<s, r>> \in before' <=> <<s, r>> \in before)
      PROVE  Good
  <2>1. \A r \in Requests : Eligible(r)' = Eligible(r)
    BY <1>k DEF Eligible, InLine, Reaches, Runs
  <2>2. \A r \in Requests : InLine(r) => InLine(r)' /\ claim'[r].owner = claim[r].owner
    BY <1>k DEF InLine
  <2>3. \A r \in Requests : Eligible(r) => claim'[r].n = claim[r].n
    BY <1>k, <1>i
  <2>4. Held' = Held
    BY <1>k DEF Held
  <2>9. \A r \in Held : claim'[r].n = claim[r].n
    BY <1>k DEF Held
  <2>5. Wake => Wake'
    BY <1>k, WakingKept
  <2>6. \A r \in Requests : LineOwed(r) => LineOwed(r)'
    <3>1. \A a : (<<"recheck", a>> \in due => <<"recheck", a>> \in due') /\ (<<"moved", a>> \in due => <<"moved", a>> \in due')
      BY <1>k, WakingKept
    <3> HIDE DEF InLine
    <3> QED BY <2>2, <3>1 DEF LineOwed
  <2>7. \A r, s \in Requests : Eligible(r) /\ Eligible(s) => (<<s, r>> \in before' <=> <<s, r>> \in before)
    BY <1>k
  <2>8. cap' = cap /\ live' = live
    BY <1>k
  <2> HIDE DEF Eligible, InLine, Held, Wake, LineOwed
  <2>10. LineStays /\ OwedStays
    BY <2>1, <2>3, <2>4, <2>5, <2>6, <2>7, <2>8, <2>9 DEF LineStays, OwedStays
  <2>11. pass' = pass \/ (pass'.kind = "none" /\ pass.kind = "claim")
    BY <1>k
  <2> QED BY <2>10, <2>11, LineKept
\* nothing changes but jobs, and an open pass for the candidate of a create call
<1>f. ASSUME cap' = cap, live' = live, slot' = slot, agent' = agent, claim' = claim, before' = before,
             pass' = pass \/ (pass'.kind = "none" /\ pass.kind = "claim"), OwedStays
      PROVE  Good
  <2>1. \A r \in Requests : Eligible(r)' = Eligible(r)
    BY <1>f DEF Eligible, InLine, Reaches, Runs
  <2>2. Held' = Held
    BY <1>f DEF Held
  <2> HIDE DEF Eligible, Held
  <2>3. LineStays
    BY <1>f, <2>1, <2>2 DEF LineStays
  <2> QED BY <1>f, <2>3, LineKept
<1> HIDE DEF Good
<1>1. ASSUME NEW r \in Requests, NEW a \in Agents, NEW k \in 1..MaxCap, NEW inline \in BOOLEAN, CreateBegin(r, a, k, inline)
      PROVE  Good
  <2>1. Frame /\ StillWakes /\ agent' = agent
    BY <1>1 DEF CreateBegin, Waking
  <2>2. claim[r].st = "none" /\ claim'[r].st = "creating" /\ \A s \in Requests \ {r} : claim'[s] = claim[s]
    BY <1>1 DEF CreateBegin, TypeOK
  <2>3. ~InLine(r) /\ ~InLine(r)' /\ slot[r] = 0
    BY <1>h, <2>2 DEF InLine
  <2>4. \A x, s \in Requests \ {r} : <<s, x>> \in before' <=> <<s, x>> \in before
    BY <1>1 DEF CreateBegin, Stamped
  <2> QED BY <1>k, <1>i, <2>1, <2>2, <2>3, <2>4
<1>2. ASSUME NEW r \in Requests, ClaimRefused(r) \/ Insert(r)
      PROVE  Good
  <2>1. claim[r].st = "creating" /\ Frame /\ agent' = agent /\ (pass.kind = "grant" => pass.inline = {})
    BY <1>2 DEF ClaimRefused, Insert, IInv, CallsOnNew, PassRead
  <2>2. CASE Grant \in due'
    BY <1>w, <2>1, <2>2 DEF Wake
  <2>3. CASE Forget({r}) /\ StillWakes
    <3>1. claim'[r] = NoClaim /\ \A s \in Requests \ {r} : claim'[s] = claim[s]
      BY <2>3 DEF Forget
    <3>2. ~InLine(r) /\ ~InLine(r)' /\ slot[r] = 0
      BY <1>h, <2>1, <3>1 DEF InLine, NoClaim
    <3>3. \A x, s \in Requests \ {r} : <<s, x>> \in before' <=> <<s, x>> \in before
      BY <2>3 DEF Forget
    <3> QED BY <1>k, <1>i, <2>1, <2>3, <3>1, <3>2, <3>3
  <2>4. Grant \in due' \/ (Forget({r}) /\ StillWakes)
    <3>1. CASE ClaimRefused(r)
      BY <3>1 DEF ClaimRefused, Waking
    <3>2. CASE Insert(r)
      BY <3>2 DEF Insert, Waking
    <3> QED BY <1>2, <3>1, <3>2
  <2> QED BY <2>2, <2>3, <2>4
<1>3. ASSUME GrantBegin
      PROVE  Good
  <2>1. pass'.kind = "grant" /\ pass'.inline = {} /\ claim' = claim /\ agent' = agent
        /\ pass'.waiting = IF live THEN {r \in Requests : Eligible(r)} ELSE {}
    BY <1>3 DEF GrantBegin
  <2>2. \A r \in Requests : Eligible(r)' = Eligible(r)
    BY <2>1 DEF Eligible, InLine, Reaches, Runs
  <2> HIDE DEF Eligible
  <2> QED BY <2>1, <2>2 DEF Good, PassRead, LineServed, Undisturbed
<1>4. ASSUME NEW r \in Requests, ClaimBegin(r)
      PROVE  Good
  <2>1. /\ pass'.kind = "claim" /\ pass'.inline = {r} /\ claim' = claim /\ agent' = agent /\ Unlocked
        /\ cap' = cap /\ live' = live /\ slot' = slot /\ before' = before
        /\ \A s \in Requests \ {r} : s \in pass'.waiting <=> Eligible(s)
    BY <1>4 DEF ClaimBegin
  <2>2. (Wake => Wake') /\ \A s \in Requests : LineOwed(s) => LineOwed(s)'
    <3>1. StillWakes
      BY <1>4 DEF ClaimBegin, Waking
    <3>2. \A s \in Requests : InLine(s)' = InLine(s) /\ claim'[s].owner = claim[s].owner
      BY <2>1 DEF InLine
    <3>3. Wake => Wake'
      BY <3>1, WakingKept
    <3>4. \A a : (<<"recheck", a>> \in due => <<"recheck", a>> \in due') /\ (<<"moved", a>> \in due => <<"moved", a>> \in due')
      BY <3>1, WakingKept
    <3> HIDE DEF InLine, Wake
    <3> QED BY <3>2, <3>3, <3>4 DEF LineOwed
  <2>3. \A s \in Requests : Eligible(s)' = Eligible(s)
    BY <2>1 DEF Eligible, InLine, Reaches, Runs
  <2>4. \A s \in Requests : HeadFits(s)' => HeadFits(s)
    BY <2>1, <2>3, HeadSame DEF Held, LineStays
  <2>5. LineServed
    OBVIOUS
  <2> HIDE DEF Eligible, HeadFits, Wake, LineOwed
  <2>6. PassRead'
    BY <2>1, <2>3 DEF PassRead
  <2>7. LineServed'
    BY <2>1, <2>2, <2>4 DEF LineServed, Owed, Unlocked
  <2> QED BY <2>6, <2>7 DEF Good
<1>5. ASSUME GrantCommit \/ ClaimCommit
      PROVE  Good
  <2>1. pass.kind # "none"
    BY <1>5 DEF GrantCommit, ClaimCommit
  <2>2. PICK G, f : Grants(G, f) /\ pass.inline \subseteq G
    <3>1. CASE GrantCommit
      <4>1. pass.inline = {}
        BY <3>1 DEF GrantCommit, PassRead
      <4> QED BY <3>1, <4>1, CommitGrants
    <3>2. CASE ClaimCommit
      BY <3>2, Zenon DEF ClaimCommit, Grants
    <3> QED BY <1>5, <3>1, <3>2
  <2> QED BY <2>1, <2>2, CommitServes DEF Good
<1>6. ASSUME ClaimRollback
      PROVE  Good
  <2>1. /\ cap' = cap /\ live' = live /\ slot' = slot /\ agent' = agent /\ claim' = claim /\ before' = before
        /\ pass'.kind = "none" /\ pass.kind = "claim" /\ due \subseteq due'
    BY <1>6 DEF ClaimRollback, NoPass
  <2>2. (Wake => Wake') /\ \A r \in Requests : LineOwed(r) => LineOwed(r)'
    BY <2>1 DEF Wake, LineOwed, InLine
  <2> HIDE DEF Wake, LineOwed
  <2> QED BY <1>f, <2>1, <2>2 DEF OwedStays
<1>7. ASSUME NEW r \in Requests, FireFails(r)
      PROVE  FALSE
  BY <1>7 DEF FireFails, Calm
<1>8. ASSUME \/ GrantFails
             \/ \E a \in Agents : FreezeTurn(a) \/ FreezeStranded(a) \/ ContinueOn(a) \/ Rehire(a)
             \/ \E a \in Agents, on \in BOOLEAN : UserHalt(a, on)
             \/ \E r \in Requests, k \in 1..MaxCap : Edit(r, k)
             \/ \E on : SetProject(on)
             \/ \E r \in Requests, verb \in {"pause", "remove"} : ActBegin(r, verb)
      PROVE  FALSE
  BY <1>8 DEF GrantFails, FreezeTurn, FreezeStranded, ContinueOn, UserHalt, Rehire, Edit, SetProject, ActBegin, Calm
<1>9. ASSUME NEW r \in Requests, NEW verb \in {"pause", "remove"}, ActWrite(r, verb)
      PROVE  FALSE
  BY <1>9 DEF ActWrite, Undisturbed
<1>10. ASSUME NEW r \in Requests, Fire(r)
       PROVE  Good
  <2>1. Frame /\ StillWakes /\ agent' = agent /\ before' = before /\ <<"fire", r>> \in due
    BY <1>10 DEF Fire, Waking
  <2>2. claim[r].lease /\ claim'[r].lease /\ claim'[r].n = claim[r].n
    BY <1>10, <2>1, SetStateEffect DEF FiresGranted, Fire
  <2>3. \A s \in Requests \ {r} : claim'[s] = claim[s]
    BY <1>10 DEF Fire, SetState
  <2>4. ~InLine(r) /\ ~InLine(r)'
    BY <2>2 DEF InLine
  <2> QED BY <1>k, <2>1, <2>2, <2>3, <2>4
\* a pass is owed
<1>11. ASSUME NEW r \in Requests, Release(r) \/ ReleaseUserHold(r) \/ SlotCancel(r) \/ ResumeSlot(r)
       PROVE  Good
  <2>1. Grant \in due' /\ pass' = pass
    BY <1>11 DEF Release, ReleaseUserHold, SlotCancel, ResumeSlot
  <2> QED BY <1>w, <2>1 DEF Wake, PassRead
\* or the lease that was found idle has ended meanwhile
<1>21. ASSUME NEW r \in Requests, IdleReclaim(r)
       PROVE  Good
  <2>1. cap' = cap /\ live' = live /\ pass' = pass /\ agent' = agent /\ claim' = claim /\ before' = before /\ StillWakes
    BY <1>21 DEF IdleReclaim, Waking
  <2>2. CASE slot[r] # 0
    <3>1. Grant \in due'
      BY <1>21, <2>2 DEF IdleReclaim
    <3> QED BY <1>w, <2>1, <3>1 DEF Wake, PassRead
  <2>3. CASE slot[r] = 0
    <3>1. slot' = slot
      BY <1>21, <2>3 DEF IdleReclaim, EndLeases, TypeOK
    <3> QED BY <1>k, <2>1, <3>1
  <2> QED BY <2>2, <2>3
<1>12. ASSUME CheckHolders \/ (\E c : SetSlots(c)) \/ (\E r \in Requests, k \in 1..MaxCap : SlotHold(r, k))
              \/ \E a \in Agents : SlotUnqueue(a) \/ DeathEnd(a)
       PROVE  Good
  <2>1. Grant \in due' /\ pass' = pass
    BY <1>12 DEF CheckHolders, SetSlots, SlotHold, SlotUnqueue, DeathEnd
  <2> QED BY <1>w, <2>1 DEF Wake, PassRead
<1>13. ASSUME DropUnreached
       PROVE  Good
  <2>1. due' = (due \ {Drop}) \cup {Check} /\ pass' = pass
    BY <1>13, Zenon DEF DropUnreached
  <2>2. Check \in due'
    BY <2>1
  <2> QED BY <1>w, <2>1, <2>2 DEF Wake, PassRead
<1>14. ASSUME Crash
       PROVE  Good
  <2>1. pass' = NoPass
    BY <1>14 DEF Crash
  <2>2. ASSUME NEW r \in Requests, claim[r].st = "armed"
        PROVE  Check \in due'
    BY <1>14, <2>2 DEF Crash
  <2>3. ASSUME NEW r \in Requests, HeadFits(r)'
        PROVE  claim[r].st = "armed"
    <3>1. claim'[r].st = "armed"
      BY <2>3 DEF HeadFits, Waiting, Eligible, InLine
    <3>2. claim'[r] \in {claim[r], NoClaim}
      BY <1>14 DEF Crash, Forget
    <3> QED BY <3>1, <3>2 DEF NoClaim
  <2>4. \A r \in Requests : HeadFits(r)' => Wake'
    BY <2>2, <2>3 DEF Wake
  <2> HIDE DEF HeadFits, Wake
  <2> QED BY <2>1, <2>4 DEF Good, PassRead, LineServed, Owed, NoPass
\* the line is as it was
<1>15. ASSUME NEW r \in Requests, IdleRemind(r) \/ IdlePage(r)
       PROVE  Good
  <2>1. Frame /\ agent' = agent /\ claim' = claim /\ before' = before /\ StillWakes
    BY <1>15 DEF IdleRemind, IdlePage, Waking
  <2> QED BY <1>k, <2>1
<1>16. ASSUME NEW a \in Agents, DeathRead(a) \/ TurnDies(a)
       PROVE  Good
  <2>1. Frame /\ agent' = agent /\ claim' = claim /\ before' = before /\ StillWakes
    BY <1>16 DEF DeathRead, TurnDies, Waking
  <2> QED BY <1>k, <2>1
<1>17. ASSUME UNCHANGED vars
       PROVE  Good
  BY <1>17, <1>k DEF vars
\* the owners that are to be looked at are
<1>18. ASSUME NEW a \in Agents, RecheckHolder(a) \/ AfterMove(a)
       PROVE  Good
  <2>1. /\ cap' = cap /\ live' = live /\ slot' = slot /\ agent' = agent /\ claim' = claim /\ before' = before
        /\ pass' = pass /\ due \ {<<"recheck", a>>, <<"moved", a>>} \subseteq due'
    BY <1>18 DEF RecheckHolder, AfterMove
  <2>2. CASE Check \in due' \/ Drop \in due'
    <3>1. pass'.kind = "grant" => pass'.inline = {}
      BY <2>1 DEF PassRead
    <3> QED BY <1>w, <2>2, <3>1 DEF Wake
  <2>3. CASE \A r \in Requests : claim[r].owner = a => ~InLine(r)
    <3>1. Wake => Wake'
      BY <2>1 DEF Wake
    <3>2. \A b \in Agents \ {a} : /\ <<"recheck", b>> \in due => <<"recheck", b>> \in due'
                                  /\ <<"moved", b>> \in due => <<"moved", b>> \in due'
      BY <2>1
    <3>3. \A r \in Requests : InLine(r)' = InLine(r) /\ claim'[r].owner = claim[r].owner
      BY <2>1 DEF InLine
    <3> HIDE DEF Wake, InLine
    <3>4. \A r \in Requests : LineOwed(r) => LineOwed(r)'
      BY <2>3, <3>2, <3>3 DEF LineOwed
    <3> HIDE DEF LineOwed
    <3> QED BY <1>f, <2>1, <3>1, <3>4 DEF OwedStays
  <2>4. \/ Check \in due' \/ Drop \in due'
        \/ \A r \in Requests : claim[r].owner = a => ~InLine(r)
    <3>1. CASE RecheckHolder(a)
      BY <3>1 DEF RecheckHolder, Touches, InLine
    <3>2. CASE AfterMove(a)
      <4>1. \A r \in Requests : claim[r].owner = a /\ InLine(r) => r \in Pending(a)
        BY DEF InLine, Pending
      <4> QED BY <3>2, <4>1 DEF AfterMove
    <3> QED BY <1>18, <3>1, <3>2
  <2> QED BY <2>2, <2>3, <2>4
\* an agent's row changes, and a look at it is owed
<1>19. ASSUME NEW a \in Agents, (\E on : SetHalt(a, on)) \/ FreezeNoAccount(a) \/ Thaw(a) \/ Move(a)
       PROVE  Good
  <2>1. /\ cap' = cap /\ live' = live /\ slot' = slot /\ claim' = claim /\ before' = before
        /\ pass' = pass /\ due \subseteq due'
    BY <1>19 DEF SetHalt, FreezeNoAccount, Thaw, Move
  <2>2. <<"recheck", a>> \in due' \/ <<"moved", a>> \in due'
    BY <1>19 DEF SetHalt, FreezeNoAccount, Thaw, Move
  <2>3. \A b \in Agents \ {a} : agent'[b] = agent[b]
    BY <1>19 DEF SetHalt, FreezeNoAccount, Thaw, Move, TypeOK
  <2>4. \A r \in Requests : InLine(r)' = InLine(r) /\ claim'[r].owner = claim[r].owner
    BY <2>1 DEF InLine
  <2>5. \A r \in Requests : InLine(r) /\ claim[r].owner = a => LineOwed(r)'
    BY <2>1, <2>2, <2>4 DEF LineOwed
  <2>6. \A r \in Requests : ~InLine(r) \/ claim[r].owner # a => Eligible(r)' = Eligible(r)
    <3>1. \A r \in Requests : claim[r].owner \in Agents \cup {User}
      BY DEF TypeOK, Claims, Owners
    <3>2. \A r \in Requests : claim[r].owner # a => Eligible(r)' = Eligible(r)
      BY <2>1, <2>3, <3>1 DEF Eligible, InLine, Reaches, Runs
    <3>3. \A r \in Requests : ~InLine(r) => Eligible(r)' = Eligible(r)
      BY <2>4 DEF Eligible
    <3> HIDE DEF Eligible, InLine
    <3> QED BY <3>2, <3>3
  <2>7. (Wake => Wake') /\ \A r \in Requests : LineOwed(r) => LineOwed(r)'
    BY <2>1 DEF Wake, LineOwed, InLine
  <2>8. CASE \E r \in Requests : InLine(r) /\ claim[r].owner = a
    <3>1. Owed'
      BY <2>5, <2>8 DEF Owed
    <3> HIDE DEF Wake, LineOwed, InLine, Eligible
    <3>2. PassRead'
      BY <2>1, <2>5, <2>6, <2>7 DEF PassRead
    <3> QED BY <3>1, <3>2 DEF Good, LineServed
  <2>9. CASE \A r \in Requests : InLine(r) => claim[r].owner # a
    <3>1. \A r \in Requests : Eligible(r)' = Eligible(r)
      BY <2>6, <2>9
    <3>2. \A r \in Requests : HeadFits(r)' => HeadFits(r)
      BY <2>1, <3>1, HeadSame DEF Held, LineStays
    <3> HIDE DEF Wake, LineOwed, InLine, Eligible, HeadFits
    <3>3. PassRead'
      BY <2>1, <2>7, <3>1 DEF PassRead
    <3>4. LineServed'
      BY <2>1, <2>7, <3>2 DEF LineServed, Owed
    <3> QED BY <3>3, <3>4 DEF Good
  <2> QED BY <2>8, <2>9
<1>20. ASSUME NEW a \in Agents, Retire(a)
       PROVE  Good
  <2> DEFINE S == {r \in Requests : claim[r].owner = a /\ claim[r].st = "armed"}
  <2>1. /\ cap' = cap /\ live' = live /\ slot' = slot /\ before' = before /\ pass' = pass /\ due \subseteq due'
        /\ SetState(S, "shelved") /\ (Touches(a) => Check \in due')
    BY <1>20 DEF Retire
  <2>2. CASE Touches(a)
    <3>1. Wake'
      BY <2>1, <2>2 DEF Wake
    <3>2. pass'.kind = "grant" => pass'.inline = {}
      BY <2>1 DEF PassRead
    <3> QED BY <1>w, <3>1, <3>2
  <2>3. CASE ~Touches(a)
    <3>1. \A r \in Requests : claim'[r] = claim[r]
      BY <2>1, <2>3 DEF SetState, Touches
    <3>2. \A b \in Agents \ {a} : agent'[b] = agent[b]
      BY <1>20 DEF Retire, TypeOK
    <3>3. \A r \in Requests : InLine(r) => claim[r].owner # a
      BY <2>3 DEF InLine, Touches
    <3>4. \A r \in Requests : InLine(r)' = InLine(r)
      BY <3>1 DEF InLine
    <3>5. \A r \in Requests : Eligible(r)' = Eligible(r)
      <4>1. \A r \in Requests : claim[r].owner \in Agents \cup {User}
        BY DEF TypeOK, Claims, Owners
      <4>2. \A r \in Requests : claim[r].owner # a => Eligible(r)' = Eligible(r)
        BY <3>1, <3>2, <4>1 DEF Eligible, InLine, Reaches, Runs
      <4>3. \A r \in Requests : ~InLine(r) => Eligible(r)' = Eligible(r)
        BY <3>4 DEF Eligible
      <4> HIDE DEF Eligible, InLine
      <4> QED BY <3>3, <4>2, <4>3
    <3>6. \A r \in Requests : HeadFits(r)' => HeadFits(r)
      BY <2>1, <3>1, <3>5, HeadSame DEF Held, LineStays
    <3>7. (Wake => Wake') /\ \A r \in Requests : LineOwed(r) => LineOwed(r)'
      BY <2>1, <3>1 DEF Wake, LineOwed, InLine
    <3> HIDE DEF Wake, LineOwed, InLine, Eligible, HeadFits
    <3>8. PassRead'
      BY <2>1, <3>5, <3>7 DEF PassRead
    <3>9. LineServed'
      BY <2>1, <3>6, <3>7 DEF LineServed, Owed
    <3> QED BY <3>8, <3>9 DEF Good
  <2> QED BY <2>2, <2>3
<1> QED
  BY <1>1, <1>2, <1>3, <1>4, <1>5, <1>6, <1>7, <1>8, <1>9, <1>10, <1>11, <1>12, <1>13, <1>14, <1>15, <1>16,
     <1>17, <1>18, <1>19, <1>20, <1>21 DEF Next, Work, Calls, Events, Good

\* while those names are not in Env the project row stays live and no pause or removal starts
LEMMA UndisturbedStep ==
  ASSUME TypeOK, IInv, Calm, Undisturbed, [Next]_vars
  PROVE  Undisturbed'
<1> DEFINE NoActs == \A j \in due' : j[1] \in {"pause", "remove"} => j \in due
<1>1. ASSUME NoActs, live' = live
      PROVE  Undisturbed'
  <2>1. \A k \in {"pause", "remove"} : \A x : <<k, x>> \in due' => <<k, x>> \in due
    <3> DEFINE K == {"pause", "remove"}
    <3>1. \A j \in due' : j[1] \in K => j \in due
      BY <1>1
    <3> HIDE DEF K
    <3>2. \A k \in K : \A x : <<k, x>> \in due' => <<k, x>> \in due
      BY <3>1, JobsKept, Zenon
    <3> QED BY <3>2 DEF K
  <2> QED BY <1>1, <2>1 DEF Undisturbed
<1>2. live' = live
  <2>1. ASSUME NEW on, SetProject(on)
        PROVE  FALSE
    BY <2>1 DEF SetProject, Calm
  <2>2. CASE UNCHANGED vars
    BY <2>2 DEF vars
  <2>3. CASE Work
    BY <2>3 DEF Work, GrantBegin, GrantCommit, ClaimCommit, ClaimRollback, CheckHolders, DropUnreached,
      ClaimRefused, ClaimBegin, Insert, Fire, IdleReclaim, ActWrite, RecheckHolder, DeathRead, DeathEnd, AfterMove
  <2>4. CASE Events
    BY <2>4 DEF Events, Crash, GrantFails, FireFails, IdleRemind, IdlePage
  <2>5. CASE Calls
    BY <2>1, <2>5 DEF Calls, CreateBegin, SlotHold, Edit, Release, ReleaseUserHold, SlotCancel, ResumeSlot, ActBegin,
      SlotUnqueue, Retire, Rehire, Move, SetHalt, UserHalt, FreezeTurn, FreezeNoAccount, FreezeStranded, Thaw, ContinueOn, TurnDies, SetSlots
  <2> QED BY <2>2, <2>3, <2>4, <2>5 DEF Next
<1>3. NoActs
  <2>1. ASSUME NEW r, NEW verb, ActBegin(r, verb)
        PROVE  verb \in Env
    BY <2>1 DEF ActBegin
  <2>2. CASE UNCHANGED vars
    BY <2>2 DEF vars
  <2>3. CASE Work
    <3>1. ASSUME NEW G, NEW f, Grants(G, f)
          PROVE  NoActs
      BY <3>1 DEF Grants, Fires
    <3>2. CASE GrantBegin \/ ClaimRollback \/ CheckHolders
      BY <3>2 DEF GrantBegin, ClaimRollback, CheckHolders
    <3>3. CASE DropUnreached
      <4>1. due' = (due \ {Drop}) \cup {Check}
        BY <3>3, Zenon DEF DropUnreached
      <4> QED BY <4>1
    <3>4. ASSUME NEW r \in Requests, ClaimRefused(r) \/ ClaimBegin(r) \/ Insert(r) \/ Fire(r) \/ IdleReclaim(r)
          PROVE  NoActs
      BY <3>4 DEF ClaimRefused, ClaimBegin, Insert, Fire, IdleReclaim
    <3>5. ASSUME NEW r \in Requests, NEW verb \in {"pause", "remove"}, ActWrite(r, verb)
          PROVE  NoActs
      BY <3>5 DEF ActWrite
    <3>6. ASSUME NEW a \in Agents, RecheckHolder(a) \/ DeathRead(a) \/ DeathEnd(a) \/ AfterMove(a)
          PROVE  NoActs
      BY <3>6 DEF RecheckHolder, DeathRead, DeathEnd, AfterMove
    <3> QED BY <2>3, <3>1, <3>2, <3>3, <3>4, <3>5, <3>6, CommitGrants DEF Work
  <2>4. CASE Events
    <3>1. CASE Crash
      BY <3>1 DEF Crash
    <3>2. CASE GrantFails \/ \E r \in Requests : FireFails(r)
      BY <3>2 DEF GrantFails, FireFails, Calm
    <3>3. ASSUME NEW r \in Requests, IdleRemind(r) \/ IdlePage(r)
          PROVE  NoActs
      BY <3>3 DEF IdleRemind, IdlePage
    <3> QED BY <2>4, <3>1, <3>2, <3>3 DEF Events
  <2>5. CASE Calls
    <3>1. ASSUME NEW r \in Requests, NEW verb \in {"pause", "remove"}, ActBegin(r, verb)
          PROVE  FALSE
      BY <3>1 DEF ActBegin, Calm
    <3>2. ASSUME NEW r \in Requests, NEW a \in Agents, NEW k \in 1..MaxCap, NEW inline \in BOOLEAN, CreateBegin(r, a, k, inline)
          PROVE  NoActs
      BY <3>2 DEF CreateBegin
    <3>3. ASSUME NEW r \in Requests, NEW k \in 1..MaxCap, SlotHold(r, k) \/ Edit(r, k)
          PROVE  NoActs
      BY <3>3 DEF SlotHold, Edit
    <3>4. ASSUME NEW r \in Requests, Release(r) \/ ReleaseUserHold(r) \/ SlotCancel(r) \/ ResumeSlot(r)
          PROVE  NoActs
      BY <3>4 DEF Release, ReleaseUserHold, SlotCancel, ResumeSlot
    <3>5. ASSUME NEW a \in Agents, \/ SlotUnqueue(a) \/ Retire(a) \/ Rehire(a) \/ Move(a)
                                   \/ (\E on : SetHalt(a, on) \/ UserHalt(a, on)) \/ FreezeTurn(a) \/ FreezeNoAccount(a)
                                   \/ FreezeStranded(a) \/ Thaw(a) \/ ContinueOn(a) \/ TurnDies(a)
          PROVE  NoActs
      BY <3>5 DEF SlotUnqueue, Retire, Rehire, Move, SetHalt, UserHalt, FreezeTurn, FreezeNoAccount, FreezeStranded, Thaw, ContinueOn, TurnDies
    <3>6. ASSUME (\E c : SetSlots(c)) \/ \E on : SetProject(on)
          PROVE  NoActs
      BY <3>6 DEF SetSlots, SetProject
    <3> QED BY <2>5, <3>1, <3>2, <3>3, <3>4, <3>5, <3>6 DEF Calls
  <2> QED BY <2>2, <2>3, <2>4, <2>5 DEF Next
<1> QED BY <1>1, <1>2, <1>3

(* No wakeup is lost: while the first claim that may be granted fits in the free   *)
(* slots, a grant pass is owed, or a look at an agent that runs one, however        *)
(* claims, releases, deaths, moves, retirements, halts by halt_targets, freezes for *)
(* want of an account, thaws by thaw_matching and crashes fall between the steps of *)
(* a pass.  Calm leaves out what runs no pass afterwards: among the writers of an   *)
(* agent's state the thaw of an agent that goes on with another account             *)
(* (freeze::continue_on), the user's halt of one agent, the removal of an account   *)
(* and the freeze that ends a turn.                                                 *)
THEOREM NoWakeupIsLost ==
  ASSUME Calm
  PROVE  Spec => []NoLostWakeup
<1>1. Init => Undisturbed /\ PassRead /\ LineServed
  <2>1. ASSUME Init, NEW r \in Requests
        PROVE  ~HeadFits(r)
    BY <2>1 DEF Init, NoClaim, HeadFits, Waiting, Eligible, InLine
  <2>2. Init => Undisturbed /\ PassRead
    BY DEF Init, NoPass, Undisturbed, PassRead
  <2> HIDE DEF HeadFits
  <2> QED BY <2>1, <2>2 DEF LineServed
<1>2. TypeOK /\ TypeOK' /\ IInv /\ FiresGranted /\ Undisturbed /\ PassRead /\ LineServed /\ [Next]_vars
      => Undisturbed' /\ PassRead' /\ LineServed'
  BY UndisturbedStep, LineStep
<1>3. LineServed => NoLostWakeup
  <2> SUFFICES ASSUME LineServed, Unlocked, NEW r \in Requests, HeadFits(r)
               PROVE  Grant \in due \/ CheckComing
    BY DEF NoLostWakeup
  <2>1. Owed
    BY DEF LineServed, Unlocked
  <2>2. CASE Wake
    BY <2>2 DEF Wake, CheckComing
  <2>3. ASSUME NEW s \in Requests, LineOwed(s)
        PROVE  CheckComing
    <3>1. claim[s].owner \in Agents /\ Touches(claim[s].owner) /\ s \in Pending(claim[s].owner)
      BY <2>3 DEF LineOwed, InLine, Touches, Pending
    <3> QED BY <2>3, <3>1 DEF LineOwed, CheckComing
  <2> QED BY <2>1, <2>2, <2>3 DEF Owed
<1> QED BY <1>1, <1>2, <1>3, TypeCorrect, MarksKept, FiresGrantedHolds, PTL DEF Spec
=============================================================================
