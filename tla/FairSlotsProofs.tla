--------------------------- MODULE FairSlotsProofs ---------------------------
(***************************************************************************)
(* The in-memory slots, for any agents, orgs and limits: no slot is lost   *)
(* or idle, no waiter sleeps through its grant or its cancel.              *)
(***************************************************************************)
EXTENDS FairSlots, TLAPS, FiniteSetTheorems, SequenceTheorems

(* The queues. *)

SlotTypes == /\ limit \in Limits
             /\ held \in Nat
             /\ queue \in [Orgs -> Seq(Agents)]
             /\ ring \in Seq(Orgs)
             /\ last \in Orgs \cup {None}
             /\ granted \subseteq Agents

LEMMA LimitIsNat == TypeOK => limit \in Nat /\ held \in Nat
BY LimitAssumption DEF TypeOK

LEMMA OrgType == \A a \in Agents : OrgOf[a] \in Orgs
BY OrgAssumption

LEMMA QueueShape ==
  ASSUME TypeOK, NEW o \in Orgs
  PROVE  /\ queue[o] \in Seq(Agents)
         /\ Len(queue[o]) \in Nat
         /\ DOMAIN queue[o] = 1..Len(queue[o])
         /\ \A i \in DOMAIN queue[o] : queue[o][i] \in Agents
         /\ Waits(o) <=> DOMAIN queue[o] # {}
<1>1. queue[o] \in Seq(Agents)
  BY DEF TypeOK
<1>2. Len(queue[o]) \in Nat /\ DOMAIN queue[o] = 1..Len(queue[o])
  BY <1>1
<1>3. \A i \in DOMAIN queue[o] : queue[o][i] \in Agents
  BY <1>1, <1>2
<1>4. Waits(o) <=> DOMAIN queue[o] # {}
  <2>1. queue[o] # <<>> <=> Len(queue[o]) # 0
    BY <1>1, EmptySeq
  <2>2. 1..Len(queue[o]) = {} <=> Len(queue[o]) = 0
    BY <1>2
  <2> QED BY <1>2, <2>1, <2>2 DEF Waits
<1> QED BY <1>1, <1>2, <1>3, <1>4

\* A grant takes the head of one queue, and nothing else.
LEMMA GrantQueue ==
  ASSUME TypeOK, QueuedOnce, NEW o \in Orgs, Grant(o)
  PROVE  /\ Head(queue[o]) \in Agents
         /\ InQueue(Head(queue[o]))
         /\ queue' \in [Orgs -> Seq(Agents)]
         /\ QueuedOnce'
         /\ \A a \in Agents : InQueue(a)' <=> InQueue(a) /\ a # Head(queue[o])
<1> DEFINE s == queue[o]
           h == Head(s)
<1>1. s \in Seq(Agents) /\ s # <<>>
  BY DEF Grant, NextOrg, Waits, TypeOK
<1>2. /\ Len(s) \in Nat \ {0} /\ DOMAIN s = 1..Len(s)
      /\ h = s[1] /\ h \in Agents
      /\ Tail(s) \in Seq(Agents) /\ DOMAIN Tail(s) = 1..(Len(s) - 1)
      /\ \A i \in 1..(Len(s) - 1) : Tail(s)[i] = s[i + 1]
  BY <1>1, HeadTailProperties
<1>3. /\ queue' = [queue EXCEPT ![o] = Tail(s)]
      /\ queue'[o] = Tail(s)
      /\ \A p \in Orgs \ {o} : queue'[p] = queue[p]
  BY DEF Grant, TypeOK
<1>4. queue' \in [Orgs -> Seq(Agents)]
  BY <1>2, <1>3 DEF TypeOK
<1>3a. /\ DOMAIN queue'[o] = 1..(Len(s) - 1)
      /\ \A j \in DOMAIN queue'[o] : /\ j \in Nat /\ j + 1 \in DOMAIN s /\ j + 1 # 1
                                   /\ queue'[o][j] = s[j + 1]
  <2> HIDE DEF s
  <2>1. DOMAIN queue'[o] = 1..(Len(s) - 1)
    BY <1>2, <1>3
  <2>2. \A j \in 1..(Len(s) - 1) : j \in Nat /\ j + 1 \in 1..Len(s) /\ j + 1 # 1
    BY <1>2
  <2> QED BY <1>2, <1>3, <2>1, <2>2
<1>5. OrgOf[h] = o /\ InQueue(h)
  BY <1>2 DEF QueuedOnce, InQueue
<1>6. QueuedOnce'
  <2> SUFFICES ASSUME NEW p \in Orgs, NEW i \in DOMAIN queue'[p]
               PROVE  /\ OrgOf[queue'[p][i]] = p
                      /\ \A j \in DOMAIN queue'[p] : queue'[p][i] = queue'[p][j] => i = j
    BY DEF QueuedOnce
  <2>1. CASE p = o
    <3>1. OrgOf[queue'[p][i]] = p
      BY <1>3a, <2>1 DEF QueuedOnce
    <3>2. ASSUME NEW j \in DOMAIN queue'[p], queue'[p][i] = queue'[p][j]
          PROVE  i = j
      <4>1. i + 1 = j + 1
        BY <1>3a, <2>1, <3>2 DEF QueuedOnce
      <4> QED BY <1>3a, <2>1, <4>1
    <3> QED BY <3>1, <3>2
  <2>2. CASE p # o
    BY <1>3, <2>2 DEF QueuedOnce
  <2> QED BY <2>1, <2>2
<1>7. ASSUME NEW a \in Agents
      PROVE  InQueue(a)' <=> InQueue(a) /\ a # h
  <2>1. CASE OrgOf[a] # o
    BY <1>3, <1>5, <2>1, OrgType DEF InQueue
  <2>2. CASE OrgOf[a] = o
    <3>1. ASSUME InQueue(a)' PROVE InQueue(a) /\ a # h
      <4>1. PICK i \in DOMAIN queue'[o] : queue'[o][i] = a
        BY <2>2, <3>1 DEF InQueue
      <4>2. s[i + 1] = a /\ i + 1 \in DOMAIN s /\ 1 \in DOMAIN s /\ i + 1 # 1
        BY <1>2, <1>3a, <4>1
      <4> QED BY <1>2, <2>2, <4>2 DEF InQueue, QueuedOnce
    <3>2. ASSUME InQueue(a), a # h PROVE InQueue(a)'
      <4>1. PICK i \in 1..Len(s) : s[i] = a
        BY <1>2, <2>2, <3>2 DEF InQueue
      <4>2. i - 1 \in 1..(Len(s) - 1) /\ Tail(s)[i - 1] = a
        <5>1. i # 1 /\ i - 1 \in 1..(Len(s) - 1) /\ (i - 1) + 1 = i
          BY <1>2, <3>2, <4>1
        <5> QED BY <1>2, <4>1, <5>1
      <4> QED BY <1>2, <1>3, <2>2, <4>2 DEF InQueue
    <3> QED BY <3>1, <3>2
  <2> QED BY <2>1, <2>2
<1> QED BY <1>2, <1>4, <1>5, <1>6, <1>7

\* A new ticket goes to the end of its queue.
LEMMA AskQueue ==
  ASSUME TypeOK, QueuedOnce, NEW a \in Agents, Ask(a), ~InQueue(a)
  PROVE  /\ queue' \in [Orgs -> Seq(Agents)]
         /\ QueuedOnce'
         /\ \A b \in Agents : InQueue(b)' <=> InQueue(b) \/ b = a
         /\ \A o \in Orgs : \A i \in DOMAIN queue'[o] :
              queue'[o][i] = a \/ i \in DOMAIN queue[o]
<1> DEFINE o == OrgOf[a]
           s == queue[o]
<1>1. o \in Orgs /\ s \in Seq(Agents)
  BY OrgType DEF TypeOK
<1>2. /\ Len(s) \in Nat /\ DOMAIN s = 1..Len(s)
      /\ Append(s, a) \in Seq(Agents) /\ DOMAIN Append(s, a) = 1..(Len(s) + 1)
      /\ \A i \in 1..Len(s) : Append(s, a)[i] = s[i]
      /\ Append(s, a)[Len(s) + 1] = a
  BY <1>1, AppendProperties
<1>3. /\ queue' = [queue EXCEPT ![o] = Append(s, a)]
      /\ queue'[o] = Append(s, a)
      /\ \A p \in Orgs \ {o} : queue'[p] = queue[p]
  BY <1>1 DEF Ask, TypeOK
<1>4. queue' \in [Orgs -> Seq(Agents)]
  BY <1>1, <1>2, <1>3 DEF TypeOK
<1>5. \A i \in DOMAIN s : s[i] # a
  BY DEF InQueue
<1>6. QueuedOnce'
  <2> SUFFICES ASSUME NEW p \in Orgs, NEW i \in DOMAIN queue'[p]
               PROVE  /\ OrgOf[queue'[p][i]] = p
                      /\ \A j \in DOMAIN queue'[p] : queue'[p][i] = queue'[p][j] => i = j
    BY DEF QueuedOnce
  <2>1. CASE p = o
    <3>1. \A j \in DOMAIN queue'[p] :
            /\ j \in DOMAIN s => queue'[p][j] = s[j]
            /\ j \notin DOMAIN s => j = Len(s) + 1 /\ queue'[p][j] = a
      BY <1>2, <1>3, <2>1
    <3> QED BY <1>1, <1>5, <2>1, <3>1 DEF QueuedOnce
  <2>2. CASE p # o
    BY <1>3, <2>2 DEF QueuedOnce
  <2> QED BY <2>1, <2>2
<1>7. ASSUME NEW b \in Agents
      PROVE  InQueue(b)' <=> InQueue(b) \/ b = a
  <2>1. CASE OrgOf[b] # o
    BY <1>3, <2>1, OrgType DEF InQueue
  <2>2. CASE OrgOf[b] = o
    <3>1. \A j \in 1..(Len(s) + 1) : j \in 1..Len(s) \/ j = Len(s) + 1
      BY <1>2
    <3>2. 1..Len(s) \subseteq 1..(Len(s) + 1) /\ Len(s) + 1 \in 1..(Len(s) + 1)
      BY <1>2
    <3> QED BY <1>2, <1>3, <2>2, <3>1, <3>2 DEF InQueue
  <2> QED BY <2>1, <2>2
<1>8. ASSUME NEW p \in Orgs, NEW i \in DOMAIN queue'[p]
      PROVE  queue'[p][i] = a \/ i \in DOMAIN queue[p]
  BY <1>2, <1>3
<1> QED BY <1>4, <1>6, <1>7, <1>8

LEMMA WithoutOne ==
  ASSUME NEW S, NEW s \in Seq(S), NEW i \in DOMAIN s
  PROVE  /\ Without(s, i) \in Seq(S)
         /\ DOMAIN Without(s, i) = 1..(Len(s) - 1)
         /\ \A j \in 1..(Len(s) - 1) :
              Without(s, i)[j] = IF j < i THEN s[j] ELSE s[j + 1]
<1>1. Len(s) \in Nat /\ DOMAIN s = 1..Len(s) /\ i \in 1..Len(s)
  OBVIOUS
<1>2. Len(s) - 1 \in Nat
  BY <1>1
<1>3. \A j \in 1..(Len(s) - 1) : j \in 1..Len(s) /\ j + 1 \in 1..Len(s)
  BY <1>1
<1>4. \A j \in 1..Len(s) : s[j] \in S
  BY <1>1
<1>5. Without(s, i) \in [1..(Len(s) - 1) -> S]
  BY <1>3, <1>4 DEF Without
<1>6. Without(s, i) \in Seq(S)
  BY <1>2, <1>5, SeqDef
<1> QED BY <1>5, <1>6 DEF Without

\* A ticket that is abandoned leaves its queue, and the others keep their order.
LEMMA AbandonQueue ==
  ASSUME TypeOK, QueuedOnce, NEW a \in Agents, Abandon(a)
  PROVE  /\ queue' \in [Orgs -> Seq(Agents)]
         /\ QueuedOnce'
         /\ \A b \in Agents : InQueue(b)' <=> InQueue(b) /\ b # a
         /\ \A o \in Orgs : Waits(o)' => Waits(o)
<1> DEFINE o == OrgOf[a]
           s == queue[o]
<1>1. o \in Orgs /\ s \in Seq(Agents)
  BY OrgType DEF TypeOK
<1>2. PICK i \in DOMAIN s : s[i] = a /\ queue' = [queue EXCEPT ![o] = Without(s, i)]
  BY DEF Abandon
<1> DEFINE t == Without(s, i)
<1>3. /\ t \in Seq(Agents) /\ DOMAIN t = 1..(Len(s) - 1)
      /\ \A j \in 1..(Len(s) - 1) : t[j] = IF j < i THEN s[j] ELSE s[j + 1]
  BY <1>1, WithoutOne
<1>4. Len(s) \in Nat /\ DOMAIN s = 1..Len(s) /\ i \in 1..Len(s)
  BY <1>1, <1>2
<1>5. queue'[o] = t /\ \A p \in Orgs \ {o} : queue'[p] = queue[p]
  BY <1>1, <1>2 DEF TypeOK
<1>6. queue' \in [Orgs -> Seq(Agents)]
  BY <1>1, <1>2, <1>3 DEF TypeOK
<1> HIDE DEF t
<1> DEFINE was(j) == IF j < i THEN j ELSE j + 1
<1>7. \A j \in DOMAIN t : was(j) \in DOMAIN s /\ was(j) # i /\ t[j] = s[was(j)]
  BY <1>3, <1>4
<1>8. \A j, k \in DOMAIN t : was(j) = was(k) => j = k
  BY <1>3, <1>4
<1>9. \A k \in DOMAIN s : k # i => \E j \in DOMAIN t : was(j) = k
  <2> SUFFICES ASSUME NEW k \in 1..Len(s), k # i
               PROVE  \E j \in 1..(Len(s) - 1) : was(j) = k
    BY <1>3, <1>4
  <2>1. CASE k < i
    BY <1>4, <2>1
  <2>2. CASE k > i
    <3>1. k - 1 \in 1..(Len(s) - 1) /\ was(k - 1) = k
      BY <1>4, <2>2
    <3> QED BY <3>1
  <2> QED BY <1>4, <2>1, <2>2
<1> HIDE DEF was
<1>10. QueuedOnce'
  <2> SUFFICES ASSUME NEW p \in Orgs, NEW j \in DOMAIN queue'[p]
               PROVE  /\ OrgOf[queue'[p][j]] = p
                      /\ \A k \in DOMAIN queue'[p] : queue'[p][j] = queue'[p][k] => j = k
    BY DEF QueuedOnce
  <2>1. CASE p = o
    BY <1>1, <1>5, <1>7, <1>8, <2>1 DEF QueuedOnce
  <2>2. CASE p # o
    BY <1>5, <2>2 DEF QueuedOnce
  <2> QED BY <2>1, <2>2
<1>11. ASSUME NEW b \in Agents
       PROVE  InQueue(b)' <=> InQueue(b) /\ b # a
  <2>1. CASE OrgOf[b] # o
    BY <1>5, <2>1, OrgType DEF InQueue
  <2>2. CASE OrgOf[b] = o
    <3>1. InQueue(b) <=> \E k \in DOMAIN s : s[k] = b
      BY <2>2 DEF InQueue
    <3>2. InQueue(b)' <=> \E k \in DOMAIN t : t[k] = b
      BY <1>5, <2>2 DEF InQueue
    <3>3. \A k \in DOMAIN s : s[k] = a <=> k = i
      BY <1>1, <1>2 DEF QueuedOnce
    <3> QED BY <1>7, <1>9, <3>1, <3>2, <3>3
  <2> QED BY <2>1, <2>2
<1>12. ASSUME NEW p \in Orgs, Waits(p)' PROVE Waits(p)
  <2>1. CASE p = o
    BY <1>2, <1>4, <1>1, <2>1 DEF Waits
  <2>2. CASE p # o
    BY <1>5, <1>12, <2>2 DEF Waits
  <2> QED BY <2>1, <2>2
<1> QED BY <1>6, <1>10, <1>11, <1>12

(* The types.                                                               *)

LEMMA InitTypes == Init => TypeOK /\ IInv
<1> SUFFICES ASSUME Init PROVE TypeOK /\ IInv
  OBVIOUS
<1>1. \A o \in Orgs : queue[o] = <<>> /\ DOMAIN queue[o] = {} /\ queue[o] \in Seq(Agents)
  BY EmptySeq DEF Init
<1>2. ring \in Seq(Orgs)
  BY EmptySeq DEF Init
<1>3. TypeOK
  BY <1>1, <1>2, LimitAssumption DEF Init, TypeOK, Places
<1>4. IsFiniteSet(granted) /\ HeldCounts
  BY FS_EmptySet DEF Init, HeldCounts
<1>5. TicketsKept /\ NoLostWakeup /\ CutTokens
  BY <1>1, OrgType DEF Init, TicketsKept, InQueue, NoLostWakeup, CutTokens
<1>6. NoIdleSlot /\ QueuedOnce
  BY <1>1 DEF Init, NoIdleSlot, Room, Waits, QueuedOnce
<1>7. BannerCurrent /\ SetterCurrent
  BY DEF Init, BannerCurrent, SetterCurrent
<1>8. LockHeld
  BY LockAssumption DEF Init, LockHeld
<1> QED BY <1>3, <1>4, <1>5, <1>6, <1>7, <1>8 DEF IInv

\* A slot that is given back was given out.
LEMMA GivenBack ==
  ASSUME TypeOK, IInv, NEW a \in Agents, HandOn(a) \/ Exit(a)
  PROVE  /\ a \in granted /\ granted' = granted \ {a}
         /\ held' \in Nat /\ IsFiniteSet(granted') /\ HeldCounts'
<1>1. /\ a \in granted /\ granted' = granted \ {a} /\ held' = held - 1
  BY DEF HandOn, Exit, GiveBack, IInv, TicketsKept
<1>2. /\ IsFiniteSet(granted) /\ held = Cardinality(granted)
  BY DEF IInv, HeldCounts
<1>3. /\ IsFiniteSet(granted') /\ Cardinality(granted') = held - 1
  BY <1>1, <1>2, FS_RemoveElement
<1>4. held' \in Nat
  BY <1>1, <1>3, FS_CardinalityType
<1> QED BY <1>1, <1>3, <1>4 DEF HeldCounts

\* A slot that is given out was free, and goes to a ticket that has none.
LEMMA GivenOut ==
  ASSUME TypeOK, IInv, NEW o \in Orgs, Grant(o)
  PROVE  /\ Head(queue[o]) \in Agents \ granted
         /\ granted' = granted \cup {Head(queue[o])}
         /\ held' \in Nat /\ IsFiniteSet(granted') /\ HeldCounts'
<1>1. Head(queue[o]) \in Agents /\ InQueue(Head(queue[o]))
  BY GrantQueue DEF IInv
<1>2. Head(queue[o]) \notin granted
  BY <1>1 DEF IInv, TicketsKept
<1>3. granted' = granted \cup {Head(queue[o])} /\ held' = held + 1
  BY DEF Grant
<1>4. /\ IsFiniteSet(granted') /\ Cardinality(granted') = held + 1
  BY <1>2, <1>3, FS_AddElement DEF IInv, HeldCounts
<1> QED BY <1>1, <1>2, <1>3, <1>4, LimitIsNat DEF HeldCounts

LEMMA SlotsOrNot ==
  ASSUME Next
  PROVE  \/ \E o \in Orgs : Grant(o)
         \/ SetLimit
         \/ \E a \in Agents : Ask(a) \/ HandOn(a) \/ Exit(a) \/ Abandon(a)
         \/ UNCHANGED slotVars
BY DEF Next, Turn, Wait, Settings, LimitSet, Refresh, Enter, Asked, Granted, Sleep, Queued, Leave,
   Settle, Notify, Wake, Interrupt, Halt, UndoHalt, Unhalt

LEMMA SlotTypesKept ==
  ASSUME TypeOK, IInv, Next
  PROVE  SlotTypes'
<1>1. ASSUME NEW o \in Orgs, Grant(o) PROVE SlotTypes'
  <2>1. queue' \in [Orgs -> Seq(Agents)]
    BY <1>1, GrantQueue DEF IInv
  <2>2. granted' \subseteq Agents /\ held' \in Nat
    BY <1>1, GivenOut DEF TypeOK
  <2> QED BY <1>1, <2>1, <2>2 DEF Grant, SlotTypes, TypeOK
<1>2. ASSUME SetLimit PROVE SlotTypes'
  BY <1>2 DEF SetLimit, SlotTypes, TypeOK
<1>3. ASSUME NEW a \in Agents, Ask(a) PROVE SlotTypes'
  <2>1. ~InQueue(a)
    BY <1>3 DEF Ask, IInv, TicketsKept
  <2>2. queue' \in [Orgs -> Seq(Agents)]
    BY <1>3, <2>1, AskQueue DEF IInv
  <2>3. ring' \in Seq(Orgs)
    BY <1>3, OrgType, AppendProperties DEF Ask, TypeOK
  <2> QED BY <1>3, <2>2, <2>3 DEF Ask, SlotTypes, TypeOK
<1>4. ASSUME NEW a \in Agents, HandOn(a) \/ Exit(a) PROVE SlotTypes'
  <2>1. granted' \subseteq Agents /\ held' \in Nat
    BY <1>4, GivenBack DEF TypeOK
  <2> QED BY <1>4, <2>1 DEF HandOn, Exit, GiveBack, SlotTypes, TypeOK
<1>5. ASSUME NEW a \in Agents, Abandon(a) PROVE SlotTypes'
  BY <1>5, AbandonQueue DEF Abandon, SlotTypes, TypeOK, IInv
<1>6. ASSUME UNCHANGED slotVars PROVE SlotTypes'
  BY <1>6 DEF slotVars, SlotTypes, TypeOK
<1> QED BY <1>1, <1>2, <1>3, <1>4, <1>5, <1>6, SlotsOrNot

ThreadTypes == /\ lock \in {"free", "setter"} \cup Agents
               /\ pc \in [Agents -> Places]

FlagTypes == /\ token \subseteq Agents /\ halted \subseteq Agents /\ wakes \subseteq Agents
             /\ setter \in {None} \cup Limits
             /\ banner \in [Agents -> {None} \cup Limits]
             /\ cut \subseteq Agents
             /\ passed \in [Orgs -> SUBSET Orgs]

LEMMA ThreadTypesKept ==
  ASSUME TypeOK, IInv, Next
  PROVE  ThreadTypes'
<1>1. ASSUME NEW o \in Orgs, Grant(o) PROVE ThreadTypes'
  BY <1>1 DEF Grant, ThreadTypes, TypeOK, Places
<1>2. ASSUME SetLimit PROVE ThreadTypes'
  BY <1>2 DEF SetLimit, ThreadTypes, TypeOK, Places
<1>3. ASSUME LimitSet PROVE ThreadTypes'
  BY <1>3 DEF LimitSet, WakeAll, ThreadTypes, TypeOK, Places
<1>4. ASSUME Refresh PROVE ThreadTypes'
  BY <1>4 DEF Refresh, ThreadTypes, TypeOK, Places
<1>5. ASSUME NEW a \in Agents, Enter(a) PROVE ThreadTypes'
  BY <1>5 DEF Enter, Goes, ThreadTypes, TypeOK, Places
<1>6. ASSUME NEW a \in Agents, Ask(a) PROVE ThreadTypes'
  BY <1>6 DEF Ask, Goes, ThreadTypes, TypeOK, Places
<1>7. ASSUME NEW a \in Agents, Asked(a) PROVE ThreadTypes'
  BY <1>7 DEF Asked, Goes, ThreadTypes, TypeOK, Places
<1>8. ASSUME NEW a \in Agents, Granted(a) PROVE ThreadTypes'
  BY <1>8 DEF Granted, Goes, ThreadTypes, TypeOK, Places
<1>9. ASSUME NEW a \in Agents, HandOn(a) PROVE ThreadTypes'
  BY <1>9 DEF HandOn, GiveBack, Goes, ThreadTypes, TypeOK, Places
<1>10. ASSUME NEW a \in Agents, Abandon(a) PROVE ThreadTypes'
  BY <1>10 DEF Abandon, Goes, ThreadTypes, TypeOK, Places
<1>11. ASSUME NEW a \in Agents, Sleep(a) PROVE ThreadTypes'
  BY <1>11 DEF Sleep, Goes, ThreadTypes, TypeOK, Places
<1>12. ASSUME NEW a \in Agents, Queued(a) PROVE ThreadTypes'
  BY <1>12 DEF Queued, Goes, ThreadTypes, TypeOK, Places
<1>13. ASSUME NEW a \in Agents, Leave(a) PROVE ThreadTypes'
  BY <1>13 DEF Leave, Goes, ThreadTypes, TypeOK, Places
<1>14. ASSUME NEW a \in Agents, Settle(a) PROVE ThreadTypes'
  BY <1>14 DEF Settle, Goes, ThreadTypes, TypeOK, Places
<1>15. ASSUME NEW a \in Agents, Exit(a) PROVE ThreadTypes'
  BY <1>15 DEF Exit, GiveBack, Goes, ThreadTypes, TypeOK, Places
<1>16. ASSUME NEW a \in Agents, Notify(a) PROVE ThreadTypes'
  BY <1>16 DEF Notify, WakeAll, ThreadTypes, TypeOK, Places
<1>17. ASSUME NEW a \in Agents, Wake(a) PROVE ThreadTypes'
  BY <1>17 DEF Wake, WakeAll, ThreadTypes, TypeOK, Places
<1>18. ASSUME NEW a \in Agents, Interrupt(a) PROVE ThreadTypes'
  BY <1>18 DEF Interrupt, ThreadTypes, TypeOK, Places
<1>19. ASSUME NEW a \in Agents, Halt(a) PROVE ThreadTypes'
  BY <1>19 DEF Halt, ThreadTypes, TypeOK, Places
<1>20. ASSUME NEW a \in Agents, UndoHalt(a) PROVE ThreadTypes'
  BY <1>20 DEF UndoHalt, ThreadTypes, TypeOK, Places
<1>21. ASSUME NEW a \in Agents, Unhalt(a) PROVE ThreadTypes'
  BY <1>21 DEF Unhalt, ThreadTypes, TypeOK, Places
<1> QED BY <1>1, <1>2, <1>3, <1>4, <1>5, <1>6, <1>7, <1>8, <1>9, <1>10, <1>11, <1>12, <1>13, <1>14, <1>15, <1>16, <1>17, <1>18, <1>19, <1>20, <1>21 DEF Next, Turn, Wait, Settings

LEMMA FlagTypesKept ==
  ASSUME TypeOK, IInv, Next
  PROVE  FlagTypes'
<1>1. ASSUME NEW o \in Orgs, Grant(o) PROVE FlagTypes'
  BY <1>1 DEF Grant, FlagTypes, TypeOK
<1>2. ASSUME SetLimit PROVE FlagTypes'
  BY <1>2 DEF SetLimit, FlagTypes, TypeOK
<1>3. ASSUME LimitSet PROVE FlagTypes'
  BY <1>3 DEF LimitSet, WakeAll, FlagTypes, TypeOK
<1>4. ASSUME Refresh PROVE FlagTypes'
  BY <1>4 DEF Refresh, FlagTypes, TypeOK
<1>5. ASSUME NEW a \in Agents, Enter(a) PROVE FlagTypes'
  BY <1>5 DEF Enter, Goes, FlagTypes, TypeOK
<1>6. ASSUME NEW a \in Agents, Ask(a) PROVE FlagTypes'
  BY <1>6 DEF Ask, Goes, FlagTypes, TypeOK
<1>7. ASSUME NEW a \in Agents, Asked(a) PROVE FlagTypes'
  BY <1>7 DEF Asked, Goes, FlagTypes, TypeOK
<1>8. ASSUME NEW a \in Agents, Granted(a) PROVE FlagTypes'
  BY <1>8 DEF Granted, Goes, FlagTypes, TypeOK
<1>9. ASSUME NEW a \in Agents, HandOn(a) PROVE FlagTypes'
  BY <1>9 DEF HandOn, GiveBack, Goes, FlagTypes, TypeOK
<1>10. ASSUME NEW a \in Agents, Abandon(a) PROVE FlagTypes'
  BY <1>10 DEF Abandon, Goes, FlagTypes, TypeOK
<1>11. ASSUME NEW a \in Agents, Sleep(a) PROVE FlagTypes'
  BY <1>11 DEF Sleep, Goes, FlagTypes, TypeOK
<1>12. ASSUME NEW a \in Agents, Queued(a) PROVE FlagTypes'
  BY <1>12 DEF Queued, Goes, FlagTypes, TypeOK
<1>13. ASSUME NEW a \in Agents, Leave(a) PROVE FlagTypes'
  BY <1>13 DEF Leave, Goes, FlagTypes, TypeOK
<1>14. ASSUME NEW a \in Agents, Settle(a) PROVE FlagTypes'
  BY <1>14 DEF Settle, Goes, FlagTypes, TypeOK
<1>15. ASSUME NEW a \in Agents, Exit(a) PROVE FlagTypes'
  BY <1>15 DEF Exit, GiveBack, Goes, FlagTypes, TypeOK
<1>16. ASSUME NEW a \in Agents, Notify(a) PROVE FlagTypes'
  BY <1>16 DEF Notify, WakeAll, FlagTypes, TypeOK
<1>17. ASSUME NEW a \in Agents, Wake(a) PROVE FlagTypes'
  BY <1>17 DEF Wake, WakeAll, FlagTypes, TypeOK
<1>18. ASSUME NEW a \in Agents, Interrupt(a) PROVE FlagTypes'
  BY <1>18 DEF Interrupt, FlagTypes, TypeOK
<1>19. ASSUME NEW a \in Agents, Halt(a) PROVE FlagTypes'
  BY <1>19 DEF Halt, FlagTypes, TypeOK
<1>20. ASSUME NEW a \in Agents, UndoHalt(a) PROVE FlagTypes'
  BY <1>20 DEF UndoHalt, FlagTypes, TypeOK
<1>21. ASSUME NEW a \in Agents, Unhalt(a) PROVE FlagTypes'
  BY <1>21 DEF Unhalt, FlagTypes, TypeOK
<1> QED BY <1>1, <1>2, <1>3, <1>4, <1>5, <1>6, <1>7, <1>8, <1>9, <1>10, <1>11, <1>12, <1>13, <1>14, <1>15, <1>16, <1>17, <1>18, <1>19, <1>20, <1>21 DEF Next, Turn, Wait, Settings

LEMMA TypeKept ==
  ASSUME TypeOK, IInv, Next
  PROVE  TypeOK'
BY SlotTypesKept, ThreadTypesKept, FlagTypesKept DEF SlotTypes, ThreadTypes, FlagTypes, TypeOK

(* The invariant, one part after another.                                   *)

LEMMA HeldCountsKept ==
  ASSUME TypeOK, IInv, Next
  PROVE  IsFiniteSet(granted') /\ HeldCounts'
<1>1. ASSUME UNCHANGED <<held, granted>> PROVE IsFiniteSet(granted') /\ HeldCounts'
  BY <1>1 DEF IInv, HeldCounts
<1>2. ASSUME SetLimit \/ (\E a \in Agents : Ask(a) \/ Abandon(a)) \/ UNCHANGED slotVars
      PROVE  UNCHANGED <<held, granted>>
  BY <1>2 DEF SetLimit, Ask, Abandon, slotVars
<1> QED BY <1>1, <1>2, GivenOut, GivenBack, SlotsOrNot

LEMMA QueuedOnceKept ==
  ASSUME TypeOK, IInv, Next
  PROVE  QueuedOnce'
<1>1. ASSUME UNCHANGED queue PROVE QueuedOnce'
  BY <1>1 DEF IInv, QueuedOnce
<1>2. ASSUME SetLimit \/ (\E a \in Agents : HandOn(a) \/ Exit(a)) \/ UNCHANGED slotVars
      PROVE  UNCHANGED queue
  BY <1>2 DEF SetLimit, HandOn, Exit, GiveBack, slotVars
<1>3. ASSUME NEW a \in Agents, Ask(a) PROVE QueuedOnce'
  <2>1. ~InQueue(a)
    BY <1>3 DEF Ask, IInv, TicketsKept
  <2> QED BY <1>3, <2>1, AskQueue DEF IInv
<1> QED BY <1>1, <1>2, <1>3, GrantQueue, AbandonQueue, SlotsOrNot DEF IInv

\* What is in a queue, after a step that is not about the queues.
LEMMA SameQueues == UNCHANGED queue => \A a \in Agents : InQueue(a)' <=> InQueue(a)
BY DEF InQueue

LEMMA TicketsKeptKept ==
  ASSUME TypeOK, IInv, Next
  PROVE  TicketsKept'
<1>1. ASSUME NEW o \in Orgs, Grant(o) PROVE TicketsKept'
  BY <1>1, GrantQueue, GivenOut DEF Grant, TicketsKept, IInv, TypeOK
<1>2. ASSUME SetLimit PROVE TicketsKept'
  BY <1>2, SameQueues DEF SetLimit, TicketsKept, IInv, TypeOK
<1>3. ASSUME LimitSet PROVE TicketsKept'
  BY <1>3, SameQueues DEF LimitSet, WakeAll, TicketsKept, IInv, TypeOK, slotVars
<1>4. ASSUME Refresh PROVE TicketsKept'
  BY <1>4, SameQueues DEF Refresh, TicketsKept, IInv, TypeOK, slotVars
<1>5. ASSUME NEW a \in Agents, Enter(a) PROVE TicketsKept'
  BY <1>5, SameQueues DEF Enter, Goes, TicketsKept, IInv, TypeOK, slotVars
<1>6. ASSUME NEW a \in Agents, Ask(a) PROVE TicketsKept'
  <2>1. ~InQueue(a) /\ a \notin granted
    BY <1>6 DEF Ask, IInv, TicketsKept
  <2>2. \A b \in Agents : InQueue(b)' <=> InQueue(b) \/ b = a
    BY <1>6, <2>1, AskQueue DEF IInv
  <2> QED BY <1>6, <2>1, <2>2 DEF Ask, Goes, TicketsKept, IInv, TypeOK
<1>7. ASSUME NEW a \in Agents, Asked(a) PROVE TicketsKept'
  BY <1>7, SameQueues DEF Asked, Goes, TicketsKept, IInv, TypeOK, slotVars
<1>8. ASSUME NEW a \in Agents, Granted(a) PROVE TicketsKept'
  BY <1>8, SameQueues DEF Granted, Goes, TicketsKept, IInv, TypeOK, slotVars
<1>9. ASSUME NEW a \in Agents, HandOn(a) PROVE TicketsKept'
  BY <1>9, SameQueues, GivenBack DEF HandOn, GiveBack, Goes, TicketsKept, IInv, TypeOK
<1>10. ASSUME NEW a \in Agents, Abandon(a) PROVE TicketsKept'
  BY <1>10, AbandonQueue DEF Abandon, Goes, TicketsKept, IInv, TypeOK
<1>11. ASSUME NEW a \in Agents, Sleep(a) PROVE TicketsKept'
  BY <1>11, SameQueues DEF Sleep, Goes, TicketsKept, IInv, TypeOK, slotVars
<1>12. ASSUME NEW a \in Agents, Queued(a) PROVE TicketsKept'
  BY <1>12, SameQueues DEF Queued, Goes, TicketsKept, IInv, TypeOK, slotVars
<1>13. ASSUME NEW a \in Agents, Leave(a) PROVE TicketsKept'
  BY <1>13, SameQueues DEF Leave, Goes, TicketsKept, IInv, TypeOK, slotVars
<1>14. ASSUME NEW a \in Agents, Settle(a) PROVE TicketsKept'
  BY <1>14, SameQueues DEF Settle, Goes, TicketsKept, IInv, TypeOK, slotVars
<1>15. ASSUME NEW a \in Agents, Exit(a) PROVE TicketsKept'
  BY <1>15, SameQueues, GivenBack DEF Exit, GiveBack, Goes, TicketsKept, IInv, TypeOK
<1>16. ASSUME NEW a \in Agents, Notify(a) PROVE TicketsKept'
  BY <1>16, SameQueues DEF Notify, WakeAll, TicketsKept, IInv, TypeOK, slotVars
<1>17. ASSUME NEW a \in Agents, Wake(a) PROVE TicketsKept'
  BY <1>17, SameQueues DEF Wake, WakeAll, TicketsKept, IInv, TypeOK, slotVars
<1>18. ASSUME NEW a \in Agents, Interrupt(a) PROVE TicketsKept'
  BY <1>18, SameQueues DEF Interrupt, TicketsKept, IInv, TypeOK, slotVars
<1>19. ASSUME NEW a \in Agents, Halt(a) PROVE TicketsKept'
  BY <1>19, SameQueues DEF Halt, TicketsKept, IInv, TypeOK, slotVars
<1>20. ASSUME NEW a \in Agents, UndoHalt(a) PROVE TicketsKept'
  BY <1>20, SameQueues DEF UndoHalt, TicketsKept, IInv, TypeOK, slotVars
<1>21. ASSUME NEW a \in Agents, Unhalt(a) PROVE TicketsKept'
  BY <1>21, SameQueues DEF Unhalt, TicketsKept, IInv, TypeOK, slotVars
<1> QED BY <1>1, <1>2, <1>3, <1>4, <1>5, <1>6, <1>7, <1>8, <1>9, <1>10, <1>11, <1>12, <1>13, <1>14, <1>15, <1>16, <1>17, <1>18, <1>19, <1>20, <1>21 DEF Next, Turn, Wait, Settings

LEMMA NoIdleSlotKept ==
  ASSUME TypeOK, IInv, Next
  PROVE  NoIdleSlot'
<1>1. ASSUME UNCHANGED <<limit, held, queue>> PROVE Room' <=> Room
  BY <1>1 DEF Room, Waits
<1>2. ASSUME lock' # "free" PROVE NoIdleSlot'
  BY <1>2 DEF NoIdleSlot
<1>3. ASSUME NEW o \in Orgs, Grant(o) PROVE lock' # "free"
  BY <1>3 DEF Grant
<1>4. ASSUME NEW a \in Agents, Ask(a) \/ HandOn(a) \/ Exit(a) PROVE lock' # "free"
  BY <1>4, LockAssumption DEF Ask, HandOn, Exit, GiveBack
<1>5. ASSUME NEW a \in Agents, Abandon(a) PROVE NoIdleSlot'
  <2>1. ~Room /\ held' = held /\ limit' = limit
    BY <1>5 DEF Abandon, IInv, NoIdleSlot
  <2> QED BY <1>5, <2>1, AbandonQueue DEF IInv, NoIdleSlot, Room
<1>6. ASSUME LimitSet \/ \E a \in Agents : Asked(a) \/ Notify(a) PROVE NoIdleSlot'
  <2>1. ~Room /\ UNCHANGED <<limit, held, queue>>
    BY <1>6 DEF LimitSet, Asked, Notify, slotVars
  <2> QED BY <1>1, <2>1 DEF NoIdleSlot
<1>7. ASSUME UNCHANGED <<slotVars, lock>> PROVE NoIdleSlot'
  BY <1>1, <1>7 DEF IInv, NoIdleSlot, slotVars
<1>8. ASSUME SetLimit PROVE lock' # "free"
  BY <1>8 DEF SetLimit
<1>9. ASSUME \/ Refresh
             \/ \E a \in Agents : Wake(a) \/ Enter(a) \/ Interrupt(a) \/ Halt(a) \/ UndoHalt(a) \/ Unhalt(a)
             \/ \E a \in Agents : Granted(a) \/ Sleep(a) \/ Queued(a) \/ Leave(a) \/ Settle(a)
      PROVE  UNCHANGED <<slotVars, lock>>
  BY <1>9 DEF Refresh, Wake, Enter, Interrupt, Halt, UndoHalt, Unhalt, Granted, Sleep, Queued, Leave,
              Settle
<1> QED BY <1>2, <1>3, <1>4, <1>5, <1>6, <1>7, <1>8, <1>9 DEF Next, Turn, Wait, Settings

LEMMA NoLostWakeupKept ==
  ASSUME TypeOK, IInv, Next
  PROVE  NoLostWakeup'
<1>1. ASSUME NEW o \in Orgs, Grant(o) PROVE NoLostWakeup'
  <2>1. granted' = granted \cup {Head(queue[o])} /\ lock' = lock /\ lock # "free"
    BY <1>1 DEF Grant
  <2> QED BY <1>1, <2>1 DEF Grant, NoLostWakeup, Cancelled, IInv, TypeOK
<1>2. ASSUME SetLimit PROVE NoLostWakeup'
  BY <1>2 DEF SetLimit, NoLostWakeup, Cancelled, IInv, TypeOK
<1>3. ASSUME LimitSet PROVE NoLostWakeup'
  BY <1>3 DEF LimitSet, WakeAll, NoLostWakeup, Cancelled, IInv, TypeOK, slotVars
<1>4. ASSUME Refresh PROVE NoLostWakeup'
  BY <1>4 DEF Refresh, NoLostWakeup, Cancelled, IInv, TypeOK, slotVars
<1>5. ASSUME NEW a \in Agents, Enter(a) PROVE NoLostWakeup'
  BY <1>5 DEF Enter, Goes, NoLostWakeup, Cancelled, IInv, TypeOK, slotVars
<1>6. ASSUME NEW a \in Agents, Ask(a) PROVE NoLostWakeup'
  BY <1>6, LockAssumption DEF Ask, Goes, NoLostWakeup, Cancelled, IInv, TypeOK
<1>7. ASSUME NEW a \in Agents, Asked(a) PROVE NoLostWakeup'
  <2>1. \A b \in Agents : pc[b] = "asleep" => b \notin granted
    BY <1>7 DEF Asked, IInv, LockHeld
  <2> QED BY <1>7, <2>1 DEF Asked, Goes, NoLostWakeup, Cancelled, IInv, TypeOK, slotVars
<1>8. ASSUME NEW a \in Agents, Granted(a) PROVE NoLostWakeup'
  BY <1>8 DEF Granted, Goes, NoLostWakeup, Cancelled, IInv, TypeOK, slotVars
<1>9. ASSUME NEW a \in Agents, HandOn(a) PROVE NoLostWakeup'
  BY <1>9, LockAssumption DEF HandOn, GiveBack, Goes, NoLostWakeup, Cancelled, IInv, TypeOK
<1>10. ASSUME NEW a \in Agents, Abandon(a) PROVE NoLostWakeup'
  BY <1>10 DEF Abandon, Goes, NoLostWakeup, Cancelled, IInv, TypeOK
<1>11. ASSUME NEW a \in Agents, Sleep(a) PROVE NoLostWakeup'
  BY <1>11 DEF Sleep, Goes, NoLostWakeup, Cancelled, IInv, TypeOK, slotVars
<1>12. ASSUME NEW a \in Agents, Queued(a) PROVE NoLostWakeup'
  BY <1>12 DEF Queued, Goes, NoLostWakeup, Cancelled, IInv, TypeOK, slotVars
<1>13. ASSUME NEW a \in Agents, Leave(a) PROVE NoLostWakeup'
  BY <1>13 DEF Leave, Goes, NoLostWakeup, Cancelled, IInv, TypeOK, slotVars
<1>14. ASSUME NEW a \in Agents, Settle(a) PROVE NoLostWakeup'
  BY <1>14 DEF Settle, Goes, NoLostWakeup, Cancelled, IInv, TypeOK, slotVars
<1>15. ASSUME NEW a \in Agents, Exit(a) PROVE NoLostWakeup'
  BY <1>15, LockAssumption DEF Exit, GiveBack, Goes, NoLostWakeup, Cancelled, IInv, TypeOK
<1>16. ASSUME NEW a \in Agents, Notify(a) PROVE NoLostWakeup'
  BY <1>16 DEF Notify, WakeAll, NoLostWakeup, Cancelled, IInv, TypeOK, slotVars
<1>17. ASSUME NEW a \in Agents, Wake(a) PROVE NoLostWakeup'
  BY <1>17 DEF Wake, WakeAll, NoLostWakeup, Cancelled, IInv, TypeOK, slotVars
<1>18. ASSUME NEW a \in Agents, Interrupt(a) PROVE NoLostWakeup'
  BY <1>18 DEF Interrupt, NoLostWakeup, Cancelled, IInv, TypeOK, slotVars
<1>19. ASSUME NEW a \in Agents, Halt(a) PROVE NoLostWakeup'
  BY <1>19 DEF Halt, NoLostWakeup, Cancelled, IInv, TypeOK, slotVars
<1>20. ASSUME NEW a \in Agents, UndoHalt(a) PROVE NoLostWakeup'
  BY <1>20 DEF UndoHalt, NoLostWakeup, Cancelled, IInv, TypeOK, slotVars
<1>21. ASSUME NEW a \in Agents, Unhalt(a) PROVE NoLostWakeup'
  BY <1>21 DEF Unhalt, NoLostWakeup, Cancelled, IInv, TypeOK, slotVars
<1> QED BY <1>1, <1>2, <1>3, <1>4, <1>5, <1>6, <1>7, <1>8, <1>9, <1>10, <1>11, <1>12, <1>13, <1>14, <1>15, <1>16, <1>17, <1>18, <1>19, <1>20, <1>21 DEF Next, Turn, Wait, Settings

LEMMA LockHeldKept ==
  ASSUME TypeOK, IInv, Next
  PROVE  LockHeld'
<1>1. ASSUME NEW o \in Orgs, Grant(o) PROVE LockHeld'
  <2>1. /\ granted' = granted \cup {Head(queue[o])} /\ UNCHANGED <<lock, pc, setter, limit>>
        /\ held' = held + 1 /\ held < limit /\ NextOrg(o)
    BY <1>1 DEF Grant
  <2>2. /\ DOMAIN queue[o] = 1..Len(queue[o]) /\ 1 \in DOMAIN queue[o]
        /\ Head(queue[o]) = queue[o][1]
    BY <2>1, QueueShape, HeadTailProperties DEF NextOrg, Waits
  <2>3. ASSUME NEW a \in Agents, pc[a] = "asking"
        PROVE  Head(queue[o]) = a
    BY <2>1, <2>2, <2>3 DEF IInv, LockHeld
  <2>4. ASSUME NEW a \in Agents, pc[a] = "asking", NEW p \in Orgs, NEW i \in DOMAIN queue'[p]
        PROVE  queue'[p][i] = a
    <3>1. \A b \in Agents : InQueue(b) => b = a \/ ~(held < limit)
      BY <2>1, <2>4, OrgType DEF IInv, LockHeld, InQueue
    <3>2. queue' \in [Orgs -> Seq(Agents)] /\ QueuedOnce'
      BY <1>1, GrantQueue DEF IInv
    <3>3. \A b \in Agents : InQueue(b)' => InQueue(b) /\ b # a
      BY <1>1, <2>3, <2>4, GrantQueue DEF IInv
    <3>4. \A b \in Agents : ~InQueue(b)'
      BY <2>1, <3>1, <3>3
    <3>5. queue'[p][i] \in Agents /\ OrgOf[queue'[p][i]] = p
      BY <3>2 DEF QueuedOnce
    <3> QED BY <3>4, <3>5 DEF InQueue
  <2> QED BY <2>1, <2>3, <2>4 DEF LockHeld, IInv, TypeOK
<1>2. ASSUME SetLimit PROVE LockHeld'
  BY <1>2, LockAssumption, LimitAssumption DEF SetLimit, LockHeld, IInv, TypeOK
<1>3. ASSUME LimitSet PROVE LockHeld'
  BY <1>3, LockAssumption DEF LimitSet, WakeAll, LockHeld, IInv, TypeOK, slotVars
<1>4. ASSUME Refresh PROVE LockHeld'
  BY <1>4, LockAssumption DEF Refresh, LockHeld, IInv, TypeOK, slotVars
<1>5. ASSUME NEW a \in Agents, Enter(a) PROVE LockHeld'
  BY <1>5, LockAssumption DEF Enter, Goes, LockHeld, IInv, TypeOK, slotVars
<1>6. ASSUME NEW a \in Agents, Ask(a) PROVE LockHeld'
  <2>1. ~InQueue(a)
    BY <1>6 DEF Ask, IInv, TicketsKept
  <2>2. lock = "free" /\ lock' = a /\ pc' = [pc EXCEPT ![a] = "asking"]
        /\ UNCHANGED <<held, limit, granted, setter>>
    BY <1>6 DEF Ask, Goes
  <2>3. \A b \in Agents : pc[b] = "asleep" => b \notin granted
    BY <2>2 DEF IInv, NoLostWakeup
  <2>4. held < limit => \A o \in Orgs : DOMAIN queue[o] = {}
    BY <2>2, QueueShape DEF IInv, NoIdleSlot, Room
  <2>5. held' < limit' => \A o \in Orgs : \A i \in DOMAIN queue'[o] : queue'[o][i] = a
    BY <1>6, <2>1, <2>2, <2>4, AskQueue DEF IInv
  <2>6. \A b \in Agents : pc[b] \notin {"asking", "handing", "releasing"}
    BY <2>2, LockAssumption DEF IInv, LockHeld
  <2> QED BY <2>2, <2>3, <2>5, <2>6, LockAssumption DEF LockHeld, IInv, TypeOK
<1>7. ASSUME NEW a \in Agents, Asked(a) PROVE LockHeld'
  BY <1>7, LockAssumption DEF Asked, Goes, LockHeld, IInv, TypeOK, slotVars
<1>8. ASSUME NEW a \in Agents, Granted(a) PROVE LockHeld'
  BY <1>8, LockAssumption DEF Granted, Goes, LockHeld, IInv, TypeOK, slotVars
<1>9. ASSUME NEW a \in Agents, HandOn(a) PROVE LockHeld'
  <2>1. lock = "free" /\ lock' = a /\ setter' = setter
        /\ pc' = [pc EXCEPT ![a] = "handing"]
    BY <1>9 DEF HandOn, GiveBack, Goes
  <2>2. \A b \in Agents : pc[b] \notin {"asking", "handing", "releasing"}
    BY <2>1, LockAssumption DEF IInv, LockHeld
  <2> QED BY <2>1, <2>2, LockAssumption DEF LockHeld, IInv, TypeOK
<1>10. ASSUME NEW a \in Agents, Abandon(a) PROVE LockHeld'
  <2>1. lock = "free" /\ lock' = "free" /\ UNCHANGED <<setter>>
        /\ pc' = [pc EXCEPT ![a] = "cancelled"]
    BY <1>10 DEF Abandon, Goes
  <2>2. \A b \in Agents : pc[b] \notin {"asking", "handing", "releasing"}
    BY <2>1, LockAssumption DEF IInv, LockHeld
  <2> QED BY <2>1, <2>2, LockAssumption DEF LockHeld, IInv, TypeOK
<1>11. ASSUME NEW a \in Agents, Sleep(a) PROVE LockHeld'
  BY <1>11, LockAssumption DEF Sleep, Goes, LockHeld, IInv, TypeOK, slotVars
<1>12. ASSUME NEW a \in Agents, Queued(a) PROVE LockHeld'
  BY <1>12, LockAssumption DEF Queued, Goes, LockHeld, IInv, TypeOK, slotVars
<1>13. ASSUME NEW a \in Agents, Leave(a) PROVE LockHeld'
  BY <1>13, LockAssumption DEF Leave, Goes, LockHeld, IInv, TypeOK, slotVars
<1>14. ASSUME NEW a \in Agents, Settle(a) PROVE LockHeld'
  BY <1>14, LockAssumption DEF Settle, Goes, LockHeld, IInv, TypeOK, slotVars
<1>15. ASSUME NEW a \in Agents, Exit(a) PROVE LockHeld'
  <2>1. lock = "free" /\ lock' = a /\ setter' = setter
        /\ pc' = [pc EXCEPT ![a] = "releasing"]
    BY <1>15 DEF Exit, GiveBack, Goes
  <2>2. \A b \in Agents : pc[b] \notin {"asking", "handing", "releasing"}
    BY <2>1, LockAssumption DEF IInv, LockHeld
  <2> QED BY <2>1, <2>2, LockAssumption DEF LockHeld, IInv, TypeOK
<1>16. ASSUME NEW a \in Agents, Notify(a) PROVE LockHeld'
  BY <1>16, LockAssumption DEF Notify, WakeAll, LockHeld, IInv, TypeOK, slotVars
<1>17. ASSUME NEW a \in Agents, Wake(a) PROVE LockHeld'
  BY <1>17, LockAssumption DEF Wake, WakeAll, LockHeld, IInv, TypeOK, slotVars
<1>18. ASSUME NEW a \in Agents, Interrupt(a) PROVE LockHeld'
  BY <1>18 DEF Interrupt, LockHeld, IInv, TypeOK, slotVars
<1>19. ASSUME NEW a \in Agents, Halt(a) PROVE LockHeld'
  BY <1>19 DEF Halt, LockHeld, IInv, TypeOK, slotVars
<1>20. ASSUME NEW a \in Agents, UndoHalt(a) PROVE LockHeld'
  BY <1>20 DEF UndoHalt, LockHeld, IInv, TypeOK, slotVars
<1>21. ASSUME NEW a \in Agents, Unhalt(a) PROVE LockHeld'
  BY <1>21 DEF Unhalt, LockHeld, IInv, TypeOK, slotVars
<1> QED BY <1>1, <1>2, <1>3, <1>4, <1>5, <1>6, <1>7, <1>8, <1>9, <1>10, <1>11, <1>12, <1>13, <1>14, <1>15, <1>16, <1>17, <1>18, <1>19, <1>20, <1>21 DEF Next, Turn, Wait, Settings

LEMMA CutTokensKept ==
  ASSUME TypeOK, IInv, Next
  PROVE  CutTokens'
<1>1. ASSUME NEW o \in Orgs, Grant(o) PROVE CutTokens'
  BY <1>1 DEF Grant, CutTokens, Cancelled, Admitting, IInv, TypeOK
<1>2. ASSUME SetLimit PROVE CutTokens'
  BY <1>2 DEF SetLimit, CutTokens, Cancelled, Admitting, IInv, TypeOK
<1>3. ASSUME LimitSet PROVE CutTokens'
  BY <1>3 DEF LimitSet, WakeAll, CutTokens, Cancelled, Admitting, IInv, TypeOK, slotVars
<1>4. ASSUME Refresh PROVE CutTokens'
  BY <1>4 DEF Refresh, CutTokens, Cancelled, Admitting, IInv, TypeOK, slotVars
<1>5. ASSUME NEW a \in Agents, Enter(a) PROVE CutTokens'
  BY <1>5 DEF Enter, Goes, CutTokens, Cancelled, Admitting, IInv, TypeOK, slotVars
<1>6. ASSUME NEW a \in Agents, Ask(a) PROVE CutTokens'
  BY <1>6 DEF Ask, Goes, CutTokens, Cancelled, Admitting, IInv, TypeOK
<1>7. ASSUME NEW a \in Agents, Asked(a) PROVE CutTokens'
  BY <1>7 DEF Asked, Goes, CutTokens, Cancelled, Admitting, IInv, TypeOK, slotVars
<1>8. ASSUME NEW a \in Agents, Granted(a) PROVE CutTokens'
  BY <1>8 DEF Granted, Goes, CutTokens, Cancelled, Admitting, IInv, TypeOK, slotVars
<1>9. ASSUME NEW a \in Agents, HandOn(a) PROVE CutTokens'
  BY <1>9 DEF HandOn, GiveBack, Goes, CutTokens, Cancelled, Admitting, IInv, TypeOK
<1>10. ASSUME NEW a \in Agents, Abandon(a) PROVE CutTokens'
  BY <1>10 DEF Abandon, Goes, CutTokens, Cancelled, Admitting, IInv, TypeOK
<1>11. ASSUME NEW a \in Agents, Sleep(a) PROVE CutTokens'
  BY <1>11 DEF Sleep, Goes, CutTokens, Cancelled, Admitting, IInv, TypeOK, slotVars
<1>12. ASSUME NEW a \in Agents, Queued(a) PROVE CutTokens'
  BY <1>12 DEF Queued, Goes, CutTokens, Cancelled, Admitting, IInv, TypeOK, slotVars
<1>13. ASSUME NEW a \in Agents, Leave(a) PROVE CutTokens'
  BY <1>13 DEF Leave, Goes, CutTokens, Cancelled, Admitting, IInv, TypeOK, slotVars
<1>14. ASSUME NEW a \in Agents, Settle(a) PROVE CutTokens'
  BY <1>14 DEF Settle, Goes, CutTokens, Cancelled, Admitting, IInv, TypeOK, slotVars
<1>15. ASSUME NEW a \in Agents, Exit(a) PROVE CutTokens'
  BY <1>15 DEF Exit, GiveBack, Goes, CutTokens, Cancelled, Admitting, IInv, TypeOK
<1>16. ASSUME NEW a \in Agents, Notify(a) PROVE CutTokens'
  BY <1>16 DEF Notify, WakeAll, CutTokens, Cancelled, Admitting, IInv, TypeOK, slotVars
<1>17. ASSUME NEW a \in Agents, Wake(a) PROVE CutTokens'
  BY <1>17 DEF Wake, WakeAll, CutTokens, Cancelled, Admitting, IInv, TypeOK, slotVars
<1>18. ASSUME NEW a \in Agents, Interrupt(a) PROVE CutTokens'
  BY <1>18 DEF Interrupt, CutTokens, Cancelled, Admitting, IInv, TypeOK, slotVars
<1>19. ASSUME NEW a \in Agents, Halt(a) PROVE CutTokens'
  BY <1>19 DEF Halt, CutTokens, Cancelled, Admitting, IInv, TypeOK, slotVars
<1>20. ASSUME NEW a \in Agents, UndoHalt(a) PROVE CutTokens'
  BY <1>20 DEF UndoHalt, CutTokens, Cancelled, Admitting, IInv, TypeOK, slotVars
<1>21. ASSUME NEW a \in Agents, Unhalt(a) PROVE CutTokens'
  BY <1>21 DEF Unhalt, CutTokens, Cancelled, Admitting, IInv, TypeOK, slotVars
<1> QED BY <1>1, <1>2, <1>3, <1>4, <1>5, <1>6, <1>7, <1>8, <1>9, <1>10, <1>11, <1>12, <1>13, <1>14, <1>15, <1>16, <1>17, <1>18, <1>19, <1>20, <1>21 DEF Next, Turn, Wait, Settings

LEMMA BannersKept ==
  ASSUME TypeOK, IInv, Next
  PROVE  SetterCurrent' /\ BannerCurrent'
<1>1. ASSUME NEW o \in Orgs, Grant(o) PROVE SetterCurrent' /\ BannerCurrent'
  BY <1>1 DEF Grant, SetterCurrent, BannerCurrent, IInv, TypeOK
<1>2. ASSUME SetLimit PROVE SetterCurrent' /\ BannerCurrent'
  BY <1>2, LimitAssumption DEF SetLimit, SetterCurrent, BannerCurrent, IInv, TypeOK
<1>3. ASSUME LimitSet PROVE SetterCurrent' /\ BannerCurrent'
  BY <1>3 DEF LimitSet, WakeAll, SetterCurrent, BannerCurrent, IInv, TypeOK, slotVars
<1>4. ASSUME Refresh PROVE SetterCurrent' /\ BannerCurrent'
  BY <1>4 DEF Refresh, SetterCurrent, BannerCurrent, IInv, TypeOK, slotVars
<1>5. ASSUME NEW a \in Agents, Enter(a) PROVE SetterCurrent' /\ BannerCurrent'
  BY <1>5 DEF Enter, Goes, SetterCurrent, BannerCurrent, IInv, TypeOK, slotVars
<1>6. ASSUME NEW a \in Agents, Ask(a) PROVE SetterCurrent' /\ BannerCurrent'
  BY <1>6 DEF Ask, Goes, SetterCurrent, BannerCurrent, IInv, TypeOK
<1>7. ASSUME NEW a \in Agents, Asked(a) PROVE SetterCurrent' /\ BannerCurrent'
  BY <1>7 DEF Asked, Goes, SetterCurrent, BannerCurrent, IInv, TypeOK, slotVars
<1>8. ASSUME NEW a \in Agents, Granted(a) PROVE SetterCurrent' /\ BannerCurrent'
  BY <1>8 DEF Granted, Goes, SetterCurrent, BannerCurrent, IInv, TypeOK, slotVars
<1>9. ASSUME NEW a \in Agents, HandOn(a) PROVE SetterCurrent' /\ BannerCurrent'
  BY <1>9 DEF HandOn, GiveBack, Goes, SetterCurrent, BannerCurrent, IInv, TypeOK
<1>10. ASSUME NEW a \in Agents, Abandon(a) PROVE SetterCurrent' /\ BannerCurrent'
  BY <1>10 DEF Abandon, Goes, SetterCurrent, BannerCurrent, IInv, TypeOK
<1>11. ASSUME NEW a \in Agents, Sleep(a) PROVE SetterCurrent' /\ BannerCurrent'
  BY <1>11 DEF Sleep, Goes, SetterCurrent, BannerCurrent, IInv, TypeOK, slotVars
<1>12. ASSUME NEW a \in Agents, Queued(a) PROVE SetterCurrent' /\ BannerCurrent'
  BY <1>12 DEF Queued, Goes, SetterCurrent, BannerCurrent, IInv, TypeOK, slotVars
<1>13. ASSUME NEW a \in Agents, Leave(a) PROVE SetterCurrent' /\ BannerCurrent'
  BY <1>13 DEF Leave, Goes, SetterCurrent, BannerCurrent, IInv, TypeOK, slotVars
<1>14. ASSUME NEW a \in Agents, Settle(a) PROVE SetterCurrent' /\ BannerCurrent'
  BY <1>14 DEF Settle, Goes, SetterCurrent, BannerCurrent, IInv, TypeOK, slotVars
<1>15. ASSUME NEW a \in Agents, Exit(a) PROVE SetterCurrent' /\ BannerCurrent'
  BY <1>15 DEF Exit, GiveBack, Goes, SetterCurrent, BannerCurrent, IInv, TypeOK
<1>16. ASSUME NEW a \in Agents, Notify(a) PROVE SetterCurrent' /\ BannerCurrent'
  BY <1>16 DEF Notify, WakeAll, SetterCurrent, BannerCurrent, IInv, TypeOK, slotVars
<1>17. ASSUME NEW a \in Agents, Wake(a) PROVE SetterCurrent' /\ BannerCurrent'
  BY <1>17 DEF Wake, WakeAll, SetterCurrent, BannerCurrent, IInv, TypeOK, slotVars
<1>18. ASSUME NEW a \in Agents, Interrupt(a) PROVE SetterCurrent' /\ BannerCurrent'
  BY <1>18 DEF Interrupt, SetterCurrent, BannerCurrent, IInv, TypeOK, slotVars
<1>19. ASSUME NEW a \in Agents, Halt(a) PROVE SetterCurrent' /\ BannerCurrent'
  BY <1>19 DEF Halt, SetterCurrent, BannerCurrent, IInv, TypeOK, slotVars
<1>20. ASSUME NEW a \in Agents, UndoHalt(a) PROVE SetterCurrent' /\ BannerCurrent'
  BY <1>20 DEF UndoHalt, SetterCurrent, BannerCurrent, IInv, TypeOK, slotVars
<1>21. ASSUME NEW a \in Agents, Unhalt(a) PROVE SetterCurrent' /\ BannerCurrent'
  BY <1>21 DEF Unhalt, SetterCurrent, BannerCurrent, IInv, TypeOK, slotVars
<1> QED BY <1>1, <1>2, <1>3, <1>4, <1>5, <1>6, <1>7, <1>8, <1>9, <1>10, <1>11, <1>12, <1>13, <1>14, <1>15, <1>16, <1>17, <1>18, <1>19, <1>20, <1>21 DEF Next, Turn, Wait, Settings

\* IInv is inductive.
THEOREM SlotsInductive == Spec => [](TypeOK /\ IInv)
<1>1. Init => TypeOK /\ IInv
  BY InitTypes
<1>2. TypeOK /\ IInv /\ [Next]_vars => (TypeOK /\ IInv)'
  <2> SUFFICES ASSUME TypeOK, IInv, [Next]_vars PROVE TypeOK' /\ IInv'
    OBVIOUS
  <2>1. CASE Next
    BY <2>1, TypeKept, HeldCountsKept, QueuedOnceKept, TicketsKeptKept, NoIdleSlotKept,
       NoLostWakeupKept, LockHeldKept, CutTokensKept, BannersKept DEF IInv
  <2>2. CASE UNCHANGED vars
    BY <2>2 DEF vars, slotVars, TypeOK, IInv, HeldCounts, TicketsKept, InQueue, NoIdleSlot, Room,
       Waits, NoLostWakeup, Cancelled, BannerCurrent, QueuedOnce, LockHeld, CutTokens,
       SetterCurrent
  <2> QED BY <2>1, <2>2
<1> QED BY <1>1, <1>2, PTL DEF Spec

\* Type correctness of the slots and of the turns that enter them.
THEOREM SlotTypesHold == Spec => []TypeOK
BY SlotsInductive, PTL

\* Every slot that is counted is with exactly one turn, and the reverse.
THEOREM HeldIsGranted == Spec => []HeldCounts
<1>1. IInv => HeldCounts
  BY DEF IInv
<1> QED BY <1>1, SlotsInductive, PTL

\* A cancel that crosses a grant loses neither the slot nor the ticket.
THEOREM TicketsAreKept == Spec => []TicketsKept
<1>1. IInv => TicketsKept
  BY DEF IInv
<1> QED BY <1>1, SlotsInductive, PTL

\* No slot is free while a turn waits for one.
THEOREM NoSlotIdles == Spec => []NoIdleSlot
<1>1. IInv => NoIdleSlot
  BY DEF IInv
<1> QED BY <1>1, SlotsInductive, PTL

\* No waiter sleeps through its grant or its cancel.
THEOREM NoWakeupLost == Spec => []NoLostWakeup
<1>1. IInv => NoLostWakeup
  BY DEF IInv
<1> QED BY <1>1, SlotsInductive, PTL

\* A turn that was interrupted while it waited does not run.
THEOREM CutsHonoured == Spec => []CutHonoured
<1>1. IInv => CutHonoured
  BY DEF IInv, CutTokens, CutHonoured, Admitting
<1> QED BY <1>1, SlotsInductive, PTL

\* The banners of the queued turns follow the limit.
THEOREM BannersCurrent == Spec => []BannerCurrent
<1>1. IInv => BannerCurrent
  BY DEF IInv
<1> QED BY <1>1, SlotsInductive, PTL

(* The round of the orgs. *)

\* where each org is in the round, and who was served since whom
RoundOrder ==
  /\ \A i, j \in DOMAIN ring : ring[i] = ring[j] => i = j
  /\ last # None => last \in Elements(ring)
  /\ \A o \in Orgs : /\ Waits(o) => o \in Elements(ring)
                     /\ ~Waits(o) => passed[o] = {}
  /\ \A o \in Orgs : \A q \in passed[o] : q \in Elements(ring) /\ Behind(o) < Behind(q)

LEMMA Remainders ==
  ASSUME NEW n \in Nat, NEW d \in Int, -n <= d, d < n
  PROVE  d % n = IF d < 0 THEN d + n ELSE d
<1>1. CASE d < 0
  BY <1>1
<1>2. CASE d >= 0
  BY <1>2
<1> QED BY <1>1, <1>2

\* how far place x is behind place y in a round of n places
Distance(x, y, n) == IF x > y THEN x - y - 1 ELSE x - y - 1 + n

\* the order behind y is the order behind the next one served, and a longer round keeps it
LEMMA Distances ==
  ASSUME NEW n \in Nat, NEW p \in 1..n, NEW q \in 1..n, NEW y \in 0..n,
         Distance(p, y, n) < Distance(q, y, n)
  PROVE  /\ Distance(p, y, n + 1) < Distance(q, y, n + 1)
         /\ \A z \in 1..n : Distance(z, y, n) <= Distance(p, y, n) /\ p # z
              => Distance(p, z, n) < Distance(q, z, n)
<1> USE DEF Distance
<1>1. Distance(p, y, n + 1) < Distance(q, y, n + 1)
  OBVIOUS
<1>2. ASSUME NEW z \in 1..n, Distance(z, y, n) <= Distance(p, y, n), p # z
      PROVE  Distance(p, z, n) < Distance(q, z, n)
  <2>1. CASE p > z
    BY <1>2, <2>1
  <2>2. CASE p < z
    BY <1>2, <2>2
  <2> QED BY <1>2, <2>1, <2>2
<1> QED BY <1>1, <1>2

LEMMA Positions ==
  ASSUME NEW o \in Elements(ring), ring \in Seq(Orgs)
  PROVE  Position(o) \in 1..Len(ring) /\ ring[Position(o)] = o /\ Len(ring) \in Nat
<1>1. \E i \in DOMAIN ring : ring[i] = o
  BY DEF Elements
<1>2. Position(o) \in DOMAIN ring /\ ring[Position(o)] = o
  BY <1>1 DEF Position
<1> QED BY <1>2

LEMMA LastPosition ==
  ASSUME ring \in Seq(Orgs), last \in Orgs \cup {None}, last # None => last \in Elements(ring)
  PROVE  Position(last) \in 0..Len(ring)
<1>1. CASE last \in Elements(ring)
  BY <1>1, Positions
<1>2. CASE last \notin Elements(ring)
  BY <1>2 DEF Position
<1> QED BY <1>1, <1>2

LEMMA BehindIs ==
  ASSUME ring \in Seq(Orgs), last \in Orgs \cup {None}, last # None => last \in Elements(ring),
         NEW o \in Elements(ring)
  PROVE  Behind(o) = Distance(Position(o), Position(last), Len(ring))
<1> DEFINE d == Position(o) - Position(last) - 1
<1>1. Position(o) \in 1..Len(ring) /\ Position(last) \in 0..Len(ring) /\ Len(ring) \in Nat
  BY Positions, LastPosition
<1>2. d \in Int /\ -Len(ring) <= d /\ d < Len(ring) /\ (d < 0 <=> ~(Position(o) > Position(last)))
  BY <1>1
<1> HIDE DEF d
<1>3. d % Len(ring) = IF d < 0 THEN d + Len(ring) ELSE d
  BY <1>1, <1>2, Remainders
<1>4. Behind(o) = d % Len(ring)
  BY DEF Behind, d
<1> QED BY <1>1, <1>2, <1>3, <1>4 DEF d, Distance

LEMMA GrantRound ==
  ASSUME TypeOK, RoundOrder, NEW o \in Orgs, Grant(o)
  PROVE  RoundOrder' /\ \A p \in Orgs : p # o /\ Waits(p) => o \notin passed[p]
<1>1. /\ ring \in Seq(Orgs) /\ last \in Orgs \cup {None} /\ o # None
      /\ last # None => last \in Elements(ring)
      /\ passed \in [Orgs -> SUBSET Orgs]
  BY OrgAssumption DEF TypeOK, RoundOrder
<1>2. /\ ring' = ring /\ last' = o /\ Waits(o)
      /\ \A p \in Orgs : Waits(p) => Behind(o) <= Behind(p)
      /\ queue' = [queue EXCEPT ![o] = Tail(@)]
      /\ passed' = [p \in Orgs |-> IF p # o /\ Waits(p) THEN passed[p] \cup {o} ELSE {}]
  BY DEF Grant, NextOrg
<1>3. o \in Elements(ring)
  BY <1>2 DEF RoundOrder
<1>4. ASSUME NEW p \in Orgs, p # o, Waits(p)
      PROVE  o \notin passed[p]
  <2>1. o \in passed[p] => Behind(p) < Behind(o)
    BY DEF RoundOrder
  <2>2. Behind(o) <= Behind(p)
    BY <1>2, <1>4
  <2>3. Behind(o) \in Int /\ Behind(p) \in Int
    <3>1. p \in Elements(ring)
      BY <1>4 DEF RoundOrder
    <3> QED BY <1>1, <1>3, <3>1, BehindIs, Positions, LastPosition DEF Distance
  <2> QED BY <2>1, <2>2, <2>3
<1>5. \A x \in Elements(ring) : Position(x)' = Position(x)
  BY <1>2 DEF Position, Elements
<1>6. ASSUME NEW x \in Elements(ring)
      PROVE  Behind(x)' = Distance(Position(x), Position(o), Len(ring))
  <2> DEFINE d == Position(x) - Position(o) - 1
  <2>1. Position(x) \in 1..Len(ring) /\ Position(o) \in 1..Len(ring) /\ Len(ring) \in Nat
    BY <1>1, <1>3, Positions
  <2>2. d \in Int /\ -Len(ring) <= d /\ d < Len(ring) /\ (d < 0 <=> ~(Position(x) > Position(o)))
    BY <2>1
  <2>3. Behind(x)' = d % Len(ring)
    BY <1>2, <1>3, <1>5 DEF Behind
  <2> HIDE DEF d
  <2>4. d % Len(ring) = IF d < 0 THEN d + Len(ring) ELSE d
    BY <2>1, <2>2, Remainders
  <2> QED BY <2>1, <2>2, <2>3, <2>4 DEF d, Distance
<1>7. ASSUME NEW p \in Orgs, p # o, Waits(p), NEW q \in passed[p] \cup {o}
      PROVE  q \in Elements(ring) /\ Behind(p)' < Behind(q)'
  <2>1. p \in Elements(ring) /\ q \in Elements(ring) /\ (q # o => Behind(p) < Behind(q))
    BY <1>3, <1>7 DEF RoundOrder
  <2>2. Behind(o) <= Behind(p)
    BY <1>2, <1>7
  <2>3. /\ Position(p) \in 1..Len(ring) /\ Position(q) \in 1..Len(ring) /\ Position(o) \in 1..Len(ring)
        /\ Position(last) \in 0..Len(ring) /\ Len(ring) \in Nat
        /\ Position(p) # Position(o)
    BY <1>1, <1>3, <1>7, <2>1, Positions, LastPosition
  <2>4. /\ Behind(p) = Distance(Position(p), Position(last), Len(ring))
        /\ Behind(q) = Distance(Position(q), Position(last), Len(ring))
        /\ Behind(o) = Distance(Position(o), Position(last), Len(ring))
    BY <1>1, <1>3, <2>1, BehindIs
  <2>5. /\ Behind(p)' = Distance(Position(p), Position(o), Len(ring))
        /\ Behind(q)' = Distance(Position(q), Position(o), Len(ring))
    BY <1>6, <2>1
  <2>6. CASE q = o
    BY <2>1, <2>3, <2>5, <2>6 DEF Distance
  <2>7. CASE q # o
    BY <2>1, <2>2, <2>3, <2>4, <2>5, <2>7, Distances
  <2> QED BY <2>1, <2>6, <2>7
<1>8. \A p \in Orgs : p # o => (Waits(p)' <=> Waits(p))
  BY <1>2 DEF Waits, TypeOK
<1>9. \A p \in Orgs : passed'[p] = IF p # o /\ Waits(p) THEN passed[p] \cup {o} ELSE {}
  BY <1>2
<1>10. \A p \in Orgs : Waits(p)' => p \in Elements(ring)
  BY <1>3, <1>8 DEF RoundOrder
<1>11. Elements(ring)' = Elements(ring)
  BY <1>2 DEF Elements
<1>12. RoundOrder'
  <2>1. \A i, j \in DOMAIN ring' : ring'[i] = ring'[j] => i = j
    BY <1>2 DEF RoundOrder
  <2>2. last' \in Elements(ring)'
    BY <1>2, <1>3, <1>11
  <2>3. \A p \in Orgs : (Waits(p)' => p \in Elements(ring)') /\ (~Waits(p)' => passed'[p] = {})
    BY <1>8, <1>9, <1>10, <1>11
  <2>4. \A p \in Orgs : \A q \in passed'[p] : q \in Elements(ring)' /\ Behind(p)' < Behind(q)'
    BY <1>7, <1>9, <1>11
  <2> QED BY <2>1, <2>2, <2>3, <2>4 DEF RoundOrder
<1> QED BY <1>4, <1>12

LEMMA AskRound ==
  ASSUME TypeOK, RoundOrder, NEW a \in Agents, Ask(a)
  PROVE  RoundOrder'
<1> DEFINE o == OrgOf[a]
           L == Len(ring)
<1>1. /\ ring \in Seq(Orgs) /\ last \in Orgs \cup {None} /\ o \in Orgs /\ L \in Nat /\ DOMAIN ring = 1..L
      /\ last # None => last \in Elements(ring)
      /\ passed \in [Orgs -> SUBSET Orgs] /\ queue \in [Orgs -> Seq(Agents)]
  BY OrgAssumption DEF TypeOK, RoundOrder
<1>2. /\ last' = last /\ passed' = passed
      /\ queue' = [queue EXCEPT ![o] = Append(@, a)]
      /\ ring' = IF o \in Elements(ring) THEN ring ELSE Append(ring, o)
  BY DEF Ask
<1> HIDE DEF o
<1>3. \A p \in Orgs : Waits(p)' <=> (p = o \/ Waits(p))
  BY <1>1, <1>2 DEF Waits
<1>4. CASE o \in Elements(ring)
  <2>1. ring' = ring /\ last' = last
    BY <1>2, <1>4
  <2>2. Elements(ring)' = Elements(ring) /\ \A p : Behind(p)' = Behind(p)
    BY <2>1 DEF Elements, Behind, Position
  <2>3. \A p \in Orgs : (Waits(p)' => p \in Elements(ring)') /\ (~Waits(p)' => passed'[p] = {})
    BY <1>2, <1>3, <1>4, <2>2 DEF RoundOrder
  <2>4. \A p \in Orgs : \A q \in passed'[p] : q \in Elements(ring)' /\ Behind(p)' < Behind(q)'
    BY <1>2, <2>2 DEF RoundOrder
  <2> QED BY <2>1, <2>2, <2>3, <2>4 DEF RoundOrder
<1>5. CASE o \notin Elements(ring)
  <2>1. /\ ring' = Append(ring, o) /\ ring' \in Seq(Orgs) /\ Len(ring') = L + 1
        /\ DOMAIN ring' = 1..(L + 1) /\ \A i \in 1..L : ring'[i] = ring[i]
        /\ ring'[L + 1] = o
    BY <1>1, <1>2, <1>5
  <2>2. Elements(ring)' = Elements(ring) \cup {o}
    <3>1. /\ \A i \in DOMAIN ring' : i \in DOMAIN ring \/ i = L + 1
          /\ \A i \in DOMAIN ring : i \in DOMAIN ring'
          /\ L + 1 \in DOMAIN ring'
      BY <1>1, <2>1
    <3> QED BY <1>1, <2>1, <3>1 DEF Elements
  <2>3. \A i, j \in DOMAIN ring' : ring'[i] = ring'[j] => i = j
    <3>1. \A i \in DOMAIN ring : ring[i] # o
      BY <1>5 DEF Elements
    <3>2. \A i \in DOMAIN ring' : i # L + 1 => i \in DOMAIN ring /\ ring'[i] = ring[i]
      BY <1>1, <2>1
    <3> QED BY <2>1, <3>1, <3>2 DEF RoundOrder
  <2>4. ASSUME NEW x \in Elements(ring)
        PROVE  Position(x)' = Position(x) /\ Position(x) \in 1..L
    <3>1. Position(x) \in 1..L /\ ring[Position(x)] = x
      BY <1>1, Positions
    <3>2. x \in Elements(ring') /\ ring' \in Seq(Orgs)
      BY <2>1, <2>2 DEF Elements
    <3>3. \E i \in DOMAIN ring' : ring'[i] = x
      BY <3>2 DEF Elements
    <3>4. Position(x)' \in DOMAIN ring' /\ ring'[Position(x)'] = x
      BY <3>2, <3>3 DEF Position, Elements
    <3>5. Position(x) \in DOMAIN ring' /\ ring'[Position(x)] = x
      BY <1>1, <2>1, <3>1
    <3> QED BY <2>3, <3>1, <3>4, <3>5
  <2>5. Position(last)' = Position(last) /\ Position(last) \in 0..L
    <3>1. CASE last = None
      <4>1. None \notin Elements(ring) /\ None \notin Elements(ring')
        BY <1>1, <2>1, OrgAssumption DEF Elements
      <4> QED BY <1>1, <1>2, <3>1, <4>1 DEF Position, Elements
    <3>2. CASE last # None
      <4>1. Position(last) \in 1..L /\ Position(last)' = Position(last') /\ last \in Elements(ring)
        BY <1>1, <1>2, <2>4, <3>2
      <4> QED BY <1>2, <2>4, <4>1
    <3> QED BY <3>1, <3>2
  <2>6. ASSUME NEW x \in Elements(ring)
        PROVE  Behind(x)' = Distance(Position(x), Position(last), L + 1)
    <3> DEFINE d == Position(x) - Position(last) - 1
    <3>1. Position(x) \in 1..L /\ Position(last) \in 0..L /\ Position(x)' = Position(x)
      BY <2>4, <2>5
    <3>2. d \in Int /\ -(L + 1) <= d /\ d < L + 1 /\ (d < 0 <=> ~(Position(x) > Position(last)))
      BY <1>1, <3>1
    <3>3. Behind(x)' = d % (L + 1)
      BY <2>1, <2>5, <3>1 DEF Behind
    <3> HIDE DEF d
    <3>4. d % (L + 1) = IF d < 0 THEN d + (L + 1) ELSE d
      BY <1>1, <3>2, Remainders
    <3> QED BY <3>1, <3>2, <3>3, <3>4 DEF d, Distance
  <2>7. ASSUME NEW p \in Orgs, NEW q \in passed[p]
        PROVE  q \in Elements(ring) /\ Behind(p)' < Behind(q)'
    <3>1. p \in Elements(ring) /\ q \in Elements(ring) /\ Behind(p) < Behind(q)
      BY <2>7 DEF RoundOrder
    <3>2. Position(p) \in 1..L /\ Position(q) \in 1..L /\ Position(last) \in 0..L
      BY <2>4, <2>5, <3>1
    <3>3. /\ Behind(p) = Distance(Position(p), Position(last), L)
          /\ Behind(q) = Distance(Position(q), Position(last), L)
      BY <1>1, <3>1, BehindIs
    <3>4. /\ Behind(p)' = Distance(Position(p), Position(last), L + 1)
          /\ Behind(q)' = Distance(Position(q), Position(last), L + 1)
      BY <2>6, <3>1
    <3> QED BY <1>1, <3>1, <3>2, <3>3, <3>4, Distances
  <2>8. last' # None => last' \in Elements(ring)'
    BY <1>1, <1>2, <2>2
  <2>9. \A p \in Orgs : (Waits(p)' => p \in Elements(ring)') /\ (~Waits(p)' => passed'[p] = {})
    BY <1>2, <1>3, <2>2 DEF RoundOrder
  <2>10. \A p \in Orgs : \A q \in passed'[p] : q \in Elements(ring)' /\ Behind(p)' < Behind(q)'
    BY <1>2, <2>2, <2>7
  <2> QED BY <2>3, <2>8, <2>9, <2>10 DEF RoundOrder
<1> QED BY <1>4, <1>5

LEMMA AbandonRound ==
  ASSUME TypeOK, RoundOrder, NEW a \in Agents, Abandon(a)
  PROVE  RoundOrder'
<1> DEFINE o == OrgOf[a]
<1>1. PICK i \in DOMAIN queue[o] : queue[o][i] = a /\ queue' = [queue EXCEPT ![o] = Without(@, i)]
  BY DEF Abandon
<1>2. /\ ring' = ring /\ last' = last /\ o \in Orgs
      /\ passed' = IF Waits(o)' THEN passed ELSE [passed EXCEPT ![o] = {}]
  BY OrgAssumption DEF Abandon
<1> HIDE DEF o
<1>3. \A p \in Orgs : p # o => (Waits(p)' <=> Waits(p))
  BY <1>1 DEF Waits, TypeOK
<1>4. Waits(o)
  <2>1. queue[o] \in Seq(Agents)
    BY <1>2 DEF TypeOK
  <2> QED BY <1>1, <2>1 DEF Waits
<1>5. Elements(ring)' = Elements(ring) /\ \A p : Behind(p)' = Behind(p)
  BY <1>2 DEF Elements, Behind, Position
<1>6. \A p \in Orgs : passed'[p] \subseteq passed[p] /\ (p # o => passed'[p] = passed[p])
                      /\ (~Waits(o)' => passed'[o] = {})
  BY <1>2 DEF TypeOK
<1>7. \A p \in Orgs : (Waits(p)' => p \in Elements(ring)') /\ (~Waits(p)' => passed'[p] = {})
  BY <1>3, <1>4, <1>5, <1>6 DEF RoundOrder
<1>8. \A p \in Orgs : \A q \in passed'[p] : q \in Elements(ring)' /\ Behind(p)' < Behind(q)'
  BY <1>5, <1>6 DEF RoundOrder
<1> QED BY <1>2, <1>5, <1>7, <1>8 DEF RoundOrder

LEMMA SameRound ==
  ASSUME RoundOrder, UNCHANGED <<queue, ring, last, passed>>
  PROVE  RoundOrder'
<1>1. Elements(ring)' = Elements(ring) /\ \A p : Behind(p)' = Behind(p) /\ (Waits(p)' <=> Waits(p))
  BY DEF Waits, Behind, Position, Elements
<1> QED BY <1>1 DEF RoundOrder

LEMMA RoundStep ==
  ASSUME TypeOK, RoundOrder, [Next]_vars
  PROVE  RoundOrder'
<1>1. ASSUME \/ UNCHANGED vars \/ Settings
             \/ \E a \in Agents : \/ Enter(a) \/ Wake(a) \/ Interrupt(a) \/ Halt(a) \/ UndoHalt(a) \/ Unhalt(a)
                                  \/ Asked(a) \/ Granted(a) \/ HandOn(a) \/ Sleep(a) \/ Queued(a)
                                  \/ Leave(a) \/ Settle(a) \/ Exit(a) \/ Notify(a)
      PROVE  UNCHANGED <<queue, ring, last, passed>>
  BY <1>1 DEF vars, slotVars, Settings, SetLimit, LimitSet, Refresh, Enter, Wake, Interrupt, Halt,
              UndoHalt, Unhalt, Asked, Granted, HandOn, GiveBack, Sleep, Queued, Leave, Settle, Exit, Notify
<1> QED BY <1>1, GrantRound, AskRound, AbandonRound, SameRound DEF Next, Turn, Wait

LEMMA RoundInvariant == Spec => [](TypeOK /\ RoundOrder)
<1>1. Init => RoundOrder
  BY DEF Init, RoundOrder, Waits, Elements
<1>2. TypeOK /\ RoundOrder /\ [Next]_vars => RoundOrder'
  BY RoundStep
<1> QED BY <1>1, <1>2, SlotTypesHold, PTL DEF Spec

\* Orgs alternate: no org is served twice while another one waits, whatever
\* asks, abandons and changes of the limit come in between.
THEOREM OrgsTakeTurns == Spec => OrgsAlternate
<1>1. TypeOK /\ RoundOrder /\ [Next]_vars
        => [\A o, p \in Orgs : Grant(o) /\ p # o /\ Waits(p) => o \notin passed[p]]_vars
  BY GrantRound
<1> QED BY <1>1, RoundInvariant, PTL DEF Spec, OrgsAlternate
==============================================================================
