-------------------------- MODULE TurnSchedProofs --------------------------
(***************************************************************************)
(* The turn scheduler, for any agents, orgs, servers, caps and limits:     *)
(* what is held, what a lane holds and what the limit allows; that no slot *)
(* idles while a turn could start; that who waits is wanted.               *)
(***************************************************************************)
EXTENDS TurnSched, TLAPS, FiniteSetTheorems

SlotRecords == [st : SlotStates, agent : Agents \cup {None}, lane : Lanes]

\* the part of the types that the counts rest on
CountTypes ==
  /\ limit \in 1..MaxLimit
  /\ held \in Int
  /\ seat \in [Agents -> Lanes]
  /\ slot \in [Slots -> SlotRecords]
  /\ lanes \in [Servers -> Int]
  /\ chan \in Seq(Messages)

SInv == CountTypes /\ HeldCounts /\ LanesCount

OnUsed(k) == OnLane(SlotStates \ {"free"}, k)

(* What the steps do to the slots. *)

\* the slots in D stop counting; no slot is taken or seen back
Drops(D) ==
  /\ D \subseteq InState(Alive)
  /\ InState(Alive)' = InState(Alive) \ D
  /\ held' = held - Cardinality(D)
  /\ lanes' = lanes
  /\ slot' \in [Slots -> SlotRecords]
  /\ \A i \in Slots : /\ slot'[i].lane = slot[i].lane
                      /\ slot'[i].st = "free" <=> slot[i].st = "free"
                      /\ slot[i].st = "posted" => slot'[i].st = "posted"

LEMMA SameDrops ==
  ASSUME CountTypes, UNCHANGED <<held, slot, lanes>>
  PROVE  Drops({})
BY FS_EmptySet DEF CountTypes, Drops, InState

LEMMA DroppingDrops ==
  ASSUME CountTypes, NEW a, NEW S \in SUBSET InState({"turn", "mailed", "failed"}),
         NEW load \in {"loading", "loose", "aborted"}, Dropping(a, S, load), lanes' = lanes
  PROVE  Drops(S)
<1> USE DEF InState, SlotStates, Alive, SlotRecords
<1>1. slot \in [Slots -> SlotRecords]
  BY DEF CountTypes
<1>2. \A i \in S : i \in Slots /\ slot'[i] = [slot[i] EXCEPT !.st = "dropping"]
  BY DEF Dropping
<1>3. \A i \in Loading(a) \ S : i \in Slots /\ slot'[i] = [slot[i] EXCEPT !.st = load]
  BY DEF Dropping, Loading
<1>4. \A i \in Slots \ (S \cup Loading(a)) : slot'[i] = slot[i]
  BY DEF Dropping
<1>5. \A i \in S : slot'[i].st = "dropping" /\ slot'[i].lane = slot[i].lane /\ slot'[i] \in SlotRecords
  BY <1>1, <1>2
<1>6. \A i \in Loading(a) \ S : slot'[i].st = load /\ slot'[i].lane = slot[i].lane /\ slot'[i] \in SlotRecords
  BY <1>1, <1>3
<1>7. slot' \in [Slots -> SlotRecords]
  BY <1>1, <1>4, <1>5, <1>6 DEF Dropping
<1>8. InState(Alive)' = InState(Alive) \ S
  BY <1>4, <1>5, <1>6 DEF Loading
<1>9. \A i \in Slots : /\ slot'[i].lane = slot[i].lane
                       /\ slot'[i].st = "free" <=> slot[i].st = "free"
                       /\ slot[i].st = "posted" => slot'[i].st = "posted"
  BY <1>4, <1>5, <1>6 DEF Loading
<1> QED BY <1>7, <1>8, <1>9 DEF Drops, Dropping

LEMMA SlotMoved ==
  ASSUME CountTypes, NEW i \in Slots, NEW st \in SlotStates \ {"free"},
         slot[i].st \notin {"free", "posted"}, slot' = [slot EXCEPT ![i].st = st], lanes' = lanes
  PROVE  /\ (slot[i].st \in Alive <=> st \in Alive) /\ held' = held => Drops({})
         /\ slot[i].st \in Alive /\ st \notin Alive /\ held' = held - 1 => Drops({i})
<1>1. slot'[i] = [slot[i] EXCEPT !.st = st]
  BY DEF CountTypes
<1>2. \A j \in Slots \ {i} : slot'[j] = slot[j]
  BY DEF CountTypes
<1>3. slot'[i].st = st /\ slot'[i].lane = slot[i].lane /\ slot'[i] \in SlotRecords
  BY <1>1 DEF CountTypes, SlotRecords
<1>4. slot' \in [Slots -> SlotRecords]
  BY <1>2, <1>3 DEF CountTypes
<1>5. \A j \in Slots : /\ slot'[j].lane = slot[j].lane
                       /\ slot'[j].st = "free" <=> slot[j].st = "free"
                       /\ slot[j].st = "posted" => slot'[j].st = "posted"
  BY <1>2, <1>3
<1>6. Cardinality({}) = 0 /\ Cardinality({i}) = 1 /\ held \in Int
  BY FS_EmptySet, FS_Singleton DEF CountTypes
<1>7. ASSUME slot[i].st \in Alive <=> st \in Alive, held' = held
      PROVE  Drops({})
  <2>1. InState(Alive)' = InState(Alive) \ {}
    BY <1>2, <1>3, <1>7 DEF InState
  <2>2. held' = held - Cardinality({})
    BY <1>6, <1>7
  <2> QED BY <1>4, <1>5, <2>1, <2>2, Zenon DEF Drops
<1>8. ASSUME slot[i].st \in Alive, st \notin Alive, held' = held - 1
      PROVE  Drops({i})
  <2>1. InState(Alive)' = InState(Alive) \ {i} /\ {i} \subseteq InState(Alive)
    BY <1>2, <1>3, <1>8 DEF InState
  <2>2. held' = held - Cardinality({i})
    BY <1>6, <1>8
  <2> QED BY <1>4, <1>5, <2>1, <2>2, Zenon DEF Drops
<1> QED BY <1>7, <1>8

LEMMA StepKinds ==
  ASSUME CountTypes, [Next]_vars
  PROVE  \/ \E D : Drops(D)
         \/ RecvReleased
         \/ Grant
<1> USE DEF InState, SlotStates, Alive, SlotRecords
<1>1. ASSUME UNCHANGED <<held, slot, lanes>>
      PROVE  \E D : Drops(D)
  BY <1>1, SameDrops
<1>2. ASSUME NEW a \in Agents, NEW to, Leave(a, to)
      PROVE  \E D : Drops(D)
  BY <1>2, DroppingDrops DEF Leave, Holding
<1>3. ASSUME NEW i \in Slots, GiveUp(i)
      PROVE  \E D : Drops(D)
  BY <1>3, DroppingDrops DEF GiveUp
<1>4. ASSUME NEW a \in Agents, EndTurn(a)
      PROVE  \E D : Drops(D)
  BY <1>4, DroppingDrops DEF EndTurn, Holding
<1>5. ASSUME NEW i \in Slots, Post(i)
      PROVE  Drops({})
  <2>1. /\ slot[i].st \in {"dropping", "dropped"} /\ slot' = [slot EXCEPT ![i].st = "posted"]
        /\ held' = held /\ lanes' = lanes
    BY <1>5 DEF Post
  <2>2. "posted" \in SlotStates \ {"free"} /\ slot[i].st \notin {"free", "posted"}
    BY <2>1
  <2>3. slot[i].st \notin Alive /\ "posted" \notin Alive
    BY <2>1
  <2> QED BY <2>1, <2>2, <2>3, SlotMoved, Zenon
<1>6. ASSUME NEW i \in Slots, DropAborted(i)
      PROVE  Drops({i})
  <2>1. /\ slot[i].st = "aborted" /\ slot' = [slot EXCEPT ![i].st = "dropped"]
        /\ held' = held - 1 /\ lanes' = lanes
    BY <1>6 DEF DropAborted
  <2>2. "dropped" \in SlotStates \ {"free"} /\ slot[i].st \notin {"free", "posted"}
    BY <2>1
  <2>3. slot[i].st \in Alive /\ "dropped" \notin Alive
    BY <2>1
  <2> QED BY <2>1, <2>2, <2>3, SlotMoved, Zenon
<1>7. ASSUME NEW i \in Slots, NEW st \in {"mailed", "failed"}, Loaded(i, st)
      PROVE  Drops({})
  BY <1>7, SlotMoved DEF Loaded
<1>8. ASSUME NEW i \in Slots, OnSlot(i)
      PROVE  Drops({})
  <2> DEFINE a == slot[i].agent
  <2>1. slot'[i] = [slot[i] EXCEPT !.st = "turn"] /\ slot[i].st = "mailed"
    BY <1>8 DEF OnSlot
  <2>2. \A j \in Loading(a) \ {i} : j \in Slots /\ slot'[j] = [slot[j] EXCEPT !.st = "loose"]
    BY <1>8 DEF OnSlot, Loading
  <2>3. \A j \in Slots \ (Loading(a) \cup {i}) : slot'[j] = slot[j]
    BY <1>8 DEF OnSlot
  <2>4. slot'[i].st = "turn" /\ slot'[i].lane = slot[i].lane /\ slot'[i] \in SlotRecords
    BY <2>1 DEF CountTypes
  <2>5. \A j \in Loading(a) \ {i} : /\ slot'[j].st = "loose" /\ slot[j].st = "loading"
                                    /\ slot'[j].lane = slot[j].lane /\ slot'[j] \in SlotRecords
    BY <2>2 DEF CountTypes, Loading
  <2>6. slot' \in [Slots -> SlotRecords]
    BY <1>8, <2>3, <2>4, <2>5 DEF CountTypes, OnSlot
  <2>7. held' = held /\ lanes' = lanes
    BY <1>8 DEF OnSlot
  <2> HIDE DEF a
  <2>8. InState(Alive)' = InState(Alive)
    BY <2>1, <2>3, <2>4, <2>5 DEF Loading
  <2> QED BY <2>1, <2>3, <2>4, <2>5, <2>6, <2>7, <2>8, FS_EmptySet DEF Drops, CountTypes
<1>9. ASSUME \/ RecvWant \/ RecvCancel \/ RecvLimit \/ GrantDone \/ UNCHANGED vars
             \/ \E a \in Agents : Wake(a)
             \/ \E a \in Agents, k \in Lanes : SwitchModel(a, k)
             \/ \E n \in 1..MaxLimit : SetLimit(n)
      PROVE  UNCHANGED <<held, slot, lanes>>
  BY <1>9 DEF RecvWant, RecvCancel, RecvLimit, GrantDone, Wake, SwitchModel, SetLimit, vars
<1> QED
  BY <1>1, <1>2, <1>3, <1>4, <1>5, <1>6, <1>7, <1>8, <1>9 DEF Next, Task

(* The inbox. *)

LEMMA MarkedMessages ==
  ASSUME CountTypes, NEW a, NEW task \in {"free", "gone"}
  PROVE  /\ MarkedChan(a, task) \in Seq(Messages)
         /\ Len(MarkedChan(a, task)) = Len(chan)
         /\ \A j \in DOMAIN chan : /\ chan[j][1] = "released" => MarkedChan(a, task)[j] = chan[j]
                                   /\ MarkedChan(a, task)[j][1] = chan[j][1]
<1>1. \A e \in Entries : Marked(e, a, task) \in Entries
  BY DEF Marked, Entries
<1>2. \A j \in DOMAIN chan : chan[j] \in Messages
  BY DEF CountTypes
<1>3. \A j \in DOMAIN chan : chan[j][1] = "want" => chan[j][2] \in Entries
  BY <1>2 DEF Messages
<1>4. \A j \in DOMAIN chan : MarkedChan(a, task)[j] \in Messages
  BY <1>1, <1>2, <1>3 DEF MarkedChan, Messages
<1>5. DOMAIN chan = 1..Len(chan) /\ Len(chan) \in Nat
  BY DEF CountTypes
<1>6. MarkedChan(a, task) \in [1..Len(chan) -> Messages]
  BY <1>4, <1>5 DEF MarkedChan
<1>7. \A j \in DOMAIN chan : /\ chan[j][1] = "released" => MarkedChan(a, task)[j] = chan[j]
                             /\ MarkedChan(a, task)[j][1] = chan[j][1]
  BY DEF MarkedChan
<1> QED BY <1>5, <1>6, <1>7

\* no release enters the inbox, and none is read
ChanKept ==
  /\ chan' \in Seq(Messages)
  /\ \A j \in DOMAIN chan' : chan'[j][1] = "released" =>
       \E k \in DOMAIN chan : chan[k] = chan'[j]
  /\ \A j, m \in DOMAIN chan' : chan'[j][1] = "released" /\ chan'[j] = chan'[m] /\ j # m =>
       \E k, l \in DOMAIN chan : chan[k] = chan'[j] /\ chan[l] = chan[k] /\ k # l

LEMMA MarkedKept ==
  ASSUME CountTypes, NEW a, NEW task \in {"free", "gone"}, chan' = MarkedChan(a, task)
  PROVE  ChanKept
<1>1. DOMAIN chan' = DOMAIN chan
  BY DEF MarkedChan
<1>2. \A j \in DOMAIN chan' : chan'[j][1] = "released" => chan'[j] = chan[j]
  BY <1>1, MarkedMessages
<1>3. chan' \in Seq(Messages)
  BY MarkedMessages
<1> QED BY <1>1, <1>2, <1>3 DEF ChanKept

LEMMA AppendKept ==
  ASSUME CountTypes, NEW m \in Messages, m[1] # "released", NEW c \in Seq(Messages),
         Len(c) = Len(chan),
         \A j \in DOMAIN chan : /\ chan[j][1] = "released" => c[j] = chan[j]
                                /\ c[j][1] = chan[j][1],
         chan' = Append(c, m)
  PROVE  ChanKept
<1>1. /\ chan' \in Seq(Messages) /\ Len(chan') = Len(chan) + 1
      /\ \A j \in 1..Len(chan) : chan'[j] = c[j]
      /\ chan'[Len(chan) + 1] = m
  OBVIOUS
<1>2. DOMAIN chan' = 1..(Len(chan) + 1) /\ DOMAIN chan = 1..Len(chan) /\ Len(chan) \in Nat
  BY <1>1 DEF CountTypes
<1>3. \A j \in DOMAIN chan' : chan'[j][1] = "released" => j \in DOMAIN chan /\ chan'[j] = chan[j]
  BY <1>1, <1>2
<1> QED BY <1>1, <1>3 DEF ChanKept

LEMMA TailKept ==
  ASSUME CountTypes, chan # <<>>, chan' = Tail(chan)
  PROVE  /\ ChanKept
         /\ \A j \in DOMAIN chan' : j + 1 \in DOMAIN chan /\ j + 1 # 1 /\ chan'[j] = chan[j + 1]
<1>1. /\ chan' \in Seq(Messages) /\ Len(chan) \in Nat /\ Len(chan) # 0 /\ Len(chan') = Len(chan) - 1
      /\ \A j \in 1..Len(chan') : chan'[j] = chan[j + 1]
  BY DEF CountTypes
<1>2. DOMAIN chan' = 1..Len(chan') /\ DOMAIN chan = 1..Len(chan)
  BY <1>1 DEF CountTypes
<1>3. \A j \in DOMAIN chan' : j + 1 \in DOMAIN chan /\ j + 1 # 1 /\ chan'[j] = chan[j + 1]
  BY <1>1, <1>2
<1>4. \A j, m \in DOMAIN chan' : j # m => j + 1 # m + 1
  BY <1>1, <1>2
<1> QED BY <1>1, <1>3, <1>4 DEF ChanKept

LEMMA SameChan ==
  ASSUME CountTypes, chan' = chan
  PROVE  ChanKept
BY DEF CountTypes, ChanKept

LEMMA ChanKinds ==
  ASSUME CountTypes, [Next]_vars
  PROVE  ChanKept \/ RecvReleased \/ \E i \in Slots : Post(i)
<1> USE DEF CountTypes
<1>1. ASSUME NEW a \in Agents, Wake(a)
      PROVE  ChanKept
  <2>1. PICK task \in {"free", "tracked"} :
          chan' = Append(chan, <<"want", [agent |-> a, lane |-> seat[a], task |-> task]>>)
    BY <1>1 DEF Wake
  <2>2. [agent |-> a, lane |-> seat[a], task |-> task] \in Entries
    BY DEF Entries
  <2>3. <<"want", [agent |-> a, lane |-> seat[a], task |-> task]>> \in Messages
    BY <2>2 DEF Messages
  <2> QED BY <2>1, <2>3, AppendKept
<1>2. ASSUME NEW a \in Agents, NEW to, Leave(a, to)
      PROVE  ChanKept
  <2>1. CASE chan' = MarkedChan(a, "gone")
    BY <2>1, MarkedKept
  <2>2. CASE chan' = Append(MarkedChan(a, "gone"), <<"cancel", a>>)
    <3>1. <<"cancel", a>> \in Messages
      BY DEF Messages
    <3>2. /\ MarkedChan(a, "gone") \in Seq(Messages)
          /\ Len(MarkedChan(a, "gone")) = Len(chan)
          /\ \A j \in DOMAIN chan :
               /\ chan[j][1] = "released" => MarkedChan(a, "gone")[j] = chan[j]
               /\ MarkedChan(a, "gone")[j][1] = chan[j][1]
      BY MarkedMessages
    <3> QED BY <2>2, <3>1, <3>2, AppendKept
  <2> QED BY <1>2, <2>1, <2>2 DEF Leave
<1>3. ASSUME NEW i \in Slots, OnSlot(i) \/ GiveUp(i)
      PROVE  ChanKept
  BY <1>3, MarkedKept DEF OnSlot, GiveUp, Forgotten
<1>4. ASSUME NEW n \in 1..MaxLimit, SetLimit(n)
      PROVE  ChanKept
  <2>1. <<"limit", None>> \in Messages /\ chan' = Append(chan, <<"limit", None>>)
    BY <1>4 DEF Messages, SetLimit
  <2> QED BY <2>1, AppendKept
<1>5. ASSUME RecvWant \/ RecvCancel \/ RecvLimit
      PROVE  ChanKept
  BY <1>5, TailKept DEF RecvWant, RecvCancel, RecvLimit, Received
<1>6. ASSUME \/ Grant \/ GrantDone \/ UNCHANGED vars
             \/ \E i \in Slots : DropAborted(i) \/ Loaded(i, "mailed") \/ Loaded(i, "failed")
             \/ \E a \in Agents : EndTurn(a)
             \/ \E a \in Agents, k \in Lanes : SwitchModel(a, k)
      PROVE  chan' = chan
  BY <1>6 DEF Grant, GrantDone, DropAborted, Loaded, EndTurn, SwitchModel, vars
<1> HIDE DEF CountTypes
<1> QED
  BY <1>1, <1>2, <1>3, <1>4, <1>5, <1>6, SameChan DEF Next, Task

ReleasedOnce ==
  \A j \in DOMAIN chan : chan[j][1] = "released" =>
    /\ slot[chan[j][2]].st = "posted"
    /\ \A m \in DOMAIN chan : chan[m] = chan[j] => m = j

LEMMA ReleasedMessage ==
  ASSUME CountTypes, NEW j \in DOMAIN chan, chan[j][1] = "released"
  PROVE  chan[j][2] \in Slots /\ chan[j] = <<"released", chan[j][2]>>
<1>1. chan[j] \in Messages
  BY DEF CountTypes
<1> QED BY <1>1 DEF Messages

LEMMA KeptOnce ==
  ASSUME CountTypes, ReleasedOnce, ChanKept,
         \A i \in Slots : slot[i].st = "posted" => slot'[i].st = "posted"
  PROVE  ReleasedOnce'
<1>1. ASSUME NEW j \in DOMAIN chan', chan'[j][1] = "released"
      PROVE  slot'[chan'[j][2]].st = "posted"
  <2>1. PICK k \in DOMAIN chan : chan[k] = chan'[j]
    BY <1>1 DEF ChanKept
  <2> QED BY <1>1, <2>1, ReleasedMessage DEF ReleasedOnce
<1>2. ASSUME NEW j \in DOMAIN chan', chan'[j][1] = "released",
             NEW m \in DOMAIN chan', chan'[m] = chan'[j]
      PROVE  m = j
  <2>1. SUFFICES ASSUME m # j PROVE FALSE
    OBVIOUS
  <2>2. PICK k, l \in DOMAIN chan : chan[k] = chan'[j] /\ chan[l] = chan[k] /\ k # l
    BY <1>2, <2>1 DEF ChanKept
  <2> QED BY <1>2, <2>2 DEF ReleasedOnce
<1> QED BY <1>1, <1>2 DEF ReleasedOnce

LEMMA PostOnce ==
  ASSUME CountTypes, ReleasedOnce, NEW i \in Slots, Post(i)
  PROVE  ReleasedOnce' /\ chan' \in Seq(Messages)
<1>1. /\ chan' = Append(chan, <<"released", i>>)
      /\ slot[i].st \in {"dropping", "dropped"}
      /\ slot' = [slot EXCEPT ![i].st = "posted"]
  BY DEF Post
<1>2. <<"released", i>> \in Messages
  BY DEF Messages
<1>3. /\ chan' \in Seq(Messages) /\ Len(chan') = Len(chan) + 1 /\ Len(chan) \in Nat
      /\ \A j \in 1..Len(chan) : chan'[j] = chan[j]
      /\ chan'[Len(chan) + 1] = <<"released", i>>
  BY <1>1, <1>2 DEF CountTypes
<1>4. DOMAIN chan' = 1..(Len(chan) + 1) /\ DOMAIN chan = 1..Len(chan)
  BY <1>3 DEF CountTypes
<1>5. \A j \in DOMAIN chan : chan[j] # <<"released", i>>
  BY <1>1 DEF ReleasedOnce
<1>6. slot'[i].st = "posted" /\ \A j \in Slots \ {i} : slot'[j] = slot[j]
  BY <1>1 DEF CountTypes, SlotRecords
<1>7. ASSUME NEW j \in DOMAIN chan', chan'[j][1] = "released"
      PROVE  slot'[chan'[j][2]].st = "posted"
  <2>1. CASE j = Len(chan) + 1
    BY <1>3, <1>6, <2>1
  <2>2. CASE j \in DOMAIN chan
    <3>1. chan'[j] = chan[j]
      BY <1>3, <1>4, <2>2
    <3>2. chan[j][2] \in Slots /\ slot[chan[j][2]].st = "posted"
      BY <1>7, <2>2, <3>1, ReleasedMessage DEF ReleasedOnce
    <3> QED BY <1>6, <3>1, <3>2
  <2> QED BY <1>3, <1>4, <2>1, <2>2
<1>8. ASSUME NEW j \in DOMAIN chan', chan'[j][1] = "released",
             NEW m \in DOMAIN chan', chan'[m] = chan'[j]
      PROVE  m = j
  BY <1>3, <1>4, <1>5, <1>8 DEF ReleasedOnce
<1> QED BY <1>3, <1>7, <1>8 DEF ReleasedOnce

LEMMA ReadOnce ==
  ASSUME CountTypes, ReleasedOnce, RecvReleased
  PROVE  ReleasedOnce' /\ chan' \in Seq(Messages)
<1>1. /\ chan # <<>> /\ chan' = Tail(chan) /\ Head(chan)[1] = "released"
      /\ slot' = [slot EXCEPT ![Head(chan)[2]] = NoSlot]
  BY DEF RecvReleased, Received
<1>2. 1 \in DOMAIN chan /\ Head(chan) = chan[1]
  BY <1>1 DEF CountTypes
<1>3. \A j \in DOMAIN chan' : j + 1 \in DOMAIN chan /\ j + 1 # 1 /\ chan'[j] = chan[j + 1]
  BY <1>1, TailKept
<1>4. ASSUME NEW j \in DOMAIN chan', chan'[j][1] = "released"
      PROVE  slot'[chan'[j][2]].st = "posted"
  <2>1. /\ chan[j + 1] # chan[1]
        /\ slot[chan[j + 1][2]].st = "posted"
    BY <1>2, <1>3, <1>4 DEF ReleasedOnce
  <2>2. chan[j + 1][2] # chan[1][2] /\ chan[j + 1][2] \in Slots
    BY <1>1, <1>2, <1>3, <1>4, <2>1, ReleasedMessage
  <2> QED BY <1>1, <1>2, <1>3, <2>1, <2>2 DEF CountTypes
<1>5. ChanKept
  BY <1>1, TailKept
<1>6. ASSUME NEW j \in DOMAIN chan', chan'[j][1] = "released",
             NEW m \in DOMAIN chan', chan'[m] = chan'[j]
      PROVE  m = j
  <2>1. SUFFICES ASSUME m # j PROVE FALSE
    OBVIOUS
  <2>2. PICK k, l \in DOMAIN chan : chan[k] = chan'[j] /\ chan[l] = chan[k] /\ k # l
    BY <1>5, <1>6, <2>1 DEF ChanKept
  <2> QED BY <1>6, <2>2 DEF ReleasedOnce
<1> QED BY <1>4, <1>5, <1>6 DEF ReleasedOnce, ChanKept

(* The counts. *)

LEMMA SlotSets ==
  /\ \A S : IsFiniteSet(InState(S)) /\ Cardinality(InState(S)) \in Nat
  /\ \A k : IsFiniteSet(OnUsed(k)) /\ Cardinality(OnUsed(k)) \in Nat
<1>1. \A S : InState(S) \subseteq Slots
  BY DEF InState
<1>2. \A k : OnUsed(k) \subseteq Slots
  BY DEF OnUsed, OnLane, InState
<1> QED BY <1>1, <1>2, SlotsAssumption, FS_Subset, FS_CardinalityType

LEMMA DropsCount ==
  ASSUME SInv, NEW D, Drops(D)
  PROVE  /\ HeldCounts' /\ held' \in Int
         /\ Cardinality(InState(Alive))' <= Cardinality(InState(Alive))
         /\ \A k \in Servers : OnUsed(k)' = OnUsed(k)
<1>1. /\ IsFiniteSet(InState(Alive)) /\ D \subseteq InState(Alive)
      /\ InState(Alive) \cap D = D
  BY SlotSets DEF Drops
<1>2. Cardinality(InState(Alive) \ D) = Cardinality(InState(Alive)) - Cardinality(D)
  BY <1>1, FS_Difference
<1>3. Cardinality(D) \in Nat
  BY <1>1, FS_Subset, FS_CardinalityType
<1>4. InState(Alive)' = InState(Alive) \ D /\ held' = held - Cardinality(D)
  BY DEF Drops
<1>5. held = Cardinality(InState(Alive)) /\ Cardinality(InState(Alive)) \in Nat
  BY SlotSets DEF SInv, HeldCounts
<1>6. Cardinality(InState(Alive))' = Cardinality(InState(Alive)) - Cardinality(D)
  BY <1>2, <1>4
<1>7. ASSUME NEW k \in Servers
      PROVE  OnUsed(k)' = OnUsed(k)
  <2>1. \A i \in Slots : slot[i].st \in SlotStates /\ slot'[i].st \in SlotStates
    BY DEF SInv, CountTypes, Drops, SlotRecords
  <2> QED BY <2>1 DEF OnUsed, OnLane, InState, Drops
<1> QED BY <1>3, <1>4, <1>5, <1>6, <1>7 DEF HeldCounts

LEMMA ReadCount ==
  ASSUME SInv, RecvReleased
  PROVE  /\ HeldCounts' /\ held' \in Int
         /\ Cardinality(InState(Alive))' <= Cardinality(InState(Alive))
         /\ slot' \in [Slots -> SlotRecords]
         /\ lanes' \in [Servers -> Int]
         /\ \A k \in Servers : /\ lanes'[k] = Cardinality(OnUsed(k)')
                               /\ lanes'[k] <= LaneCap[k]
<1> DEFINE i == Head(chan)[2]
<1>1. /\ chan # <<>> /\ Head(chan)[1] = "released" /\ held' = held
      /\ lanes' = [k \in Servers |-> IF k = slot[i].lane THEN lanes[k] - 1 ELSE lanes[k]]
      /\ slot' = [slot EXCEPT ![i] = NoSlot]
  BY DEF RecvReleased, Received
<1>2. 1 \in DOMAIN chan /\ Head(chan) = chan[1]
  BY <1>1 DEF SInv, CountTypes
<1>3. i \in Slots /\ slot[i].st = "posted"
  BY <1>1, <1>2, ReleasedMessage DEF SInv, LanesCount
<1> HIDE DEF i
<1>4. slot \in [Slots -> SlotRecords] /\ NoSlot \in SlotRecords /\ NoSlot.st = "free"
  BY DEF SInv, CountTypes, SlotRecords, NoSlot, SlotStates, Lanes
<1>5. slot' \in [Slots -> SlotRecords] /\ slot'[i] = NoSlot /\ \A j \in Slots \ {i} : slot'[j] = slot[j]
  BY <1>1, <1>3, <1>4
<1>6. InState(Alive)' = InState(Alive)
  BY <1>3, <1>4, <1>5 DEF InState, Alive
<1>7. ASSUME NEW k \in Servers
      PROVE  lanes'[k] = Cardinality(OnUsed(k)') /\ lanes'[k] <= LaneCap[k]
  <2>1. /\ lanes[k] = Cardinality(OnUsed(k)) /\ lanes[k] <= LaneCap[k] /\ LaneCap[k] \in Nat
        /\ IsFiniteSet(OnUsed(k)) /\ lanes[k] \in Int
    BY SlotSets, LaneAssumption DEF SInv, LanesCount, OnUsed, CountTypes
  <2>2. CASE k = slot[i].lane
    <3>1. OnUsed(k)' = OnUsed(k) \ {i} /\ i \in OnUsed(k)
      BY <1>3, <1>4, <1>5, <2>2 DEF OnUsed, OnLane, InState, SlotStates
    <3>2. Cardinality(OnUsed(k) \ {i}) = Cardinality(OnUsed(k)) - 1
      BY <2>1, <3>1, FS_RemoveElement
    <3> QED BY <1>1, <2>1, <2>2, <3>1, <3>2
  <2>3. CASE k # slot[i].lane
    <3>1. OnUsed(k)' = OnUsed(k)
      BY <1>3, <1>4, <1>5, <2>3 DEF OnUsed, OnLane, InState, SlotStates
    <3> QED BY <1>1, <2>1, <2>3, <3>1
  <2> QED BY <2>2, <2>3
<1>8. lanes' \in [Servers -> Int]
  BY <1>1 DEF SInv, CountTypes
<1>9. HeldCounts' /\ held' \in Int
  BY <1>1, <1>6 DEF SInv, HeldCounts, CountTypes
<1> QED BY <1>5, <1>6, <1>7, <1>8, <1>9, SlotSets

LEMMA GrantCount ==
  ASSUME SInv, Grant
  PROVE  /\ HeldCounts' /\ held' \in Int
         /\ Cardinality(InState(Alive))' <= limit /\ limit' = limit
         /\ slot' \in [Slots -> SlotRecords]
         /\ \A j \in Slots : slot[j].st = "posted" => slot'[j].st = "posted"
         /\ lanes' \in [Servers -> Int]
         /\ \A k \in Servers : /\ lanes'[k] = Cardinality(OnUsed(k)')
                               /\ lanes'[k] <= LaneCap[k]
<1>1. PICK e \in Entries, i \in InState({"free"}) :
        /\ \E o : NextUp(o, e)
        /\ held' = held + 1
        /\ lanes' = [k \in Servers |-> IF k = e.lane THEN lanes[k] + 1 ELSE lanes[k]]
        /\ slot' = [slot EXCEPT ![i] =
                      [agent |-> e.agent, lane |-> e.lane,
                       st |-> IF e.lane \notin Warming THEN "mailed"
                              ELSE IF e.task = "tracked" THEN "loading" ELSE "loose"]]
  BY Zenon DEF Grant
<1>2. Fits(e) /\ held < limit /\ limit' = limit
  BY <1>1, Zenon DEF NextUp, Grant, Room
<1>3. i \in Slots /\ slot[i].st = "free" /\ slot \in [Slots -> SlotRecords]
  BY DEF InState, SInv, CountTypes
<1>4. PICK st \in {"mailed", "loading", "loose"} :
        slot' = [slot EXCEPT ![i] = [agent |-> e.agent, lane |-> e.lane, st |-> st]]
  BY <1>1
<1>5. /\ slot'[i] = [agent |-> e.agent, lane |-> e.lane, st |-> st]
      /\ \A j \in Slots \ {i} : slot'[j] = slot[j]
  BY <1>3, <1>4
<1>6. slot'[i].st = st /\ slot'[i].lane = e.lane /\ slot'[i] \in SlotRecords /\ e.lane \in Lanes
  BY <1>5 DEF SlotRecords, SlotStates, Alive, Entries
<1>7. slot' \in [Slots -> SlotRecords]
  BY <1>3, <1>4, <1>5, <1>6
<1>8. InState(Alive)' = InState(Alive) \cup {i} /\ i \notin InState(Alive)
  BY <1>3, <1>5, <1>6 DEF InState, Alive
<1>9. Cardinality(InState(Alive))' = Cardinality(InState(Alive)) + 1
  BY <1>8, SlotSets, FS_AddElement
<1>10. HeldCounts' /\ held' \in Int /\ Cardinality(InState(Alive))' <= limit
  BY <1>1, <1>2, <1>9, LimitAssumption, SlotSets DEF SInv, HeldCounts, CountTypes
<1>11. ASSUME NEW k \in Servers
       PROVE  lanes'[k] = Cardinality(OnUsed(k)') /\ lanes'[k] <= LaneCap[k]
  <2>1. /\ lanes[k] = Cardinality(OnUsed(k)) /\ lanes[k] <= LaneCap[k] /\ LaneCap[k] \in Nat
        /\ IsFiniteSet(OnUsed(k)) /\ lanes[k] \in Int
    BY SlotSets, LaneAssumption DEF SInv, LanesCount, OnUsed, CountTypes
  <2>2. CASE k = e.lane
    <3>1. OnUsed(k)' = OnUsed(k) \cup {i} /\ i \notin OnUsed(k)
      BY <1>3, <1>5, <1>6, <2>2 DEF OnUsed, OnLane, InState, SlotStates, Alive
    <3>2. Cardinality(OnUsed(k) \cup {i}) = Cardinality(OnUsed(k)) + 1
      BY <2>1, <3>1, FS_AddElement
    <3>3. lanes[k] < LaneCap[k]
      BY <1>2, <2>2 DEF Fits
    <3> QED BY <1>1, <2>1, <2>2, <3>1, <3>2, <3>3
  <2>3. CASE k # e.lane
    <3>1. OnUsed(k)' = OnUsed(k)
      BY <1>3, <1>5, <1>6, <2>3 DEF OnUsed, OnLane, InState, SlotStates
    <3> QED BY <1>1, <2>1, <2>3, <3>1
  <2> QED BY <2>2, <2>3
<1>12. lanes' \in [Servers -> Int]
  BY <1>1 DEF SInv, CountTypes
<1>13. \A j \in Slots : slot[j].st = "posted" => slot'[j].st = "posted"
  BY <1>3, <1>5
<1> QED BY <1>2, <1>7, <1>10, <1>11, <1>12, <1>13

(* The invariant. *)

LEMMA CountInit == Init => SInv
<1> SUFFICES ASSUME Init PROVE SInv
  OBVIOUS
<1>1. CountTypes
  BY LimitAssumption, LaneAssumption
     DEF Init, CountTypes, SlotRecords, NoSlot, SlotStates, Lanes
<1>2. InState(Alive) = {} /\ \A k : OnUsed(k) = {}
  BY DEF Init, InState, OnUsed, OnLane, NoSlot, SlotStates, Alive
<1>3. HeldCounts
  BY <1>2, FS_EmptySet DEF Init, HeldCounts
<1>4. LanesCount
  <2>1. \A k \in Servers : lanes[k] = Cardinality(OnUsed(k)) /\ lanes[k] <= LaneCap[k]
    <3>1. \A k \in Servers : LaneCap[k] \in Nat /\ lanes[k] = 0
      BY LaneAssumption DEF Init
    <3>2. \A k : Cardinality(OnUsed(k)) = 0
      BY <1>2, FS_EmptySet
    <3> QED BY <3>1, <3>2
  <2>2. DOMAIN chan = {}
    BY DEF Init
  <2> QED BY <2>1, <2>2 DEF LanesCount, OnUsed
<1> QED BY <1>1, <1>3, <1>4 DEF SInv

LEMMA LanesParts ==
  LanesCount <=> /\ \A k \in Servers : lanes[k] = Cardinality(OnUsed(k)) /\ lanes[k] <= LaneCap[k]
                 /\ ReleasedOnce
BY DEF LanesCount, ReleasedOnce, OnUsed

LEMMA LanesPartsNext ==
  ASSUME \A k \in Servers : lanes'[k] = Cardinality(OnUsed(k)') /\ lanes'[k] <= LaneCap[k],
         ReleasedOnce'
  PROVE  LanesCount'
BY DEF LanesCount, ReleasedOnce, OnUsed

LEMMA OtherTypes ==
  ASSUME CountTypes, [Next]_vars
  PROVE  limit' \in 1..MaxLimit /\ seat' \in [Agents -> Lanes]
<1>1. CASE \E n \in 1..MaxLimit : SetLimit(n)
  BY <1>1 DEF CountTypes, SetLimit
<1>2. CASE \E a \in Agents, k \in Lanes : SwitchModel(a, k)
  BY <1>2 DEF CountTypes, SwitchModel
<1>3. CASE UNCHANGED <<limit, seat>>
  BY <1>3 DEF CountTypes
<1> QED
  BY <1>1, <1>2, <1>3
     DEF Next, Task, RecvWant, RecvCancel, RecvReleased, RecvLimit, Grant, GrantDone, Post,
         DropAborted, OnSlot, GiveUp, Loaded, Wake, EndTurn, Leave, vars

LEMMA CountStep ==
  ASSUME SInv, [Next]_vars
  PROVE  /\ SInv'
         /\ Cardinality(InState(Alive))' > Cardinality(InState(Alive))
              => Cardinality(InState(Alive))' <= limit'
<1>1. CountTypes /\ ReleasedOnce
  BY LanesParts DEF SInv
<1>2. limit' \in 1..MaxLimit /\ seat' \in [Agents -> Lanes]
  BY <1>1, OtherTypes
<1>3. Cardinality(InState(Alive)) \in Nat /\ Cardinality(InState(Alive))' \in Nat
  <2>1. InState(Alive)' \subseteq Slots
    BY DEF InState
  <2> QED BY <2>1, SlotSets, SlotsAssumption, FS_Subset, FS_CardinalityType
<1>4. CASE RecvReleased
  <2>1. ReleasedOnce' /\ chan' \in Seq(Messages)
    BY <1>1, <1>4, ReadOnce
  <2> QED BY <1>2, <1>3, <1>4, <2>1, ReadCount, LanesPartsNext DEF SInv, CountTypes
<1>5. CASE Grant
  <2>1. chan' = chan
    BY <1>5, Zenon DEF Grant
  <2>2. ReleasedOnce' /\ chan' \in Seq(Messages)
    BY <1>1, <1>5, <2>1, SameChan, KeptOnce, GrantCount DEF ChanKept
  <2> QED BY <1>2, <1>3, <1>5, <2>2, GrantCount, LanesPartsNext DEF SInv, CountTypes
<1>6. CASE \E D : Drops(D)
  <2>1. PICK D : Drops(D)
    BY <1>6
  <2>2. ReleasedOnce' /\ chan' \in Seq(Messages)
    <3>1. CASE ChanKept
      BY <1>1, <2>1, <3>1, KeptOnce DEF Drops, ChanKept
    <3>2. CASE \E i \in Slots : Post(i)
      BY <1>1, <3>2, PostOnce
    <3>3. CASE RecvReleased
      BY <1>1, <3>3, ReadOnce
    <3> QED BY <1>1, <3>1, <3>2, <3>3, ChanKinds
  <2>3. /\ HeldCounts' /\ held' \in Int
        /\ Cardinality(InState(Alive))' <= Cardinality(InState(Alive))
        /\ \A k \in Servers : OnUsed(k)' = OnUsed(k)
    BY <2>1, DropsCount
  <2>4. lanes' = lanes /\ slot' \in [Slots -> SlotRecords]
    BY <2>1 DEF Drops
  <2>5. \A k \in Servers : lanes'[k] = Cardinality(OnUsed(k)') /\ lanes'[k] <= LaneCap[k]
    BY <2>3, <2>4, LanesParts DEF SInv
  <2> QED BY <1>1, <1>2, <1>3, <2>2, <2>3, <2>4, <2>5, LanesPartsNext DEF SInv, CountTypes
<1> QED BY <1>1, <1>4, <1>5, <1>6, StepKinds

LEMMA CountInvariant == Spec => []SInv
<1>1. Init => SInv
  BY CountInit
<1>2. SInv /\ [Next]_vars => SInv'
  BY CountStep
<1> QED BY <1>1, <1>2, PTL DEF Spec

(* No slot is lost and none is given back twice: the atomic count is the      *)
(* number of slots alive, on every path of a turn, a load and a late answer.  *)
THEOREM HeldIsAlive == Spec => []HeldCounts
<1>1. SInv => HeldCounts
  BY DEF SInv
<1> QED BY <1>1, CountInvariant, PTL

(* The task's own lane counts agree with the slots whose release it has not   *)
(* read, and each release is in its inbox once.                               *)
THEOREM LanesAgree == Spec => []LanesCount
<1>1. SInv => LanesCount
  BY DEF SInv
<1> QED BY <1>1, CountInvariant, PTL

(* A server's lane never has more turns alive than its agents-at-once cap.    *)
THEOREM LanesWithinCap == Spec => []LaneKept
<1>1. ASSUME SInv, NEW k \in Servers
      PROVE  Cardinality(OnLane(Alive, k)) <= LaneCap[k]
  <2>1. OnLane(Alive, k) \subseteq OnUsed(k)
    BY DEF OnLane, OnUsed, InState, Alive, SlotStates
  <2>2. IsFiniteSet(OnUsed(k)) /\ Cardinality(OnUsed(k)) \in Nat
    BY SlotSets
  <2>3. Cardinality(OnLane(Alive, k)) <= Cardinality(OnUsed(k)) /\ Cardinality(OnLane(Alive, k)) \in Nat
    BY <2>1, <2>2, FS_Subset, FS_CardinalityType
  <2>4. lanes[k] = Cardinality(OnUsed(k)) /\ lanes[k] <= LaneCap[k] /\ LaneCap[k] \in Nat
    BY <1>1, LanesParts, LaneAssumption DEF SInv
  <2> QED BY <2>2, <2>3, <2>4
<1>2. SInv => LaneKept
  BY <1>1 DEF LaneKept
<1> QED BY <1>2, CountInvariant, PTL

(* A slot is handed out only while all those alive fit under the limit.       *)
THEOREM LimitRespected == Spec => LimitKept
<1>1. SInv /\ [Next]_vars
        => [LET alive == Cardinality(InState(Alive)) IN alive' > alive => alive' <= limit']_vars
  BY CountStep
<1> QED BY <1>1, CountInvariant, PTL DEF Spec, LimitKept

(* Selecting the elements of a sequence at given places. *)

\* how many places of P lie below i
Rank(P, i) == Cardinality({m \in P : m < i})

LEMMA Ranks ==
  ASSUME NEW n \in Nat, NEW P \in SUBSET (1..n)
  PROVE  /\ IsFiniteSet(P) /\ Cardinality(P) \in Nat
         /\ \A i \in P : Rank(P, i) \in 0..(Cardinality(P) - 1)
         /\ \A i, k \in P : i < k => Rank(P, i) < Rank(P, k)
<1>0. \A i \in P : i \in Nat
  OBVIOUS
<1>1. IsFiniteSet(P) /\ Cardinality(P) \in Nat
  <2>1. IsFiniteSet(1..n)
    BY FS_Interval, 1 \in Int, n \in Int
  <2> QED BY <2>1, FS_Subset, FS_CardinalityType
<1>2. ASSUME NEW i \in P
      PROVE  /\ IsFiniteSet({m \in P : m < i})
             /\ Rank(P, i) \in Nat /\ Rank(P, i) < Cardinality(P)
  <2>1. {m \in P : m < i} \subseteq P /\ i \notin {m \in P : m < i}
    OBVIOUS
  <2>2. {m \in P : m < i} # P
    BY <2>1
  <2> QED BY <1>1, <2>1, <2>2, FS_Subset, FS_CardinalityType DEF Rank
<1>3. ASSUME NEW i \in P, NEW k \in P, i < k
      PROVE  Rank(P, i) < Rank(P, k)
  <2> DEFINE A == {m \in P : m < i}
             B == {m \in P : m < k}
  <2>0. \A m \in P : m < i => m < k
    BY <1>0, <1>3
  <2>1. A \subseteq B /\ i \in B /\ i \notin A
    <3>1. A \subseteq B
      BY <2>0
    <3>2. i \in B
      BY <1>3
    <3>3. i \notin A
      BY <1>0
    <3> QED BY <3>1, <3>2, <3>3
  <2>2. IsFiniteSet(B)
    BY <1>2
  <2> HIDE DEF A, B
  <2>3. IsFiniteSet(A) /\ Cardinality(A) <= Cardinality(B) /\ Cardinality(A) # Cardinality(B)
    BY <2>1, <2>2, FS_Subset
  <2>4. Cardinality(A) < Cardinality(B)
    BY <2>2, <2>3, FS_CardinalityType
  <2> QED BY <2>4 DEF Rank, A, B
<1>4. ASSUME NEW i \in P
      PROVE  Rank(P, i) \in 0..(Cardinality(P) - 1)
  <2>1. Rank(P, i) \in Nat /\ Rank(P, i) < Cardinality(P)
    BY <1>2
  <2> QED BY <1>1, <2>1
<1>5. \A i, k \in P : i < k => Rank(P, i) < Rank(P, k)
  BY <1>3
<1> QED BY <1>1, <1>4, <1>5

\* the place that Select puts at j
Place(P, j) == CHOOSE i \in P : Cardinality({m \in P : m < i}) = j - 1

LEMMA Places ==
  ASSUME NEW n \in Nat, NEW P \in SUBSET (1..n)
  PROVE  /\ \A j \in 1..Cardinality(P) : Place(P, j) \in P
         /\ \A i \in P : \E j \in 1..Cardinality(P) : Place(P, j) = i
         /\ \A j, m \in 1..Cardinality(P) : j < m => Place(P, j) < Place(P, m)
<1> DEFINE N == Cardinality(P)
           rank == [i \in P |-> Rank(P, i)]
<1>1. /\ IsFiniteSet(P) /\ N \in Nat
      /\ \A i \in P : Rank(P, i) \in 0..(N - 1)
      /\ \A i, k \in P : i < k => Rank(P, i) < Rank(P, k)
  BY Ranks
<1>2. \A i, k \in P : Rank(P, i) = Rank(P, k) => i = k
  BY <1>1
<1>3. rank \in Injection(P, 0..(N - 1))
  BY <1>1, <1>2 DEF Injection, IsInjective
<1>4. IsFiniteSet(0..(N - 1)) /\ Cardinality(0..(N - 1)) = N
  BY <1>1, FS_Interval
<1>5. rank \in Surjection(P, 0..(N - 1))
  <2> HIDE DEF rank
  <2> QED BY <1>1, <1>3, <1>4, FS_Injection
<1>6. \A r \in 0..(N - 1) : \E i \in P : Rank(P, i) = r
  BY <1>5 DEF Surjection
<1>7. ASSUME NEW j \in 1..N
      PROVE  Place(P, j) \in P /\ Rank(P, Place(P, j)) = j - 1
  <2>1. \E i \in P : Cardinality({m \in P : m < i}) = j - 1
    BY <1>1, <1>6 DEF Rank
  <2> QED BY <2>1 DEF Place, Rank
<1>8. ASSUME NEW i \in P
      PROVE  \E j \in 1..N : Place(P, j) = i
  <2>1. Rank(P, i) + 1 \in 1..N /\ Rank(P, i) \in Nat
    BY <1>1
  <2>2. Rank(P, Place(P, Rank(P, i) + 1)) = Rank(P, i) /\ Place(P, Rank(P, i) + 1) \in P
    BY <1>7, <2>1
  <2> QED BY <1>2, <2>1, <2>2
<1>9. ASSUME NEW j \in 1..N, NEW m \in 1..N, j < m
      PROVE  Place(P, j) < Place(P, m)
  <2>1. Rank(P, Place(P, j)) < Rank(P, Place(P, m))
    BY <1>1, <1>7, <1>9
  <2>2. P \subseteq Nat /\ Place(P, j) \in P /\ Place(P, m) \in P
    BY <1>7
  <2> DEFINE p == Place(P, j)
             q == Place(P, m)
  <2> HIDE DEF p, q
  <2>3. Rank(P, p) \in Nat /\ Rank(P, q) \in Nat /\ p \in Nat /\ q \in Nat
    <3>1. \A i \in P : Rank(P, i) \in Nat
      BY <1>1
    <3> QED BY <2>2, <3>1 DEF p, q
  <2>4. q < p => Rank(P, q) < Rank(P, p)
    BY <1>1, <2>2 DEF p, q
  <2>5. Rank(P, p) < Rank(P, q)
    BY <2>1 DEF p, q
  <2>6. p < q
    BY <2>3, <2>4, <2>5
  <2> QED BY <2>6 DEF p, q
<1> QED BY <1>7, <1>8, <1>9

LEMMA Selected ==
  ASSUME NEW S, NEW s \in Seq(S), NEW P \in SUBSET DOMAIN s
  PROVE  /\ Select(s, P) \in Seq(S)
         /\ Elements(Select(s, P)) = {s[i] : i \in P}
         /\ (Select(s, P) = <<>>) <=> P = {}
<1>1. Len(s) \in Nat /\ DOMAIN s = 1..Len(s) /\ \A i \in DOMAIN s : s[i] \in S
  OBVIOUS
<1>2. Cardinality(P) \in Nat
  BY <1>1, Ranks
<1>3. Select(s, P) = [j \in 1..Cardinality(P) |-> s[Place(P, j)]]
  BY DEF Select, Place
<1>4. \A j \in 1..Cardinality(P) : Place(P, j) \in P
  BY <1>1, Places
<1>5. Select(s, P) \in [1..Cardinality(P) -> S]
  BY <1>1, <1>3, <1>4
<1>6. Select(s, P) \in Seq(S)
  BY <1>2, <1>5
<1>7. Elements(Select(s, P)) = {s[i] : i \in P}
  BY <1>1, <1>3, <1>4, Places DEF Elements
<1>8. (Select(s, P) = <<>>) <=> P = {}
  <2>1. ASSUME P = {} PROVE Select(s, P) = <<>>
    <3>1. Cardinality(P) = 0
       BY <2>1, FS_EmptySet
    <3>2. 1..Cardinality(P) = {}
       BY <3>1
    <3>3. DOMAIN Select(s, P) = {}
       BY <1>3, <3>2
    <3> QED BY <1>6, <3>3
  <2>2. ASSUME Select(s, P) = <<>> PROVE P = {}
    <3>1. Elements(Select(s, P)) = {}
       BY <2>2 DEF Elements
    <3> QED BY <1>7, <3>1
  <2> QED BY <2>1, <2>2
<1> QED BY <1>6, <1>7, <1>8

(* Types of the task's queues. *)

LEMMA MarkedEntries ==
  ASSUME NEW a, NEW task \in {"free", "gone"}, NEW e \in Entries
  PROVE  /\ Marked(e, a, task) \in Entries
         /\ Marked(e, a, task).agent = e.agent
         /\ Marked(e, a, task).lane = e.lane
         /\ Marked(e, a, task).task # "gone" => e.task # "gone"
         /\ e.agent # a \/ task = "free" => (e.task # "gone" => Marked(e, a, task).task # "gone")
BY DEF Marked, Entries

LEMMA MarkedQueues ==
  ASSUME NEW a, NEW task \in {"free", "gone"}, NEW o \in Orgs, queue \in [Orgs -> Seq(Entries)]
  PROVE  /\ MarkedQueue(a, task)[o] \in Seq(Entries)
         /\ Len(MarkedQueue(a, task)[o]) = Len(queue[o])
         /\ \A j \in DOMAIN queue[o] : MarkedQueue(a, task)[o][j] = Marked(queue[o][j], a, task)
<1> DEFINE q == queue[o]
           mq == [j \in DOMAIN q |-> Marked(q[j], a, task)]
<1>1. q \in Seq(Entries) /\ MarkedQueue(a, task)[o] = mq
  BY DEF MarkedQueue
<1>2. DOMAIN q = 1..Len(q) /\ Len(q) \in Nat /\ \A j \in DOMAIN q : q[j] \in Entries
  BY <1>1
<1>3. mq \in [1..Len(q) -> Entries]
  BY <1>2, MarkedEntries
<1>4. mq \in Seq(Entries) /\ Len(mq) = Len(q)
  BY <1>2, <1>3
<1> QED BY <1>1, <1>4

LEMMA WithoutAgent ==
  ASSUME NEW q \in Seq(Entries), NEW a
  PROVE  /\ Without(q, a) \in Seq(Entries)
         /\ Elements(Without(q, a)) = {e \in Elements(q) : e.agent # a}
<1>1. {j \in DOMAIN q : q[j].agent # a} \subseteq DOMAIN q
  OBVIOUS
<1>2. /\ Without(q, a) \in Seq(Entries)
      /\ Elements(Without(q, a)) = {q[i] : i \in {j \in DOMAIN q : q[j].agent # a}}
  BY <1>1, Selected DEF Without
<1>3. {q[i] : i \in {j \in DOMAIN q : q[j].agent # a}} = {e \in Elements(q) : e.agent # a}
  BY DEF Elements
<1> QED BY <1>2, <1>3

LEMMA OpenEntries ==
  ASSUME NEW o \in Orgs, queue \in [Orgs -> Seq(Entries)]
  PROVE  /\ Open(o) \in Seq(Entries)
         /\ Elements(Open(o)) = {e \in Elements(queue[o]) : e.task # "gone"}
         /\ Open(o) # <<>> => queue[o] # <<>>
<1> DEFINE P == {j \in DOMAIN queue[o] : queue[o][j].task # "gone"}
<1>1. P \subseteq DOMAIN queue[o] /\ queue[o] \in Seq(Entries)
  OBVIOUS
<1>2. /\ Open(o) \in Seq(Entries)
      /\ Elements(Open(o)) = {queue[o][j] : j \in P}
      /\ Open(o) = <<>> <=> P = {}
  <2> HIDE DEF P
  <2>1. Open(o) = Select(queue[o], P)
    BY DEF Open, P
  <2> QED BY <1>1, <2>1, Selected
<1>3. {queue[o][j] : j \in P} = {e \in Elements(queue[o]) : e.task # "gone"}
  BY DEF Elements
<1>4. P # {} => queue[o] # <<>>
  BY <1>1
<1> QED BY <1>2, <1>3, <1>4

LEMMA NonEmpty ==
  ASSUME NEW S, NEW s \in Seq(S)
  PROVE  s # <<>> <=> Elements(s) # {}
<1>1. DOMAIN s = 1..Len(s) /\ Len(s) \in Nat /\ (s = <<>> <=> Len(s) = 0)
  OBVIOUS
<1>2. Elements(s) # {} <=> DOMAIN s # {}
  BY DEF Elements
<1> QED BY <1>1, <1>2

LEMMA ConcatOf ==
  ASSUME NEW S, NEW s \in Seq(S), NEW t \in Seq(S)
  PROVE  /\ s \o t \in Seq(S)
         /\ Elements(s \o t) = Elements(s) \cup Elements(t)
<1> DEFINE st == s \o t
<1>1. st \in Seq(S) /\ Len(st) = Len(s) + Len(t) /\ Len(s) \in Nat /\ Len(t) \in Nat
  OBVIOUS
<1>2. \A k \in 1..Len(s) : st[k] = s[k]
  OBVIOUS
<1>3. \A k \in 1..Len(t) : st[Len(s) + k] = t[k]
  OBVIOUS
<1>4. DOMAIN s = 1..Len(s) /\ DOMAIN t = 1..Len(t)
  OBVIOUS
<1> HIDE DEF st
<1>5. DOMAIN st = 1..(Len(s) + Len(t))
  BY <1>1
<1>6. \A k \in 1..Len(s) : k \in DOMAIN st
  BY <1>1, <1>5
<1>7. \A k \in 1..Len(t) : Len(s) + k \in DOMAIN st
  BY <1>1, <1>5
<1>8. \A k \in DOMAIN st : k \in 1..Len(s) \/ (k - Len(s) \in 1..Len(t) /\ Len(s) + (k - Len(s)) = k)
  BY <1>1, <1>5
<1>9. Elements(st) = Elements(s) \cup Elements(t)
  <2>1. ASSUME NEW k \in DOMAIN st PROVE st[k] \in Elements(s) \cup Elements(t)
    <3>1. CASE k \in 1..Len(s)
      BY <1>2, <1>4, <3>1 DEF Elements
    <3>2. CASE k - Len(s) \in 1..Len(t) /\ Len(s) + (k - Len(s)) = k
      <4>1. st[k] = t[k - Len(s)]
        BY <1>3, <3>2
      <4> QED BY <1>4, <3>2, <4>1 DEF Elements
    <3> QED BY <1>8, <3>1, <3>2
  <2>2. \A k \in DOMAIN s : s[k] \in Elements(st)
    BY <1>2, <1>4, <1>6 DEF Elements
  <2>3. \A k \in DOMAIN t : t[k] \in Elements(st)
    BY <1>3, <1>4, <1>7 DEF Elements
  <2> QED BY <2>1, <2>2, <2>3 DEF Elements
<1> QED BY <1>1, <1>9 DEF st

LEMMA RotatedOrgs ==
  ASSUME rotation \in Seq(Orgs), NEW n \in 0..Len(rotation), NEW q
  PROVE  /\ Rotated(n, q) \in Seq(Orgs)
         /\ \A m \in DOMAIN rotation : m > n \/ q[rotation[m]] # <<>>
              => rotation[m] \in Elements(Rotated(n, q))
<1> DEFINE L == Len(rotation)
           kept == SubSeq(rotation, n + 1, L)
           P == {m \in 1..n : q[rotation[m]] # <<>>}
           back == Select(rotation, P)
<1>1. L \in Nat /\ DOMAIN rotation = 1..L /\ P \subseteq DOMAIN rotation
  OBVIOUS
<1>2. back \in Seq(Orgs) /\ Elements(back) = {rotation[m] : m \in P}
  <2> HIDE DEF P
  <2> QED BY <1>1, Selected
<1>3. /\ kept \in Seq(Orgs) /\ Len(kept) = L - n
      /\ \A k \in 1..(L - n) : kept[k] = rotation[k + n]
  OBVIOUS
<1>4. Rotated(n, q) = kept \o back
  BY DEF Rotated
<1> HIDE DEF kept, back
<1>5. /\ kept \o back \in Seq(Orgs)
      /\ Elements(kept \o back) = Elements(kept) \cup Elements(back)
  BY <1>2, <1>3, ConcatOf
<1>6. ASSUME NEW m \in DOMAIN rotation, m > n
      PROVE  rotation[m] \in Elements(kept)
  <2>1. m - n \in 1..(L - n) /\ kept[m - n] = rotation[m]
    BY <1>1, <1>3, <1>6
  <2>2. m - n \in DOMAIN kept
    BY <1>3, <2>1
  <2> QED BY <2>1, <2>2 DEF Elements
<1>7. ASSUME NEW m \in DOMAIN rotation, ~(m > n), q[rotation[m]] # <<>>
      PROVE  rotation[m] \in Elements(back)
  BY <1>1, <1>2, <1>7
<1> QED BY <1>4, <1>5, <1>6, <1>7

\* the types of what the task and the actors keep
QueueTypes ==
  /\ phase \in [Agents -> {"idle", "waiting", "turn", "stopped"}]
  /\ queue \in [Orgs -> Seq(Entries)]
  /\ rotation \in Seq(Orgs)
  /\ pc \in {"recv", "grant"}

\* an org with turns that wait has its place in the rotation
InRotation == \A o \in Orgs : queue[o] # <<>> => o \in Elements(rotation)

QInv == SInv /\ QueueTypes /\ InRotation

\* the first message of the inbox
LEMMA HeadMessage ==
  ASSUME CountTypes, chan # <<>>
  PROVE  /\ Head(chan) = chan[1] /\ 1 \in DOMAIN chan /\ chan[1] \in Messages
         /\ Head(chan)[1] = "want" => Head(chan)[2] \in Entries
         /\ Head(chan)[1] = "cancel" => Head(chan)[2] \in Agents /\ Head(chan) = <<"cancel", Head(chan)[2]>>
<1>1. Head(chan) = chan[1] /\ 1 \in DOMAIN chan /\ chan[1] \in Messages
  BY DEF CountTypes
<1> QED BY <1>1 DEF Messages

LEMMA SameQueues ==
  ASSUME QueueTypes, InRotation, UNCHANGED <<queue, rotation>>,
         phase' \in [Agents -> {"idle", "waiting", "turn", "stopped"}], pc' \in {"recv", "grant"}
  PROVE  QueueTypes' /\ InRotation'
BY DEF QueueTypes, InRotation, Elements

LEMMA MarkedStep ==
  ASSUME QueueTypes, InRotation, NEW a, NEW task \in {"free", "gone"},
         queue' = MarkedQueue(a, task), UNCHANGED <<rotation, pc>>,
         phase' \in [Agents -> {"idle", "waiting", "turn", "stopped"}]
  PROVE  QueueTypes' /\ InRotation'
<1>1. \A o \in Orgs : queue'[o] \in Seq(Entries) /\ Len(queue'[o]) = Len(queue[o])
  BY MarkedQueues DEF QueueTypes
<1>2. queue' \in [Orgs -> Seq(Entries)]
  BY <1>1 DEF MarkedQueue
<1>3. \A o \in Orgs : queue'[o] # <<>> => queue[o] # <<>>
  BY <1>1 DEF QueueTypes
<1> QED BY <1>2, <1>3 DEF QueueTypes, InRotation, Elements

LEMMA WantStep ==
  ASSUME CountTypes, QueueTypes, InRotation, RecvWant
  PROVE  QueueTypes' /\ InRotation'
<1> DEFINE e == Head(chan)[2]
           o == OrgOf[e.agent]
<1>1. /\ chan # <<>> /\ Head(chan)[1] = "want" /\ pc' = "grant" /\ phase' = phase
      /\ queue' = [queue EXCEPT ![o] = Append(Without(@, e.agent), e)]
      /\ rotation' = IF o \in Elements(rotation) THEN rotation ELSE Append(rotation, o)
  BY DEF RecvWant, Received
<1>2. e \in Entries /\ o \in Orgs
  BY <1>1, HeadMessage, OrgAssumption DEF Entries
<1> HIDE DEF e, o
<1>3. Append(Without(queue[o], e.agent), e) \in Seq(Entries)
  BY <1>2, WithoutAgent DEF QueueTypes
<1>4. queue' \in [Orgs -> Seq(Entries)] /\ \A p \in Orgs \ {o} : queue'[p] = queue[p]
  BY <1>1, <1>2, <1>3 DEF QueueTypes
<1>5. /\ rotation' \in Seq(Orgs) /\ o \in Elements(rotation')
      /\ Elements(rotation) \subseteq Elements(rotation')
  <2>1. CASE o \in Elements(rotation)
    BY <1>1, <2>1 DEF QueueTypes
  <2>2. CASE o \notin Elements(rotation)
    <3>1. rotation' = Append(rotation, o)
      BY <1>1, <2>2
    <3>2. /\ rotation' \in Seq(Orgs) /\ rotation'[Len(rotation) + 1] = o
          /\ \A j \in 1..Len(rotation) : rotation'[j] = rotation[j]
          /\ Len(rotation') = Len(rotation) + 1 /\ Len(rotation) \in Nat
      BY <1>2, <3>1 DEF QueueTypes
    <3>3. DOMAIN rotation = 1..Len(rotation) /\ DOMAIN rotation' = 1..(Len(rotation) + 1)
      BY <3>2 DEF QueueTypes
    <3> QED BY <3>2, <3>3 DEF Elements
  <2> QED BY <2>1, <2>2
<1> QED BY <1>1, <1>4, <1>5 DEF QueueTypes, InRotation

LEMMA CancelStep ==
  ASSUME CountTypes, QueueTypes, InRotation, RecvCancel
  PROVE  QueueTypes' /\ InRotation'
<1> DEFINE a == Head(chan)[2]
<1>1. /\ pc' = "grant" /\ phase' = phase /\ rotation' = rotation
      /\ queue' = [o \in Orgs |-> Without(queue[o], a)]
  BY DEF RecvCancel, Received
<1> HIDE DEF a
<1>2. \A o \in Orgs : /\ Without(queue[o], a) \in Seq(Entries) /\ queue[o] \in Seq(Entries)
                      /\ Elements(Without(queue[o], a)) \subseteq Elements(queue[o])
  BY WithoutAgent DEF QueueTypes
<1>3. queue' \in [Orgs -> Seq(Entries)]
  BY <1>1, <1>2
<1>4. \A o \in Orgs : queue'[o] # <<>> => queue[o] # <<>>
  BY <1>1, <1>2, NonEmpty
<1> QED BY <1>1, <1>3, <1>4 DEF QueueTypes, InRotation, Elements

LEMMA LookedAt ==
  ASSUME QueueTypes, InRotation, NEW n \in 0..Len(rotation), queue' \in [Orgs -> Seq(Entries)],
         rotation' = Rotated(n, queue'), phase' = phase, pc' \in {"recv", "grant"},
         \A o \in Orgs : queue'[o] # <<>> => queue[o] # <<>>
  PROVE  QueueTypes' /\ InRotation'
<1>1. /\ rotation' \in Seq(Orgs)
      /\ \A m \in DOMAIN rotation : queue'[rotation[m]] # <<>> => rotation[m] \in Elements(rotation')
  BY RotatedOrgs DEF QueueTypes
<1>2. ASSUME NEW o \in Orgs, queue'[o] # <<>>
      PROVE  o \in Elements(rotation')
  <2>1. PICK m \in DOMAIN rotation : rotation[m] = o
    BY <1>2 DEF InRotation, Elements
  <2> QED BY <1>1, <1>2, <2>1
<1> QED BY <1>1, <1>2 DEF QueueTypes, InRotation

LEMMA GrantQueues ==
  ASSUME QueueTypes, InRotation, Grant
  PROVE  QueueTypes' /\ InRotation'
<1>1. PICK n \in DOMAIN rotation, e \in Entries, i \in InState({"free"}) :
        /\ queue' = [p \in Orgs |-> IF p = rotation[n] THEN Without(Open(rotation[n]), e.agent)
                                    ELSE IF p \in {rotation[m] : m \in 1..n} THEN Open(p) ELSE queue[p]]
        /\ rotation' = Rotated(n, queue')
  BY Zenon DEF Grant
<1>2. phase' = phase /\ pc' = "grant"
  BY Zenon DEF Grant
<1>3. n \in 0..Len(rotation)
  BY DEF QueueTypes
<1>4. \A p \in Orgs : /\ Open(p) \in Seq(Entries) /\ (Open(p) # <<>> => queue[p] # <<>>)
                      /\ Without(Open(p), e.agent) \in Seq(Entries)
                      /\ Elements(Without(Open(p), e.agent)) \subseteq Elements(Open(p))
  BY OpenEntries, WithoutAgent DEF QueueTypes
<1>5. \A p \in Orgs : Without(Open(p), e.agent) # <<>> => Open(p) # <<>>
  BY <1>4, NonEmpty
<1>6. queue' \in [Orgs -> Seq(Entries)]
  BY <1>1, <1>4 DEF QueueTypes
<1>7. \A p \in Orgs : queue'[p] # <<>> => queue[p] # <<>>
  BY <1>1, <1>4, <1>5
<1> QED BY <1>1, <1>2, <1>3, <1>6, <1>7, LookedAt

LEMMA GrantDoneQueues ==
  ASSUME QueueTypes, InRotation, GrantDone
  PROVE  QueueTypes' /\ InRotation'
<1>1. CASE UNCHANGED <<queue, rotation>>
  BY <1>1, SameQueues DEF GrantDone, QueueTypes
<1>2. CASE /\ queue' = [o \in Orgs |-> IF o \in Elements(rotation) THEN Open(o) ELSE queue[o]]
           /\ rotation' = Rotated(Len(rotation), queue')
  <2>1. \A p \in Orgs : Open(p) \in Seq(Entries) /\ (Open(p) # <<>> => queue[p] # <<>>)
    BY OpenEntries DEF QueueTypes
  <2>2. queue' \in [Orgs -> Seq(Entries)] /\ \A p \in Orgs : queue'[p] # <<>> => queue[p] # <<>>
    BY <1>2, <2>1 DEF QueueTypes
  <2>3. Len(rotation) \in 0..Len(rotation) /\ phase' = phase /\ pc' = "recv"
    BY DEF QueueTypes, GrantDone
  <2> QED BY <1>2, <2>2, <2>3, LookedAt
<1> QED BY <1>1, <1>2 DEF GrantDone

LEMMA QueueStep ==
  ASSUME CountTypes, QueueTypes, InRotation, [Next]_vars
  PROVE  QueueTypes' /\ InRotation'
<1>1. ASSUME NEW a \in Agents, NEW to \in {"idle", "stopped"}, Leave(a, to)
      PROVE  QueueTypes' /\ InRotation'
  <2>1. phase' \in [Agents -> {"idle", "waiting", "turn", "stopped"}]
    BY <1>1 DEF Leave, QueueTypes
  <2> QED BY <1>1, <2>1, MarkedStep DEF Leave
<1>2. ASSUME NEW i \in Slots, OnSlot(i) \/ GiveUp(i)
      PROVE  QueueTypes' /\ InRotation'
  <2>1. phase' \in [Agents -> {"idle", "waiting", "turn", "stopped"}]
    BY <1>2 DEF OnSlot, GiveUp, QueueTypes
  <2> QED BY <1>2, <2>1, MarkedStep DEF OnSlot, GiveUp, Forgotten
<1>3. ASSUME NEW a \in Agents, Wake(a) \/ EndTurn(a)
      PROVE  QueueTypes' /\ InRotation'
  <2>1. phase' \in [Agents -> {"idle", "waiting", "turn", "stopped"}]
    BY <1>3 DEF Wake, EndTurn, QueueTypes
  <2> QED BY <1>3, <2>1, SameQueues DEF Wake, EndTurn, QueueTypes
<1>4. ASSUME \/ RecvReleased \/ RecvLimit \/ UNCHANGED vars
             \/ \E i \in Slots : Post(i) \/ DropAborted(i) \/ Loaded(i, "mailed") \/ Loaded(i, "failed")
             \/ \E a \in Agents, k \in Lanes : SwitchModel(a, k)
             \/ \E n \in 1..MaxLimit : SetLimit(n)
      PROVE  QueueTypes' /\ InRotation'
  <2>1. UNCHANGED <<queue, rotation, phase>> /\ pc' \in {"recv", "grant"}
    BY <1>4 DEF RecvReleased, RecvLimit, Received, vars, Post, DropAborted, Loaded, SwitchModel,
                SetLimit, QueueTypes
  <2> QED BY <2>1, SameQueues DEF QueueTypes
<1> QED
  BY <1>1, <1>2, <1>3, <1>4, WantStep, CancelStep, GrantQueues, GrantDoneQueues DEF Next, Task

LEMMA QInvInit == Init => QInv
<1>1. Init => QueueTypes /\ InRotation
  BY DEF Init, QueueTypes, InRotation
<1> QED BY <1>1, CountInit DEF QInv

LEMMA QInvStep == QInv /\ [Next]_vars => QInv'
<1>1. QInv /\ [Next]_vars => SInv'
  BY CountStep DEF QInv
<1>2. QInv /\ [Next]_vars => QueueTypes' /\ InRotation'
  BY QueueStep DEF QInv, SInv
<1> QED BY <1>1, <1>2 DEF QInv

LEMMA QueueInvariant == Spec => []QInv
BY QInvInit, QInvStep, PTL DEF Spec

(* Every variable of the scheduler keeps its type; the counts of turns alive  *)
(* and of a lane's turns, lowered by drops and releases, never go below zero. *)
THEOREM TypesHold == Spec => []TypeOK
<1>1. QInv => TypeOK
  <2> SUFFICES ASSUME QInv PROVE TypeOK
    OBVIOUS
  <2>1. held \in Nat
    BY SlotSets DEF QInv, SInv, HeldCounts
  <2>2. lanes \in [Servers -> Nat]
    <3>1. \A k \in Servers : lanes[k] \in Nat
      BY SlotSets DEF QInv, SInv, LanesCount, OnUsed
    <3> QED BY <3>1 DEF QInv, SInv, CountTypes
  <2> QED BY <2>1, <2>2 DEF QInv, SInv, CountTypes, QueueTypes, TypeOK, SlotRecords
<1> QED BY <1>1, QueueInvariant, PTL

(* Work conservation. *)

\* the task has nothing to read, none is about to be posted, and a slot is left
Rested == pc = "recv" /\ chan = <<>> /\ InState({"dropping", "dropped"}) = {} /\ held < limit

\* nothing new waits: every entry that may be granted stood in its queue before
NothingNew ==
  \A o \in Orgs : \A e \in Elements(queue'[o]) : e.task # "gone" =>
    \E d \in Elements(queue[o]) : d.task # "gone" /\ d.lane = e.lane

LEMMA OpenNext ==
  ASSUME NEW o \in Orgs, QueueTypes'
  PROVE  Elements(Open(o))' = {e \in Elements(queue'[o]) : e.task # "gone"}
<1> DEFINE q == queue'[o]
           P == {j \in DOMAIN q : q[j].task # "gone"}
<1>1. q \in Seq(Entries) /\ P \in SUBSET DOMAIN q
  BY DEF QueueTypes
<1>2. Open(o)' = Select(q, P)
  BY DEF Open, Select
<1>3. Elements(Select(q, P)) = {q[i] : i \in P}
  <2> HIDE DEF q, P
  <2> QED BY <1>1, Selected
<1>4. {q[i] : i \in P} = {e \in Elements(q) : e.task # "gone"}
  BY DEF Elements
<1>5. Elements(Open(o))' = Elements(Select(q, P))
  BY <1>2 DEF Elements
<1> QED BY <1>3, <1>4, <1>5

LEMMA StillBlocked ==
  ASSUME QueueTypes, QueueTypes', NothingNew, lanes' = lanes,
         \A o \in Orgs : Blocked(o)
  PROVE  \A o \in Orgs : Blocked(o)'
<1>1. SUFFICES ASSUME NEW o \in Orgs, NEW e \in Elements(Open(o))'
               PROVE  Fits(e)' = FALSE
  BY DEF Blocked
<1>2. e \in Elements(queue'[o]) /\ e.task # "gone"
  BY <1>1, OpenNext
<1>3. PICK d \in Elements(queue[o]) : d.task # "gone" /\ d.lane = e.lane
  BY <1>2 DEF NothingNew
<1>4. d \in Elements(Open(o))
  BY <1>3, OpenEntries DEF QueueTypes
<1>5. ~Fits(d)
  BY <1>4 DEF Blocked
<1> QED BY <1>3, <1>5 DEF Fits

LEMMA MarkedNotNew ==
  ASSUME QueueTypes, NEW a, NEW task \in {"free", "gone"}, queue' = MarkedQueue(a, task)
  PROVE  NothingNew
<1>1. SUFFICES ASSUME NEW o \in Orgs, NEW e \in Elements(queue'[o]), e.task # "gone"
               PROVE  \E d \in Elements(queue[o]) : d.task # "gone" /\ d.lane = e.lane
  BY DEF NothingNew
<1>2. PICK j \in DOMAIN queue[o] : e = Marked(queue[o][j], a, task)
  BY <1>1 DEF Elements, MarkedQueue
<1>3. queue[o][j] \in Entries
  BY <1>2 DEF QueueTypes
<1>4. queue[o][j].task # "gone" /\ queue[o][j].lane = e.lane
  BY <1>1, <1>2, <1>3, MarkedEntries
<1> QED BY <1>4 DEF Elements

LEMMA SameNotNew ==
  ASSUME queue' = queue
  PROVE  NothingNew
BY DEF NothingNew

\* a step that leaves the task at rest and does not come from rest is none
LEMMA RestedBefore ==
  ASSUME CountTypes, QueueTypes, [Next]_vars, Rested', ~GrantDone
  PROVE  Rested /\ NothingNew /\ lanes' = lanes
<1> USE DEF CountTypes
<1>1. pc' = "recv" /\ chan' = <<>> /\ held' < limit' /\ \A i \in Slots : slot'[i].st \notin {"dropping", "dropped"}
  BY DEF Rested, InState
<1>2. ASSUME NEW a, NEW S \in SUBSET Slots, NEW load \in {"loose", "aborted", "loading"}, Dropping(a, S, load)
      PROVE  S = {} /\ held' = held /\ InState({"dropping", "dropped"}) = {}
  <2>1. \A i \in S : slot'[i] = [slot[i] EXCEPT !.st = "dropping"]
    BY <1>2 DEF Dropping
  <2>2. \A i \in S : slot'[i].st = "dropping"
    BY <2>1 DEF SlotRecords
  <2>3. S = {}
    BY <1>1, <2>2
  <2>4. \A i \in Slots : slot[i].st \in {"dropping", "dropped"} => slot'[i] = slot[i]
    BY <1>2, <2>3 DEF Dropping, Loading, InState
  <2>5. held' = held
    BY <1>2, <2>3, FS_EmptySet DEF Dropping
  <2> QED BY <1>1, <2>3, <2>4, <2>5 DEF InState
<1>3. ASSUME NEW a, NEW task \in {"free", "gone"}, chan' = MarkedChan(a, task)
      PROVE  chan = <<>>
  BY <1>1, <1>3, MarkedMessages
<1>4. \A m : chan' # Append(chan, m)
  BY <1>1
<1>5. ASSUME NEW a \in Agents, NEW to, Leave(a, to)
      PROVE  Rested /\ NothingNew /\ lanes' = lanes
  <2>1. Holding(a) \in SUBSET Slots
    BY DEF Holding, InState
  <2>2. held' = held /\ InState({"dropping", "dropped"}) = {}
    BY <1>2, <1>5, <2>1 DEF Leave
  <2>3. chan' # Append(MarkedChan(a, "gone"), <<"cancel", a>>)
    <3>1. MarkedChan(a, "gone") \in Seq(Messages)
      BY MarkedMessages
    <3> QED BY <1>1, <3>1
  <2>4. chan = <<>>
    BY <1>3, <1>5, <2>3 DEF Leave
  <2>5. NothingNew
    BY <1>5, MarkedNotNew DEF Leave
  <2> QED BY <1>1, <1>5, <2>2, <2>4, <2>5 DEF Leave, Rested
<1>6. ASSUME NEW i \in Slots, GiveUp(i)
      PROVE  FALSE
  BY <1>2, <1>6, {i} \in SUBSET Slots DEF GiveUp
<1>7. ASSUME NEW a \in Agents, EndTurn(a)
      PROVE  Rested /\ NothingNew /\ lanes' = lanes
  <2>1. Holding(a) \in SUBSET Slots
    BY DEF Holding, InState
  <2>2. held' = held /\ InState({"dropping", "dropped"}) = {}
    BY <1>2, <1>7, <2>1 DEF EndTurn
  <2> QED BY <1>1, <1>7, <2>2, SameNotNew DEF EndTurn, Rested
<1>8. ASSUME NEW i \in Slots, OnSlot(i)
      PROVE  Rested /\ NothingNew /\ lanes' = lanes
  <2>1. \A j \in Slots : slot[j].st \in {"dropping", "dropped"} => slot'[j] = slot[j]
    BY <1>8 DEF OnSlot, Loading, InState
  <2>2. chan = <<>> /\ NothingNew
    BY <1>3, <1>8, MarkedNotNew DEF OnSlot, Forgotten
  <2> QED BY <1>1, <1>8, <2>1, <2>2 DEF OnSlot, Rested, InState
<1>9. ASSUME NEW i \in Slots, Post(i)
      PROVE  FALSE
  BY <1>4, <1>9 DEF Post
<1>10. ASSUME NEW i \in Slots, DropAborted(i)
       PROVE  FALSE
  BY <1>1, <1>10 DEF DropAborted, SlotRecords
<1>11. ASSUME NEW i \in Slots, NEW st \in {"mailed", "failed"}, Loaded(i, st)
       PROVE  Rested /\ NothingNew /\ lanes' = lanes
  <2>1. \A j \in Slots : slot[j].st \in {"dropping", "dropped"} => slot'[j] = slot[j]
    BY <1>11 DEF Loaded
  <2> QED BY <1>1, <1>11, <2>1, SameNotNew DEF Loaded, Rested, InState
<1>12. ASSUME NEW a \in Agents, Wake(a)
       PROVE  FALSE
  BY <1>4, <1>12 DEF Wake
<1>13. ASSUME NEW n \in 1..MaxLimit, SetLimit(n)
       PROVE  FALSE
  BY <1>4, <1>13 DEF SetLimit
<1>14. ASSUME \/ UNCHANGED vars
              \/ \E a \in Agents, k \in Lanes : SwitchModel(a, k)
       PROVE  Rested /\ NothingNew /\ lanes' = lanes
  <2>1. UNCHANGED <<limit, held, slot, queue, lanes, chan, pc>>
    BY <1>14 DEF SwitchModel, vars
  <2> QED BY <1>1, <2>1, SameNotNew DEF Rested, InState
<1>15. ASSUME RecvWant \/ RecvCancel \/ RecvReleased \/ RecvLimit
       PROVE  FALSE
  BY <1>1, <1>15 DEF RecvWant, RecvCancel, RecvReleased, RecvLimit, Received
<1>16. ASSUME Grant
       PROVE  FALSE
  <2>1. pc' = "grant"
    BY <1>16, Zenon DEF Grant
  <2> QED BY <1>1, <2>1
<1> HIDE DEF CountTypes
<1> QED
  BY <1>5, <1>6, <1>7, <1>8, <1>9, <1>10, <1>11, <1>12, <1>13, <1>14, <1>15, <1>16 DEF Next, Task

LEMMA PassEnds ==
  ASSUME QueueTypes, QueueTypes', InRotation, GrantDone, Rested'
  PROVE  \A o \in Orgs : Blocked(o)'
<1>1. /\ \A o \in Elements(rotation) : Blocked(o)
      /\ queue' = [o \in Orgs |-> IF o \in Elements(rotation) THEN Open(o) ELSE queue[o]]
      /\ lanes' = lanes
  BY DEF GrantDone, Room, Rested
<1>2. SUFFICES ASSUME NEW o \in Orgs, NEW e \in Elements(Open(o))'
               PROVE  Fits(e)' = FALSE
  BY DEF Blocked
<1>3. e \in Elements(queue'[o])
  BY <1>2, OpenNext
<1>4. CASE o \in Elements(rotation)
  <2>1. e \in Elements(Open(o)) /\ Blocked(o)
    BY <1>1, <1>3, <1>4
  <2> QED BY <1>1, <2>1 DEF Blocked, Fits
<1>5. CASE o \notin Elements(rotation)
  <2>1. queue'[o] = <<>>
    BY <1>1, <1>5 DEF InRotation
  <2> QED BY <1>3, <2>1 DEF Elements
<1> QED BY <1>4, <1>5

LEMMA RestIsEarned ==
  ASSUME QInv, NoIdleSlot, [Next]_vars
  PROVE  NoIdleSlot'
<1>1. QueueTypes' /\ CountTypes /\ QueueTypes /\ InRotation
  BY QueueStep DEF QInv, SInv
<1>2. SUFFICES ASSUME Rested'
               PROVE  \A o \in Orgs : Blocked(o)'
  BY DEF NoIdleSlot, Rested
<1>3. CASE GrantDone
  BY <1>1, <1>2, <1>3, PassEnds
<1>4. CASE ~GrantDone
  <2>1. Rested /\ NothingNew /\ lanes' = lanes
    BY <1>1, <1>2, <1>4, RestedBefore
  <2>2. \A o \in Orgs : Blocked(o)
    BY <2>1 DEF NoIdleSlot, Rested
  <2> QED BY <1>1, <2>1, <2>2, StillBlocked
<1> QED BY <1>3, <1>4

(* Work conservation: whenever the task has nothing left to read and no       *)
(* release is about to be posted, no turn waits that could start. Every change *)
(* that makes room, a drop, a release read, a larger limit, wakes the task.   *)
THEOREM NoSlotIdles == Spec => []NoIdleSlot
<1>1. Init => NoIdleSlot
  <2> SUFFICES ASSUME Init PROVE NoIdleSlot
    OBVIOUS
  <2>1. \A o \in Orgs : queue[o] = <<>> /\ Elements(queue[o]) = {}
    BY DEF Init, Elements
  <2>2. queue \in [Orgs -> Seq(Entries)]
    BY DEF Init
  <2>3. \A o \in Orgs : Elements(Open(o)) = {}
    BY <2>1, <2>2, OpenEntries
  <2> QED BY <2>3 DEF NoIdleSlot, Blocked
<1>2. QInv /\ NoIdleSlot /\ [Next]_vars => NoIdleSlot'
  BY RestIsEarned
<1> QED BY <1>1, <1>2, QueueInvariant, PTL DEF Spec

(* The wants of those who wait. *)

\* a message that decides what becomes of a's wants
About(m, a) == (m[1] = "want" /\ m[2].agent = a) \/ m = <<"cancel", a>>

Live(e, a) == e.agent = a /\ e.task # "gone"

\* a's last message is a want that it has not taken back
Asked(a) == \E j \in DOMAIN chan :
              /\ chan[j][1] = "want" /\ Live(chan[j][2], a)
              /\ \A m \in DOMAIN chan : m > j => ~About(chan[m], a)

\* the task has read a's last message and keeps the want
Queued(a) == /\ \A j \in DOMAIN chan : ~About(chan[j], a)
             /\ \E e \in Elements(queue[OrgOf[a]]) : Live(e, a)

\* a slot was granted to a, and has yet to reach it
Granted(a) == \E i \in InState({"loading", "loose", "mailed", "failed"}) : slot[i].agent = a

\* Where the want of an agent that waits is: the last word of the agent counts.
WantLives == \A a \in Agents : phase[a] = "waiting" => Asked(a) \/ Queued(a) \/ Granted(a)

WInv == QInv /\ WantLives

\* the slots granted to b stay granted to it
GrantsStay(b) == \A i \in InState({"loading", "loose", "mailed", "failed"}) :
                   slot[i].agent = b => /\ slot'[i].st \in {"loading", "loose", "mailed", "failed"}
                                        /\ slot'[i].agent = b

\* the messages about b stay as they are, and so does what is live of them
TalkStays(b) ==
  /\ DOMAIN chan \subseteq DOMAIN chan'
  /\ \A j \in DOMAIN chan' : IF j \in DOMAIN chan
       THEN /\ About(chan'[j], b) => About(chan[j], b)
            /\ chan[j][1] = "want" /\ Live(chan[j][2], b)
                 => chan'[j][1] = "want" /\ Live(chan'[j][2], b)
       ELSE ~About(chan'[j], b)

QueuedStays(b) == (\E e \in Elements(queue[OrgOf[b]]) : Live(e, b))
                    => \E e \in Elements(queue'[OrgOf[b]]) : Live(e, b)

LEMMA WantStays ==
  ASSUME NEW b, Asked(b) \/ Queued(b) \/ Granted(b), GrantsStay(b), TalkStays(b), QueuedStays(b)
  PROVE  Asked(b)' \/ Queued(b)' \/ Granted(b)'
<1>1. CASE Asked(b)
  <2>1. PICK j \in DOMAIN chan : /\ chan[j][1] = "want" /\ Live(chan[j][2], b)
                                 /\ \A m \in DOMAIN chan : m > j => ~About(chan[m], b)
    BY <1>1 DEF Asked
  <2>2. j \in DOMAIN chan' /\ chan'[j][1] = "want" /\ Live(chan'[j][2], b)
    BY <2>1 DEF TalkStays
  <2>3. \A m \in DOMAIN chan' : m > j => ~About(chan'[m], b)
    BY <2>1 DEF TalkStays
  <2>4. Asked(b)'
    BY <2>2, <2>3 DEF Asked, About, Live
  <2> QED BY <2>4
<1>2. CASE Queued(b)
  <2>1. \A j \in DOMAIN chan' : ~About(chan'[j], b)
    BY <1>2 DEF Queued, TalkStays
  <2>2. \E e \in Elements(queue'[OrgOf[b]]) : Live(e, b)
    BY <1>2 DEF Queued, QueuedStays
  <2>3. Queued(b)'
    BY <2>1, <2>2 DEF Queued, About, Live, Elements
  <2> QED BY <2>3
<1>3. CASE Granted(b)
  <2>1. Granted(b)'
    BY <1>3 DEF Granted, GrantsStay, InState
  <2> QED BY <2>1
<1> QED BY <1>1, <1>2, <1>3

LEMMA SameTalk ==
  ASSUME NEW b, chan' = chan
  PROVE  TalkStays(b)
BY DEF TalkStays

LEMMA SameQueued ==
  ASSUME NEW b, queue' = queue
  PROVE  QueuedStays(b)
BY DEF QueuedStays, Elements

LEMMA AppendTalk ==
  ASSUME NEW b, NEW m, chan' = Append(chan, m), CountTypes, ~About(m, b)
  PROVE  TalkStays(b)
<1>1. /\ Len(chan) \in Nat /\ DOMAIN chan = 1..Len(chan) /\ DOMAIN chan' = 1..(Len(chan) + 1)
      /\ \A j \in 1..Len(chan) : chan'[j] = chan[j]
      /\ chan'[Len(chan) + 1] = m
  BY DEF CountTypes
<1>2. \A j \in DOMAIN chan' : IF j \in DOMAIN chan THEN chan'[j] = chan[j] ELSE chan'[j] = m
  BY <1>1
<1>3. DOMAIN chan \subseteq DOMAIN chan'
  BY <1>1
<1> QED BY <1>2, <1>3 DEF TalkStays

LEMMA MarkedTalk ==
  ASSUME CountTypes, NEW a, NEW b, b # a, NEW task \in {"free", "gone"},
         \/ chan' = MarkedChan(a, task)
         \/ chan' = Append(MarkedChan(a, task), <<"cancel", a>>)
  PROVE  TalkStays(b)
<1> DEFINE mc == MarkedChan(a, task)
<1>1. DOMAIN mc = DOMAIN chan /\ \A j \in DOMAIN chan : chan[j] \in Messages
  BY DEF MarkedChan, CountTypes
<1>2. ASSUME NEW j \in DOMAIN chan
      PROVE  /\ About(mc[j], b) => About(chan[j], b)
             /\ chan[j][1] = "want" /\ Live(chan[j][2], b) => mc[j][1] = "want" /\ Live(mc[j][2], b)
  <2>1. CASE chan[j][1] = "want"
    <3>1. chan[j][2] \in Entries /\ mc[j] = <<"want", Marked(chan[j][2], a, task)>>
      BY <1>1, <2>1 DEF Messages, MarkedChan
    <3>2. /\ Marked(chan[j][2], a, task).agent = chan[j][2].agent
          /\ chan[j][2].agent = b /\ chan[j][2].task # "gone" => Marked(chan[j][2], a, task).task # "gone"
      BY <3>1, MarkedEntries
    <3>3. mc[j][1] = "want" /\ mc[j][2] = Marked(chan[j][2], a, task) /\ mc[j] # <<"cancel", b>>
      BY <3>1
    <3> HIDE DEF mc
    <3> QED BY <2>1, <3>2, <3>3 DEF About, Live
  <2>2. CASE chan[j][1] # "want"
    BY <2>2 DEF MarkedChan
  <2> QED BY <2>1, <2>2
<1>3. CASE chan' = mc
  BY <1>1, <1>2, <1>3 DEF TalkStays
<1>4. CASE chan' = Append(mc, <<"cancel", a>>)
  <2>1. mc \in Seq(Messages) /\ Len(mc) = Len(chan) /\ Len(chan) \in Nat /\ DOMAIN chan = 1..Len(chan)
    BY MarkedMessages DEF CountTypes
  <2> HIDE DEF mc
  <2>2. /\ DOMAIN chan' = 1..(Len(chan) + 1)
        /\ \A j \in 1..Len(chan) : chan'[j] = mc[j]
        /\ chan'[Len(chan) + 1] = <<"cancel", a>>
    BY <1>4, <2>1
  <2>3. ~About(<<"cancel", a>>, b)
    BY DEF About
  <2>4. \A j \in DOMAIN chan' : IF j \in DOMAIN chan THEN chan'[j] = mc[j] ELSE chan'[j] = <<"cancel", a>>
    BY <2>1, <2>2
  <2>5. DOMAIN chan \subseteq DOMAIN chan'
    BY <2>1, <2>2
  <2> QED BY <1>2, <2>3, <2>4, <2>5 DEF TalkStays
<1> QED BY <1>3, <1>4

LEMMA MarkedStays ==
  ASSUME QueueTypes, NEW a, NEW b \in Agents, b # a, NEW task \in {"free", "gone"}, queue' = MarkedQueue(a, task)
  PROVE  QueuedStays(b)
<1>1. SUFFICES ASSUME NEW e \in Elements(queue[OrgOf[b]]), Live(e, b)
               PROVE  \E d \in Elements(queue'[OrgOf[b]]) : Live(d, b)
  BY DEF QueuedStays
<1> DEFINE o == OrgOf[b]
<1>2. o \in Orgs
  BY OrgAssumption
<1> HIDE DEF o
<1>3. PICK j \in DOMAIN queue[o] : e = queue[o][j]
  BY <1>1 DEF Elements, o
<1>4. e \in Entries /\ j \in DOMAIN queue'[o] /\ queue'[o][j] = Marked(e, a, task)
  BY <1>2, <1>3 DEF QueueTypes, MarkedQueue
<1>5. Live(Marked(e, a, task), b)
  BY <1>1, <1>4, MarkedEntries DEF Live
<1> QED BY <1>4, <1>5 DEF Elements, o

LEMMA DroppingStays ==
  ASSUME CountTypes, NEW a, NEW b, b # a, NEW S \in SUBSET Slots, \A i \in S : slot[i].agent = a,
         NEW load, Dropping(a, S, load)
  PROVE  GrantsStay(b)
BY DEF GrantsStay, Dropping, Loading, InState

LEMMA SlotMovedStays ==
  ASSUME CountTypes, NEW b, NEW i \in Slots, NEW st, slot' = [slot EXCEPT ![i].st = st],
         slot[i].st \in {"loading", "loose", "mailed", "failed"}
            => slot[i].agent # b \/ st \in {"loading", "loose", "mailed", "failed"}
  PROVE  GrantsStay(b)
<1>1. slot'[i] = [slot[i] EXCEPT !.st = st] /\ \A j \in Slots \ {i} : slot'[j] = slot[j]
  BY DEF CountTypes
<1>2. slot'[i].st = st /\ slot'[i].agent = slot[i].agent
  BY <1>1 DEF CountTypes, SlotRecords
<1> QED BY <1>1, <1>2 DEF GrantsStay, InState

LEMMA SameGrants ==
  ASSUME NEW b, slot' = slot
  PROVE  GrantsStay(b)
BY DEF GrantsStay, InState

\* the task reads a message: what is behind it stays
LEMMA ReadTalk ==
  ASSUME CountTypes, Received, NEW b, Asked(b) \/ Queued(b) \/ Granted(b), GrantsStay(b)
  PROVE  \/ Asked(b)' \/ Granted(b)'
         \/ /\ \A j \in DOMAIN chan' : ~About(chan'[j], b)
            /\ \/ ~About(Head(chan), b) /\ \E e \in Elements(queue[OrgOf[b]]) : Live(e, b)
               \/ Head(chan)[1] = "want" /\ Live(Head(chan)[2], b)
<1>1. /\ chan # <<>> /\ chan' = Tail(chan) /\ Head(chan) = chan[1] /\ 1 \in DOMAIN chan
  BY HeadMessage DEF Received
<1>2. \A j \in DOMAIN chan' : j + 1 \in DOMAIN chan /\ j + 1 # 1 /\ chan'[j] = chan[j + 1]
  BY <1>1, TailKept
<1>3. \A j \in DOMAIN chan : j # 1 => j - 1 \in DOMAIN chan' /\ chan'[j - 1] = chan[j]
  <2>1. Len(chan) \in Nat /\ DOMAIN chan = 1..Len(chan) /\ Len(chan) # 0
    BY <1>1 DEF CountTypes
  <2>2. DOMAIN chan' = 1..(Len(chan) - 1)
    BY <1>1, <2>1 DEF CountTypes
  <2>3. \A j \in DOMAIN chan : j # 1 => j - 1 \in DOMAIN chan'
    BY <2>1, <2>2
  <2>4. \A j \in DOMAIN chan : (j - 1) + 1 = j
    BY <2>1
  <2> QED BY <1>2, <2>3, <2>4
<1>4. CASE Granted(b)
  <2>1. Granted(b)'
    BY <1>4 DEF Granted, GrantsStay, InState
  <2> QED BY <2>1
<1>5. CASE Asked(b)
  <2>1. PICK j \in DOMAIN chan : /\ chan[j][1] = "want" /\ Live(chan[j][2], b)
                                 /\ \A m \in DOMAIN chan : m > j => ~About(chan[m], b)
    BY <1>5 DEF Asked
  <2>2. CASE j # 1
    <3>1. j - 1 \in DOMAIN chan' /\ chan'[j - 1] = chan[j]
      BY <1>3, <2>2
    <3>2. ASSUME NEW m \in DOMAIN chan', m > j - 1
          PROVE  ~About(chan'[m], b)
      <4>1. m + 1 > j
        <5>1. m \in Int /\ j \in Int
          BY DEF CountTypes, Received
        <5> QED BY <3>2, <5>1
      <4> QED BY <1>2, <2>1, <4>1
    <3>3. Asked(b)'
      BY <2>1, <3>1, <3>2 DEF Asked, About, Live
    <3> QED BY <3>3
  <2>3. CASE j = 1
    <3>1. ASSUME NEW m \in DOMAIN chan'
          PROVE  ~About(chan'[m], b)
      <4>1. m + 1 > 1
        BY <1>2 DEF CountTypes, Received
      <4> QED BY <1>2, <2>1, <2>3, <4>1
    <3> QED BY <1>1, <2>1, <2>3, <3>1
  <2> QED BY <2>2, <2>3
<1>6. CASE Queued(b)
  BY <1>1, <1>2, <1>6 DEF Queued
<1> QED BY <1>4, <1>5, <1>6

LEMMA QueuedNow ==
  ASSUME NEW b, \A j \in DOMAIN chan' : ~About(chan'[j], b),
         NEW e \in Elements(queue'[OrgOf[b]]), Live(e, b)
  PROVE  Queued(b)'
BY DEF Queued, About, Live, Elements

LEMMA ReadWant ==
  ASSUME QInv, RecvWant, NEW b \in Agents, Asked(b) \/ Queued(b) \/ Granted(b)
  PROVE  Asked(b)' \/ Queued(b)' \/ Granted(b)'
<1> DEFINE e == Head(chan)[2]
           o == OrgOf[e.agent]
           q == Without(queue[o], e.agent)
<1>1. /\ chan # <<>> /\ Head(chan)[1] = "want" /\ slot' = slot /\ Received
      /\ queue' = [queue EXCEPT ![o] = Append(q, e)]
  BY DEF RecvWant, Received
<1>2. CountTypes /\ QueueTypes
  BY DEF QInv, SInv
<1>3. e \in Entries /\ o \in Orgs /\ OrgOf[b] \in Orgs
  BY <1>1, <1>2, HeadMessage, OrgAssumption DEF Entries
<1>4. q \in Seq(Entries) /\ Elements(q) = {d \in Elements(queue[o]) : d.agent # e.agent}
  BY <1>2, <1>3, WithoutAgent DEF QueueTypes
<1>5. Head(chan) # <<"cancel", b>> /\ (About(Head(chan), b) <=> e.agent = b)
  BY <1>1 DEF About
<1> HIDE DEF e, o, q
<1>6. Elements(Append(q, e)) = Elements(q) \cup {e}
  <2>1. /\ Append(q, e) \in Seq(Entries) /\ Len(q) \in Nat /\ DOMAIN q = 1..Len(q)
        /\ DOMAIN Append(q, e) = 1..(Len(q) + 1)
        /\ \A j \in 1..Len(q) : Append(q, e)[j] = q[j]
        /\ Append(q, e)[Len(q) + 1] = e
    BY <1>3, <1>4
  <2>2. /\ \A j \in DOMAIN Append(q, e) : j \in DOMAIN q \/ j = Len(q) + 1
        /\ \A j \in DOMAIN q : j \in DOMAIN Append(q, e)
        /\ Len(q) + 1 \in DOMAIN Append(q, e)
    BY <2>1
  <2> QED BY <2>1, <2>2 DEF Elements
<1>7. queue'[o] = Append(q, e) /\ \A p \in Orgs \ {o} : queue'[p] = queue[p]
  BY <1>1, <1>2, <1>3 DEF QueueTypes
<1>8. GrantsStay(b)
  BY <1>1, SameGrants
<1>9. ASSUME \A j \in DOMAIN chan' : ~About(chan'[j], b), e.agent # b,
             NEW d \in Elements(queue[OrgOf[b]]), Live(d, b)
      PROVE  Queued(b)'
  <2>1. d \in Elements(queue'[OrgOf[b]])
    <3>1. CASE OrgOf[b] = o
      <4>1. d \in Elements(q)
        BY <1>4, <1>9, <3>1 DEF Live
      <4> QED BY <1>6, <1>7, <3>1, <4>1
    <3>2. CASE OrgOf[b] # o
      BY <1>3, <1>7, <1>9, <3>2
    <3> QED BY <3>1, <3>2
  <2> QED BY <1>9, <2>1, QueuedNow
<1>10. ASSUME \A j \in DOMAIN chan' : ~About(chan'[j], b), Live(e, b)
       PROVE  Queued(b)'
  <2>1. e \in Elements(queue'[OrgOf[b]])
    BY <1>6, <1>7, <1>10 DEF Live, o
  <2> QED BY <1>10, <2>1, QueuedNow
<1>11. \/ Asked(b)' \/ Granted(b)'
       \/ /\ \A j \in DOMAIN chan' : ~About(chan'[j], b)
          /\ \/ ~About(Head(chan), b) /\ \E d \in Elements(queue[OrgOf[b]]) : Live(d, b)
             \/ Live(e, b)
  BY <1>1, <1>2, <1>8, ReadTalk DEF e
<1> QED BY <1>5, <1>9, <1>10, <1>11

LEMMA ReadCancel ==
  ASSUME QInv, RecvCancel, NEW b \in Agents, Asked(b) \/ Queued(b) \/ Granted(b)
  PROVE  Asked(b)' \/ Queued(b)' \/ Granted(b)'
<1> DEFINE a == Head(chan)[2]
<1>1. /\ chan # <<>> /\ Head(chan)[1] = "cancel" /\ slot' = slot /\ Received
      /\ queue' = [o \in Orgs |-> Without(queue[o], a)]
  BY DEF RecvCancel, Received
<1>2. CountTypes /\ QueueTypes
  BY DEF QInv, SInv
<1>3. Head(chan) = <<"cancel", a>> /\ OrgOf[b] \in Orgs
  BY <1>1, <1>2, HeadMessage, OrgAssumption
<1>4. About(Head(chan), a) /\ Head(chan)[1] # "want"
  BY <1>1, <1>3 DEF About
<1> HIDE DEF a
<1>5. GrantsStay(b)
  BY <1>1, SameGrants
<1>6. ASSUME \A j \in DOMAIN chan' : ~About(chan'[j], b), b # a,
             NEW d \in Elements(queue[OrgOf[b]]), Live(d, b)
      PROVE  Queued(b)'
  <2>1. d \in Elements(queue'[OrgOf[b]])
    BY <1>1, <1>2, <1>3, <1>6, WithoutAgent DEF QueueTypes, Live
  <2> QED BY <1>6, <2>1, QueuedNow
<1>7. \/ Asked(b)' \/ Granted(b)'
      \/ /\ \A j \in DOMAIN chan' : ~About(chan'[j], b)
         /\ ~About(Head(chan), b) /\ \E d \in Elements(queue[OrgOf[b]]) : Live(d, b)
  BY <1>1, <1>2, <1>4, <1>5, ReadTalk
<1> QED BY <1>4, <1>6, <1>7

LEMMA ReadOther ==
  ASSUME QInv, RecvReleased \/ RecvLimit, NEW b \in Agents, Asked(b) \/ Queued(b) \/ Granted(b)
  PROVE  Asked(b)' \/ Queued(b)' \/ Granted(b)'
<1>1. CountTypes /\ ReleasedOnce
  BY LanesParts DEF QInv, SInv
<1>2. Received /\ queue' = queue /\ Head(chan)[1] \in {"released", "limit"}
  BY DEF RecvReleased, RecvLimit
<1>3. GrantsStay(b)
  <2>1. CASE RecvLimit
    BY <2>1, SameGrants DEF RecvLimit
  <2>2. CASE RecvReleased
    <3> DEFINE i == Head(chan)[2]
    <3>1. slot' = [slot EXCEPT ![i] = NoSlot] /\ Head(chan)[1] = "released" /\ chan # <<>>
      BY <2>2 DEF RecvReleased, Received
    <3>2. slot[i].st = "posted"
      BY <1>1, <3>1, HeadMessage DEF ReleasedOnce
    <3> HIDE DEF i
    <3>3. \A j \in InState({"loading", "loose", "mailed", "failed"}) : slot'[j] = slot[j]
      BY <1>1, <3>1, <3>2 DEF InState, CountTypes
    <3> QED BY <3>3 DEF GrantsStay, InState
  <2> QED BY <2>1, <2>2
<1>4. \/ Asked(b)' \/ Granted(b)'
      \/ /\ \A j \in DOMAIN chan' : ~About(chan'[j], b)
         /\ \E d \in Elements(queue[OrgOf[b]]) : Live(d, b)
  BY <1>1, <1>2, <1>3, ReadTalk
<1> QED BY <1>2, <1>4, QueuedNow

LEMMA GrantKeeps ==
  ASSUME QInv, Grant, NEW b \in Agents, Asked(b) \/ Queued(b) \/ Granted(b)
  PROVE  Asked(b)' \/ Queued(b)' \/ Granted(b)'
<1>1. PICK n \in DOMAIN rotation, e \in Entries, i \in InState({"free"}) :
        /\ queue' = [p \in Orgs |-> IF p = rotation[n] THEN Without(Open(rotation[n]), e.agent)
                                    ELSE IF p \in {rotation[m] : m \in 1..n} THEN Open(p) ELSE queue[p]]
        /\ slot' = [slot EXCEPT ![i] =
                      [agent |-> e.agent, lane |-> e.lane,
                       st |-> IF e.lane \notin Warming THEN "mailed"
                              ELSE IF e.task = "tracked" THEN "loading" ELSE "loose"]]
  BY Zenon DEF Grant
<1>2. chan' = chan
  BY Zenon DEF Grant
<1>3. slot \in [Slots -> SlotRecords] /\ i \in Slots /\ slot[i].st = "free" /\ QueueTypes /\ OrgOf[b] \in Orgs
  BY OrgAssumption DEF QInv, SInv, CountTypes, InState
<1>4. PICK st \in {"mailed", "loading", "loose"} :
        slot' = [slot EXCEPT ![i] = [agent |-> e.agent, lane |-> e.lane, st |-> st]]
  BY <1>1
<1>5. /\ slot'[i] = [agent |-> e.agent, lane |-> e.lane, st |-> st]
      /\ \A j \in Slots \ {i} : slot'[j] = slot[j]
  BY <1>3, <1>4
<1>6. CASE e.agent = b
  <2>1. i \in Slots /\ slot'[i].st \in {"loading", "loose", "mailed", "failed"} /\ slot'[i].agent = b
    BY <1>3, <1>5, <1>6
  <2>2. Granted(b)'
    BY <2>1 DEF Granted, InState
  <2> QED BY <2>2
<1>7. CASE e.agent # b
  <2>1. GrantsStay(b)
    BY <1>3, <1>5 DEF GrantsStay, InState
  <2>2. ASSUME NEW d \in Elements(queue[OrgOf[b]]), Live(d, b)
        PROVE  d \in Elements(queue'[OrgOf[b]])
    <3>1. \A p \in Orgs : Open(p) \in Seq(Entries) /\ Elements(Open(p)) = {c \in Elements(queue[p]) : c.task # "gone"}
      BY <1>3, OpenEntries DEF QueueTypes
    <3>2. d \in Elements(Open(OrgOf[b]))
      BY <1>3, <2>2, <3>1 DEF Live
    <3>3. d \in Elements(Without(Open(OrgOf[b]), e.agent))
      BY <1>3, <1>7, <2>2, <3>1, <3>2, WithoutAgent DEF Live
    <3>4. queue'[OrgOf[b]] \in {Without(Open(OrgOf[b]), e.agent), Open(OrgOf[b]), queue[OrgOf[b]]}
      BY <1>1, <1>3
    <3> QED BY <2>2, <3>2, <3>3, <3>4
  <2>3. QueuedStays(b)
    BY <2>2 DEF QueuedStays
  <2> QED BY <1>2, <2>1, <2>3, SameTalk, WantStays
<1> QED BY <1>6, <1>7

LEMMA GrantDoneKeeps ==
  ASSUME QInv, GrantDone, NEW b \in Agents, Asked(b) \/ Queued(b) \/ Granted(b)
  PROVE  Asked(b)' \/ Queued(b)' \/ Granted(b)'
<1>1. chan' = chan /\ slot' = slot /\ QueueTypes /\ OrgOf[b] \in Orgs
  BY OrgAssumption DEF GrantDone, QInv
<1>2. queue'[OrgOf[b]] \in {Open(OrgOf[b]), queue[OrgOf[b]]}
  BY <1>1 DEF GrantDone
<1>3. Elements(Open(OrgOf[b])) = {c \in Elements(queue[OrgOf[b]]) : c.task # "gone"}
  BY <1>1, OpenEntries DEF QueueTypes
<1>4. QueuedStays(b)
  BY <1>2, <1>3 DEF QueuedStays, Live
<1> QED BY <1>1, <1>4, SameTalk, SameGrants, WantStays

LEMMA WaitStep ==
  ASSUME QInv, [Next]_vars, NEW b \in Agents,
         phase[b] = "waiting" => Asked(b) \/ Queued(b) \/ Granted(b), phase'[b] = "waiting"
  PROVE  Asked(b)' \/ Queued(b)' \/ Granted(b)'
<1>1. CountTypes /\ QueueTypes /\ slot \in [Slots -> SlotRecords]
  BY DEF QInv, SInv, CountTypes
<1>2. ASSUME phase[b] = "waiting", UNCHANGED <<slot, queue, chan>>
      PROVE  Asked(b)' \/ Queued(b)' \/ Granted(b)'
  BY <1>2, SameTalk, SameGrants, SameQueued, WantStays
<1>3. ASSUME NEW a \in Agents, Wake(a)
      PROVE  Asked(b)' \/ Queued(b)' \/ Granted(b)'
  <2>1. PICK task \in {"free", "tracked"} :
          chan' = Append(chan, <<"want", [agent |-> a, lane |-> seat[a], task |-> task]>>)
    BY <1>3 DEF Wake
  <2> DEFINE e == [agent |-> a, lane |-> seat[a], task |-> task]
  <2>2. e.agent = a /\ e.task # "gone"
    OBVIOUS
  <2> HIDE DEF e
  <2>3. chan' = Append(chan, <<"want", e>>)
    BY <2>1 DEF e
  <2>4. CASE b = a
    <3>1. /\ DOMAIN chan' = 1..(Len(chan) + 1) /\ Len(chan) \in Nat
          /\ chan'[Len(chan) + 1] = <<"want", e>>
      BY <1>1, <2>3 DEF CountTypes
    <3>2. /\ Len(chan) + 1 \in DOMAIN chan' /\ \A m \in DOMAIN chan' : ~(m > Len(chan) + 1)
          /\ chan'[Len(chan) + 1][1] = "want" /\ Live(chan'[Len(chan) + 1][2], b)
      BY <2>2, <2>4, <3>1 DEF Live
    <3>3. Asked(b)'
      BY <3>2 DEF Asked, Live
    <3> QED BY <3>3
  <2>5. CASE b # a
    <3>1. ~About(<<"want", e>>, b)
      BY <2>2, <2>5 DEF About
    <3>2. phase[b] = "waiting" /\ UNCHANGED <<slot, queue>>
      BY <1>1, <1>3, <2>5 DEF Wake, QueueTypes
    <3> QED BY <1>1, <2>3, <3>1, <3>2, AppendTalk, SameGrants, SameQueued, WantStays
  <2> QED BY <2>4, <2>5
<1>4. ASSUME NEW a \in Agents, NEW to \in {"idle", "stopped"}, Leave(a, to)
      PROVE  Asked(b)' \/ Queued(b)' \/ Granted(b)'
  <2>1. b # a /\ phase[b] = "waiting"
    BY <1>1, <1>4 DEF Leave, QueueTypes
  <2>2. Holding(a) \in SUBSET Slots /\ \A i \in Holding(a) : slot[i].agent = a
    BY DEF Holding, InState
  <2>3. GrantsStay(b)
    BY <1>1, <1>4, <2>1, <2>2, DroppingStays DEF Leave
  <2>4. TalkStays(b) /\ QueuedStays(b)
    BY <1>1, <1>4, <2>1, MarkedTalk, MarkedStays DEF Leave
  <2> QED BY <2>1, <2>3, <2>4, WantStays
<1>5. ASSUME NEW i \in Slots, GiveUp(i)
      PROVE  Asked(b)' \/ Queued(b)' \/ Granted(b)'
  <2> DEFINE a == slot[i].agent
  <2>1. b # a /\ phase[b] = "waiting"
    BY <1>1, <1>5 DEF GiveUp, QueueTypes
  <2>2. GrantsStay(b)
    <3>1. Dropping(a, {i}, "loose") /\ {i} \in SUBSET Slots /\ \A j \in {i} : slot[j].agent = a
      BY <1>5 DEF GiveUp
    <3> HIDE DEF a
    <3> QED BY <1>1, <2>1, <3>1, DroppingStays
  <2>3. queue' = MarkedQueue(a, "free") /\ chan' = MarkedChan(a, "free")
    BY <1>5 DEF GiveUp, Forgotten
  <2> HIDE DEF a
  <2>4. TalkStays(b) /\ QueuedStays(b)
    BY <1>1, <2>1, <2>3, MarkedTalk, MarkedStays
  <2> QED BY <2>1, <2>2, <2>4, WantStays
<1>6. ASSUME NEW i \in Slots, OnSlot(i)
      PROVE  Asked(b)' \/ Queued(b)' \/ Granted(b)'
  <2> DEFINE a == slot[i].agent
  <2>1. b # a /\ phase[b] = "waiting"
    BY <1>1, <1>6 DEF OnSlot, QueueTypes
  <2>2. GrantsStay(b)
    BY <1>6, <2>1 DEF OnSlot, GrantsStay, Loading, InState
  <2>3. queue' = MarkedQueue(a, "free") /\ chan' = MarkedChan(a, "free")
    BY <1>6 DEF OnSlot, Forgotten
  <2> HIDE DEF a
  <2>4. TalkStays(b) /\ QueuedStays(b)
    BY <1>1, <2>1, <2>3, MarkedTalk, MarkedStays
  <2> QED BY <2>1, <2>2, <2>4, WantStays
<1>7. ASSUME NEW a \in Agents, EndTurn(a)
      PROVE  Asked(b)' \/ Queued(b)' \/ Granted(b)'
  <2>1. b # a /\ phase[b] = "waiting" /\ UNCHANGED <<queue, chan>>
    BY <1>1, <1>7 DEF EndTurn, QueueTypes
  <2>2. Holding(a) \in SUBSET Slots /\ \A i \in Holding(a) : slot[i].agent = a
    BY DEF Holding, InState
  <2>3. GrantsStay(b)
    BY <1>1, <1>7, <2>1, <2>2, DroppingStays DEF EndTurn
  <2> QED BY <2>1, <2>3, SameTalk, SameQueued, WantStays
<1>8. ASSUME NEW i \in Slots, Post(i)
      PROVE  Asked(b)' \/ Queued(b)' \/ Granted(b)'
  <2>1. /\ slot' = [slot EXCEPT ![i].st = "posted"] /\ slot[i].st \in {"dropping", "dropped"}
        /\ chan' = Append(chan, <<"released", i>>) /\ queue' = queue /\ phase' = phase
    BY <1>8 DEF Post
  <2>2. GrantsStay(b)
    BY <1>1, <2>1, SlotMovedStays
  <2>3. ~About(<<"released", i>>, b)
    BY DEF About
  <2>4. TalkStays(b)
    BY <1>1, <2>1, <2>3, AppendTalk
  <2> QED BY <2>1, <2>2, <2>4, SameQueued, WantStays
<1>9. ASSUME NEW i \in Slots, DropAborted(i) \/ Loaded(i, "mailed") \/ Loaded(i, "failed")
      PROVE  Asked(b)' \/ Queued(b)' \/ Granted(b)'
  <2>1. UNCHANGED <<queue, chan, phase>>
    BY <1>9 DEF DropAborted, Loaded
  <2>2. GrantsStay(b)
    BY <1>1, <1>9, SlotMovedStays DEF DropAborted, Loaded
  <2> QED BY <2>1, <2>2, SameTalk, SameQueued, WantStays
<1>10. ASSUME NEW n \in 1..MaxLimit, SetLimit(n)
       PROVE  Asked(b)' \/ Queued(b)' \/ Granted(b)'
  <2>1. chan' = Append(chan, <<"limit", None>>) /\ UNCHANGED <<queue, slot, phase>>
    BY <1>10 DEF SetLimit
  <2>2. ~About(<<"limit", None>>, b)
    BY DEF About
  <2> QED BY <1>1, <2>1, <2>2, AppendTalk, SameGrants, SameQueued, WantStays
<1>11. ASSUME UNCHANGED vars \/ \E a \in Agents, k \in Lanes : SwitchModel(a, k)
       PROVE  Asked(b)' \/ Queued(b)' \/ Granted(b)'
  BY <1>2, <1>11 DEF SwitchModel, vars
<1>12. ASSUME Task
       PROVE  Asked(b)' \/ Queued(b)' \/ Granted(b)'
  <2>1. phase' = phase
    <3>1. CASE Grant
      BY <3>1, Zenon DEF Grant
    <3> QED BY <1>12, <3>1 DEF Task, RecvWant, RecvCancel, RecvReleased, RecvLimit, GrantDone
  <2> QED BY <1>12, <2>1, ReadWant, ReadCancel, ReadOther, GrantKeeps, GrantDoneKeeps DEF Task
<1> QED
  BY <1>3, <1>4, <1>5, <1>6, <1>7, <1>8, <1>9, <1>10, <1>11, <1>12 DEF Next

LEMMA WantInvariant == Spec => []WInv
<1>1. Init => WantLives
  BY DEF Init, WantLives
<1>2. WInv /\ [Next]_vars => WantLives'
  <2> SUFFICES ASSUME WInv, [Next]_vars PROVE WantLives'
    OBVIOUS
  <2>1. \A b \in Agents : phase'[b] = "waiting" => Asked(b)' \/ Queued(b)' \/ Granted(b)'
    BY WaitStep DEF WInv, WantLives
  <2> QED BY <2>1 DEF WantLives
<1>3. Init => WInv
  BY <1>1, QInvInit DEF WInv
<1>4. WInv /\ [Next]_vars => WInv'
  BY <1>2, QInvStep DEF WInv
<1> QED BY <1>3, <1>4, PTL DEF Spec

(* An agent that waits has a want on its way or a slot: a halt's cancel, an   *)
(* aborted load or the late answer to an earlier wait never takes the later   *)
(* want with it, since the last message about an agent decides.               *)
THEOREM WaitersAreWanted == Spec => []WaiterWanted
<1>1. WInv => WaiterWanted
  <2> SUFFICES ASSUME WInv, NEW a \in Agents, phase[a] = "waiting" PROVE Wanted(a)
    BY DEF WaiterWanted
  <2>1. OrgOf[a] \in Orgs
    BY OrgAssumption
  <2> QED BY <2>1 DEF WInv, WantLives, Asked, Queued, Granted, Live, Wanted
<1> QED BY <1>1, WantInvariant, PTL
=============================================================================
