----------------------------- MODULE TurnSched -----------------------------
(***************************************************************************)
(* Turn admission (runtime/sched.rs): one task hands out turn slots, at    *)
(* most `limit` of them at a time, first come first served within an org   *)
(* and round robin across orgs; a language model server is a lane with a   *)
(* cap of its own.  Agents (runtime/actor.rs) talk to the task over one    *)
(* unbounded channel and give a slot back by dropping it, on their own     *)
(* thread: the count falls first and the message follows.                  *)
(***************************************************************************)
EXTENDS Integers, Sequences, FiniteSets

CONSTANTS
  Agents, Orgs, OrgOf,  \* the agents, their orgs, and who is where
  Servers, LaneCap,     \* language model servers and their agents-at-once caps
  Warming,              \* the servers that load a model before a turn starts
  None,                 \* no server, or no agent
  Slots,                \* identities of the slots alive or not yet seen back
  MaxLimit, InitLimit,  \* bound: the largest limit that is set; the first one
  MaxChan,              \* bound: a new call starts only below this many messages
  FirstSeats,           \* the servers that the agents may be on at the start
  Env                   \* what the environment does: the names used as guards

ASSUME OrgAssumption == OrgOf \in [Agents -> Orgs]
ASSUME LaneAssumption == /\ LaneCap \in [Servers -> Nat \ {0}]
                         /\ Warming \subseteq Servers
                         /\ None \notin Servers \cup Agents
                         /\ FirstSeats \subseteq [Agents -> Servers \cup {None}]
ASSUME LimitAssumption == InitLimit \in 1..MaxLimit /\ MaxLimit \in Nat /\ MaxChan \in Nat
ASSUME SlotsAssumption == IsFiniteSet(Slots)

VARIABLES
  limit,     \* Scheduler.limit, an atomic
  held,      \* Scheduler.held, an atomic
  seat,      \* the agents' rows: the server the agent's model runs on
  phase,     \* the agents' actors: idle, waiting (waiting_since), turn (slot), stopped
  slot,      \* the Slot objects
  queue,     \* the task's queues, one per org
  rotation,  \* the task's rotation of orgs
  lanes,     \* the task's turns per server
  chan,      \* its inbox
  pc         \* where it is: "recv" a message or "grant" in its loop

vars == <<limit, held, seat, phase, slot, queue, rotation, lanes, chan, pc>>

Lanes == Servers \cup {None}

\* A want: `task` says whether the agent can still abort the task that waits
\* for the reply ("tracked"), cannot ("free"), or has ("gone": reply closed).
Entries == [agent : Agents, lane : Lanes, task : {"free", "tracked", "gone"}]

\* A slot is granted to a task that loads a model ("loading", "loose" when the
\* agent cannot abort it, "aborted" when it has) or mails it at once; the agent
\* runs a turn with it.  Dropped by the agent ("dropping") or by a task, it no
\* longer counts in `held`; "posted", its message is in the inbox.
Alive == {"loading", "loose", "aborted", "mailed", "failed", "turn"}

SlotStates == Alive \cup {"free", "dropping", "dropped", "posted"}

NoSlot == [st |-> "free", agent |-> None, lane |-> None]

Messages == ({"want"} \X Entries) \cup ({"cancel"} \X Agents)
            \cup ({"released"} \X Slots) \cup {<<"limit", None>>}

TypeOK ==
  /\ limit \in 1..MaxLimit
  /\ held \in Nat
  /\ seat \in [Agents -> Lanes]
  /\ phase \in [Agents -> {"idle", "waiting", "turn", "stopped"}]
  /\ slot \in [Slots -> [st : SlotStates, agent : Agents \cup {None}, lane : Lanes]]
  /\ queue \in [Orgs -> Seq(Entries)]
  /\ rotation \in Seq(Orgs)
  /\ lanes \in [Servers -> Nat]
  /\ chan \in Seq(Messages)
  /\ pc \in {"recv", "grant"}

Init ==
  /\ limit = InitLimit
  /\ held = 0
  /\ seat \in FirstSeats
  /\ phase = [a \in Agents |-> "idle"]
  /\ slot = [i \in Slots |-> NoSlot]
  /\ queue = [o \in Orgs |-> <<>>]
  /\ rotation = <<>>
  /\ lanes = [k \in Servers |-> 0]
  /\ chan = <<>>
  /\ pc = "recv"

InState(S) == {i \in Slots : slot[i].st \in S}

Elements(s) == {s[j] : j \in DOMAIN s}

\* wants on their way to a grant; each may take one slot
Outstanding ==
  Cardinality({j \in DOMAIN chan : chan[j][1] = "want"})
  + Cardinality({p \in Orgs \X (1..Cardinality(Agents)) : p[2] \in DOMAIN queue[p[1]]})

MayCall == /\ Len(chan) < MaxChan
           /\ Outstanding < Cardinality(InState({"free"}))

-----------------------------------------------------------------------------
(* The agents. *)

\* an actor does nothing else while it drops a slot
Able(a) == \A i \in InState({"dropping"}) : slot[i].agent # a

\* on_wake with mail waiting: the agent asks for a slot and waits
Wake(a) ==
  /\ Able(a)
  /\ phase[a] = "idle"
  /\ MayCall
  /\ phase' = [phase EXCEPT ![a] = "waiting"]
  /\ chan' = Append(chan, <<"want", [agent |-> a, lane |-> seat[a],
                                     task |-> IF seat[a] \in Warming THEN "tracked" ELSE "free"]>>)
  /\ UNCHANGED <<limit, held, seat, slot, queue, rotation, lanes, pc>>

\* the task waiting for a's latest want is out of reach ("free") or aborted ("gone")
Marked(e, a, task) == IF e.agent = a /\ e.task = "tracked" THEN [e EXCEPT !.task = task] ELSE e

MarkedQueue(a, task) == [o \in Orgs |-> [j \in DOMAIN queue[o] |-> Marked(queue[o][j], a, task)]]

MarkedChan(a, task) == [j \in DOMAIN chan |-> IF chan[j][1] = "want"
                                              THEN <<"want", Marked(chan[j][2], a, task)>>
                                              ELSE chan[j]]

Loading(a) == {i \in InState({"loading"}) : slot[i].agent = a}

Holding(a) == {i \in InState({"turn"}) : slot[i].agent = a}

\* mutant of Dropping: every drop counts as one slot
DroppingOne(a, S, load) ==
  /\ Able(a)
  /\ held' = held - 1
  /\ slot' = [i \in Slots |-> IF i \in S THEN [slot[i] EXCEPT !.st = "dropping"]
                             ELSE IF i \in Loading(a) THEN [slot[i] EXCEPT !.st = load]
                             ELSE slot[i]]

\* a step of a's actor: it drops the slots in S (Slot::drop: the count falls at
\* once), aborts or loses the load in flight, and marks its wants accordingly
Dropping(a, S, load) ==
  /\ Able(a)
  /\ held' = held - Cardinality(S)
  /\ slot' = [i \in Slots |-> IF i \in S THEN [slot[i] EXCEPT !.st = "dropping"]
                             ELSE IF i \in Loading(a) THEN [slot[i] EXCEPT !.st = load]
                             ELSE slot[i]]

\* ... and the message of a drop follows
Post(i) ==
  /\ slot[i].st \in {"dropping", "dropped"}
  /\ slot' = [slot EXCEPT ![i].st = "posted"]
  /\ chan' = Append(chan, <<"released", i>>)
  /\ UNCHANGED <<limit, held, seat, phase, queue, rotation, lanes, pc>>

\* mutant of DropAborted: the slot is forgotten, not dropped
DropAbortedForgotten(i) ==
  /\ slot[i].st = "aborted"
  /\ slot' = [slot EXCEPT ![i].st = "dropped"]
  /\ UNCHANGED <<limit, held, seat, phase, queue, rotation, lanes, chan, pc>>

\* the aborted task goes, and its slot with it
DropAborted(i) ==
  /\ slot[i].st = "aborted"
  /\ held' = held - 1
  /\ slot' = [slot EXCEPT ![i].st = "dropped"]
  /\ UNCHANGED <<limit, seat, phase, queue, rotation, lanes, chan, pc>>

\* halt, and Stop: the load is aborted, the wait cancelled, the turn's slot dropped
Leave(a, to) ==
  /\ phase[a] \in {"waiting", "turn"}
  /\ Len(chan) < MaxChan
  /\ phase' = [phase EXCEPT ![a] = to]
  /\ Dropping(a, Holding(a), "aborted")
  /\ queue' = MarkedQueue(a, "gone")
  /\ chan' = IF phase[a] = "waiting" THEN Append(MarkedChan(a, "gone"), <<"cancel", a>>)
                                     ELSE MarkedChan(a, "gone")
  /\ UNCHANGED <<limit, seat, rotation, lanes, pc>>

\* the task ends its load, and mails the slot or the failure
Loaded(i, st) ==
  /\ slot[i].st \in {"loading", "loose"}
  /\ slot' = [slot EXCEPT ![i].st = st]
  /\ UNCHANGED <<limit, held, seat, phase, queue, rotation, lanes, chan, pc>>

\* on_slot and on_warm_failed forget the handle of the task, which may by now
\* be another one than the task that mailed this slot
Forgotten(a) ==
  /\ queue' = MarkedQueue(a, "free")
  /\ chan' = MarkedChan(a, "free")

\* on_slot of an agent that waits: its turn starts
OnSlot(i) ==
  LET a == slot[i].agent
  IN /\ slot[i].st = "mailed"
     /\ Able(a) /\ phase[a] = "waiting"
     /\ phase' = [phase EXCEPT ![a] = "turn"]
     /\ slot' = [j \in Slots |-> IF j = i THEN [slot[i] EXCEPT !.st = "turn"]
                                ELSE IF j \in Loading(a) THEN [slot[j] EXCEPT !.st = "loose"]
                                ELSE slot[j]]
     /\ Forgotten(a)
     /\ UNCHANGED <<limit, held, seat, rotation, lanes, pc>>

\* on_slot of an agent that does not wait any more, and on_warm_failed
GiveUp(i) ==
  LET a == slot[i].agent
  IN /\ \/ slot[i].st = "mailed" /\ phase[a] # "waiting"
        \/ slot[i].st = "failed"
     /\ phase' = [phase EXCEPT ![a] = IF @ = "waiting" THEN "idle" ELSE @]
     /\ Dropping(a, {i}, "loose")
     /\ Forgotten(a)
     /\ UNCHANGED <<limit, seat, rotation, lanes, pc>>

\* the turn ends, or could not start after all
EndTurn(a) ==
  /\ phase[a] = "turn"
  /\ phase' = [phase EXCEPT ![a] = "idle"]
  /\ Dropping(a, Holding(a), "loading")
  /\ UNCHANGED <<limit, seat, queue, rotation, lanes, chan, pc>>

\* switch_model of an agent that runs no turn takes effect at once
SwitchModel(a, k) ==
  /\ "switch" \in Env
  /\ phase[a] # "turn" /\ seat[a] # k
  /\ seat' = [seat EXCEPT ![a] = k]
  /\ UNCHANGED <<limit, held, phase, slot, queue, rotation, lanes, chan, pc>>

\* set_limit: the store, then the message
SetLimit(n) ==
  /\ "limit" \in Env
  /\ limit # n /\ Len(chan) < MaxChan
  /\ limit' = n
  /\ chan' = Append(chan, <<"limit", None>>)
  /\ UNCHANGED <<held, seat, phase, slot, queue, rotation, lanes, pc>>

-----------------------------------------------------------------------------
(* The task: one message, then grants while there is room. *)

\* the elements of s at the places P, in their order: what SelectSeq selects, in
\* a form that needs no recursion
Select(s, P) ==
  [j \in 1..Cardinality(P) |-> s[CHOOSE i \in P : Cardinality({m \in P : m < i}) = j - 1]]

Without(q, a) == Select(q, {j \in DOMAIN q : q[j].agent # a})

Received == /\ pc = "recv" /\ chan # <<>>
            /\ chan' = Tail(chan)
            /\ pc' = "grant"

RecvWant ==
  LET e == Head(chan)[2]
      o == OrgOf[e.agent]
  IN /\ Received
     /\ Head(chan)[1] = "want"
     /\ queue' = [queue EXCEPT ![o] = Append(Without(@, e.agent), e)]
     /\ rotation' = IF o \in Elements(rotation) THEN rotation ELSE Append(rotation, o)
     /\ UNCHANGED <<limit, held, seat, phase, slot, lanes>>

\* mutant of RecvCancel: later wants of the agent go with the earlier ones
RecvCancelAll ==
  /\ pc = "recv" /\ chan # <<>>
  /\ Head(chan)[1] = "cancel"
  /\ chan' = Select(chan, {j \in 2..Len(chan) : chan[j][1] # "want" \/ chan[j][2].agent # Head(chan)[2]})
  /\ queue' = [o \in Orgs |-> Without(queue[o], Head(chan)[2])]
  /\ pc' = "grant"
  /\ UNCHANGED <<limit, held, seat, phase, slot, rotation, lanes>>

RecvCancel ==
  /\ Received
  /\ Head(chan)[1] = "cancel"
  /\ queue' = [o \in Orgs |-> Without(queue[o], Head(chan)[2])]
  /\ UNCHANGED <<limit, held, seat, phase, slot, rotation, lanes>>

RecvReleased ==
  LET i == Head(chan)[2]
  IN /\ Received
     /\ Head(chan)[1] = "released"
     /\ lanes' = [k \in Servers |-> IF k = slot[i].lane THEN lanes[k] - 1 ELSE lanes[k]]
     /\ slot' = [slot EXCEPT ![i] = NoSlot]
     /\ UNCHANGED <<limit, held, seat, phase, queue, rotation>>

RecvLimit ==
  /\ Received
  /\ Head(chan)[1] = "limit"
  /\ UNCHANGED <<limit, held, seat, phase, slot, queue, rotation, lanes>>

\* mutant of Room: one too many
RoomForOneMore == held <= limit

Room == held < limit

\* mutant of Fits: one too many
FitsOneMore(e) == e.lane \in Servers => lanes[e.lane] <= LaneCap[e.lane]

Fits(e) == e.lane \in Servers => lanes[e.lane] < LaneCap[e.lane]

Open(o) == Select(queue[o], {j \in DOMAIN queue[o] : queue[o][j].task # "gone"})

\* e is the first turn of the org that may start
NextUp(o, e) ==
  \E j \in DOMAIN Open(o) : /\ Open(o)[j] = e /\ Fits(e)
                            /\ \A m \in 1..(j - 1) : ~Fits(Open(o)[m])

Blocked(o) == \A e \in Elements(Open(o)) : ~Fits(e)

\* mutant of Rotated: an org that was looked at in vain leaves the rotation
RotatedServed(n, q) ==
  SubSeq(rotation, n + 1, Len(rotation))
  \o Select(rotation, {m \in 1..n : q[rotation[m]] # <<>> /\ q[rotation[m]] # Open(rotation[m])})

\* mutant of Rotated: the org that was served stays in front
RotatedInFront(n, q) ==
  Select(rotation, {m \in 1..n : q[rotation[m]] # <<>>}) \o SubSeq(rotation, n + 1, Len(rotation))

\* the orgs that were looked at go to the back, those without a turn leave
Rotated(n, q) == SubSeq(rotation, n + 1, Len(rotation))
                 \o Select(rotation, {m \in 1..n : q[rotation[m]] # <<>>})

\* one look at each org, until one has a turn that may start
Grant ==
  /\ pc = "grant" /\ Room
  /\ \E n \in DOMAIN rotation, e \in Entries, i \in InState({"free"}) :
       LET o == rotation[n]
           looked == {rotation[m] : m \in 1..n}
       IN /\ \A m \in 1..(n - 1) : Blocked(rotation[m])
          /\ NextUp(o, e)
          /\ queue' = [p \in Orgs |-> IF p = o THEN Without(Open(o), e.agent)
                                      ELSE IF p \in looked THEN Open(p) ELSE queue[p]]
          /\ rotation' = Rotated(n, queue')
          /\ held' = held + 1
          /\ lanes' = [k \in Servers |-> IF k = e.lane THEN lanes[k] + 1 ELSE lanes[k]]
          /\ slot' = [slot EXCEPT ![i] =
                        [agent |-> e.agent, lane |-> e.lane,
                         st |-> IF e.lane \notin Warming THEN "mailed"
                                ELSE IF e.task = "tracked" THEN "loading" ELSE "loose"]]
  /\ UNCHANGED <<limit, seat, phase, chan, pc>>

\* no room, or no turn in any org that may start
GrantDone ==
  /\ pc = "grant"
  /\ \/ /\ ~Room
        /\ UNCHANGED <<queue, rotation>>
     \/ /\ Room
        /\ \A o \in Elements(rotation) : Blocked(o)
        /\ queue' = [o \in Orgs |-> IF o \in Elements(rotation) THEN Open(o) ELSE queue[o]]
        /\ rotation' = Rotated(Len(rotation), queue')
  /\ pc' = "recv"
  /\ UNCHANGED <<limit, held, seat, phase, slot, lanes, chan>>

-----------------------------------------------------------------------------
Task == RecvWant \/ RecvCancel \/ RecvReleased \/ RecvLimit \/ Grant \/ GrantDone

Next ==
  \/ Task
  \/ \E i \in Slots : Post(i) \/ DropAborted(i) \/ OnSlot(i) \/ GiveUp(i) \/ Loaded(i, "mailed") \/ Loaded(i, "failed")
  \/ \E a \in Agents : Wake(a) \/ EndTurn(a)
  \/ \E a \in Agents, to \in Env \cap {"idle", "stopped"} : Leave(a, to)
  \/ \E a \in Agents, k \in Lanes : SwitchModel(a, k)
  \/ \E n \in 1..MaxLimit : SetLimit(n)

Spec == Init /\ [][Next]_vars

-----------------------------------------------------------------------------
(* Properties. *)

OnLane(S, k) == {i \in InState(S) : slot[i].lane = k}

\* The atomic count is the number of Slot objects alive: no path of a turn, a
\* load, a stop or a late answer loses a slot or gives it back twice.
HeldCounts == held = Cardinality(InState(Alive))

\* What the task remembers of its servers' lanes agrees with the slots out there:
\* a lane counts every slot whose release it has not read, each release is in
\* the inbox once, and no lane is over its cap (Grants, run).
LanesCount ==
  /\ \A k \in Servers : /\ lanes[k] = Cardinality(OnLane(SlotStates \ {"free"}, k))
                        /\ lanes[k] <= LaneCap[k]
  /\ \A j \in DOMAIN chan : chan[j][1] = "released" =>
       /\ slot[chan[j][2]].st = "posted"
       /\ \A m \in DOMAIN chan : chan[m] = chan[j] => m = j

\* Never more turns of a server's lane alive than its agents-at-once cap.
LaneKept == \A k \in Servers : Cardinality(OnLane(Alive, k)) <= LaneCap[k]

\* A slot is handed out only while all those alive fit under the limit.
LimitKept ==
  [][LET alive == Cardinality(InState(Alive))
     IN alive' > alive => alive' <= limit']_vars

Wanted(a) ==
  \/ \E o \in Orgs : \E e \in Elements(queue[o]) : e.agent = a /\ e.task # "gone"
  \/ \E j \in DOMAIN chan : chan[j][1] = "want" /\ chan[j][2].agent = a /\ chan[j][2].task # "gone"
  \/ \E i \in InState({"loading", "loose", "mailed", "failed"}) : slot[i].agent = a

\* An agent that waits for its slot has a want on its way, or the slot: no
\* cancel of an earlier wait, and no late answer, takes the later want with it.
WaiterWanted == \A a \in Agents : phase[a] = "waiting" => Wanted(a)

\* Work conservation: when the task has nothing left to read, and no release
\* is about to be posted, no turn waits that could start.
NoIdleSlot ==
  (pc = "recv" /\ chan = <<>> /\ InState({"dropping", "dropped"}) = {} /\ held < limit)
    => \A o \in Orgs : Blocked(o)

\* Every task runs on, every turn ends, every load ends.
Fairness ==
  /\ WF_vars(Task)
  /\ \A i \in Slots : /\ WF_vars(Post(i)) /\ WF_vars(DropAborted(i)) /\ WF_vars(OnSlot(i) \/ GiveUp(i))
                      /\ WF_vars(Loaded(i, "mailed"))
  /\ \A a \in Agents : WF_vars(EndTurn(a))

FairSpec == Spec /\ Fairness

\* Every waiting turn starts in the end, whatever the other orgs ask for.
TurnsServed == \A a \in Agents : phase[a] = "waiting" ~> phase[a] # "waiting"
=============================================================================
