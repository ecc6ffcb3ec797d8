----------------------------- MODULE FairSlots -----------------------------
(***************************************************************************)
(* The in-memory turn slots of the Python engine: turnslots.FairSlots, a   *)
(* condition variable with a queue for each org, and the entry of a turn   *)
(* into it (supervisor._InterruptibleTurnSlot), which an interrupt or a    *)
(* halt may cut short.  FairSlots is under the lock of its condition; the  *)
(* runtime states of the agents are under _state_lock, and a waiter reads  *)
(* its own without it.                                                     *)
(***************************************************************************)
EXTENDS Integers, Sequences, FiniteSets

CONSTANTS
  Agents,         \* each takes its turns one after another
  Orgs, OrgOf,    \* the org of an agent
  Limits,         \* bound: the limits that are set
  InitLimit,
  Interrupted,    \* the agents whose waiting turns are interrupted
  Halted,         \* the agents that are halted
  None

ASSUME OrgAssumption == OrgOf \in [Agents -> Orgs] /\ None \notin Orgs
ASSUME LockAssumption == {"free", "setter"} \cap Agents = {}
ASSUME CutAssumption == Interrupted \cup Halted \subseteq Agents
ASSUME LimitAssumption == Limits \subseteq Nat /\ InitLimit \in Limits /\ None \notin Nat

VARIABLES
  limit, held,    \* _limit, _held
  queue,          \* _queues: the tickets of an org that wait
  ring, last,     \* _ring, _last_org
  granted,        \* the tickets with `granted`, until their slot is given back
  lock,           \* the condition's lock: free, or the thread that has it over _dispatch
  pc,             \* where the thread of an agent's turn is
  token,          \* whose admission_cancel_token is the token of its present entry
  halted,         \* halt_requested
  wakes,          \* whoever has set a flag and has not called wake() yet
  setter,         \* set_turn_limit: idle, or refreshing the banners with what it read
  banner,         \* queued_for_slot.limit
  cut,            \* history: interrupted since it entered
  passed          \* history: the orgs served since an org began to wait

slotVars == <<limit, held, queue, ring, last, granted>>
vars == <<slotVars, lock, pc, token, halted, wakes, setter, banner, cut, passed>>

Places == {"idle", "entered", "asking", "queued", "checking", "asleep", "granted",
           "handing", "cancelled", "turn", "unwanted", "releasing"}

TypeOK ==
  /\ limit \in Limits
  /\ held \in Nat
  /\ queue \in [Orgs -> Seq(Agents)]
  /\ ring \in Seq(Orgs)
  /\ last \in Orgs \cup {None}
  /\ granted \subseteq Agents
  /\ lock \in {"free", "setter"} \cup Agents
  /\ pc \in [Agents -> Places]
  /\ token \subseteq Agents
  /\ halted \subseteq Agents
  /\ wakes \subseteq Agents
  /\ setter \in {None} \cup Limits
  /\ banner \in [Agents -> {None} \cup Limits]
  /\ cut \subseteq Agents
  /\ passed \in [Orgs -> SUBSET Orgs]

Init ==
  /\ limit = InitLimit /\ held = 0
  /\ queue = [o \in Orgs |-> <<>>]
  /\ ring = <<>> /\ last = None
  /\ granted = {}
  /\ lock = "free"
  /\ pc = [a \in Agents |-> "idle"]
  /\ token = {} /\ halted = {} /\ wakes = {}
  /\ setter = None
  /\ banner = [a \in Agents |-> None]
  /\ cut = {}
  /\ passed = [o \in Orgs |-> {}]

Elements(s) == {s[i] : i \in DOMAIN s}

Goes(a, to) == pc' = [pc EXCEPT ![a] = to]

-----------------------------------------------------------------------------
(* FairSlots.  A step that takes the lock and dispatches leaves it taken;  *)
(* the grants follow one by one, and the last step lets it go.             *)

Position(o) == IF o \in Elements(ring) THEN CHOOSE i \in DOMAIN ring : ring[i] = o ELSE 0

\* mutant of Behind: the round begins with the org served last
BehindItself(o) == (Position(o) - Position(last)) % Len(ring)

\* how far an org is behind the one served last
Behind(o) == (Position(o) - Position(last) - 1) % Len(ring)

Waits(o) == queue[o] # <<>>

NextOrg(o) == Waits(o) /\ \A p \in Orgs : Waits(p) => Behind(o) <= Behind(p)

Room == held < limit /\ \E o \in Orgs : Waits(o)

\* _dispatch: one grant
Grant(o) ==
  /\ lock # "free"
  /\ held < limit
  /\ NextOrg(o)
  /\ queue' = [queue EXCEPT ![o] = Tail(@)]
  /\ granted' = granted \cup {Head(queue[o])}
  /\ held' = held + 1
  /\ last' = o
  /\ passed' = [p \in Orgs |-> IF p # o /\ Waits(p) THEN passed[p] \cup {o} ELSE {}]
  /\ UNCHANGED <<limit, ring, lock, pc, token, halted, wakes, setter, banner, cut>>

\* notify_all; the thread that calls it goes on
WakeAll(next) == pc' = [a \in Agents |-> IF pc[a] = "asleep" THEN "checking" ELSE next[a]]

Notify(a) ==
  /\ lock = a
  /\ pc[a] \in {"handing", "releasing"}
  /\ ~Room
  /\ lock' = "free"
  /\ WakeAll([pc EXCEPT ![a] = IF @ = "handing" THEN "cancelled" ELSE "idle"])
  /\ UNCHANGED <<slotVars, token, halted, wakes, setter, banner, cut, passed>>

\* acquire: a new ticket ...
Ask(a) ==
  /\ lock = "free"
  /\ pc[a] = "entered"
  /\ queue' = [queue EXCEPT ![OrgOf[a]] = Append(@, a)]
  /\ ring' = IF OrgOf[a] \in Elements(ring) THEN ring ELSE Append(ring, OrgOf[a])
  /\ lock' = a
  /\ Goes(a, "asking")
  /\ UNCHANGED <<limit, held, last, granted, token, halted, wakes, setter, banner, cut, passed>>

\* ... which may be granted at once: nobody is notified
Asked(a) ==
  /\ lock = a
  /\ pc[a] = "asking"
  /\ ~Room
  /\ lock' = "free"
  /\ Goes(a, IF a \in granted THEN "granted" ELSE "queued")
  /\ UNCHANGED <<slotVars, token, halted, wakes, setter, banner, cut, passed>>

\* a slot that comes back; its thread keeps the lock
GiveBack(a) ==
  /\ lock = "free"
  /\ held' = held - 1
  /\ granted' = granted \ {a}
  /\ lock' = a
  /\ UNCHANGED <<limit, queue, ring, last>>

\* _cancelled, read without _state_lock
Cancelled(a) == a \in halted \/ a \in token

\* a round of the wait: granted, cancelled, both, or asleep
Granted(a) ==
  /\ lock = "free"
  /\ pc[a] = "checking"
  /\ a \in granted /\ ~Cancelled(a)
  /\ Goes(a, "granted")
  /\ UNCHANGED <<slotVars, lock, token, halted, wakes, setter, banner, cut, passed>>

\* mutant of HandOn: the slot stays counted
HandOnLeaking(a) ==
  /\ pc[a] = "checking"
  /\ lock = "free"
  /\ a \in granted /\ Cancelled(a)
  /\ granted' = granted \ {a}
  /\ lock' = a
  /\ Goes(a, "handing")
  /\ UNCHANGED <<limit, held, queue, ring, last, token, halted, wakes, setter, banner, cut, passed>>

\* mutant of HandOn: nobody gets the slot
HandOnAlone(a) ==
  /\ pc[a] = "checking"
  /\ lock = "free"
  /\ a \in granted /\ Cancelled(a)
  /\ granted' = granted \ {a}
  /\ held' = held - 1
  /\ Goes(a, "cancelled")
  /\ UNCHANGED <<limit, queue, ring, last, lock, token, halted, wakes, setter, banner, cut, passed>>

HandOn(a) ==
  /\ pc[a] = "checking"
  /\ a \in granted /\ Cancelled(a)
  /\ GiveBack(a)
  /\ Goes(a, "handing")
  /\ UNCHANGED <<token, halted, wakes, setter, banner, cut, passed>>

Without(s, i) == [j \in 1..(Len(s) - 1) |-> IF j < i THEN s[j] ELSE s[j + 1]]

\* mutant of Abandon: the ticket stays in its queue
AbandonInPlace(a) ==
  /\ lock = "free"
  /\ pc[a] = "checking"
  /\ a \notin granted /\ Cancelled(a)
  /\ Goes(a, "cancelled")
  /\ UNCHANGED <<slotVars, lock, token, halted, wakes, setter, banner, cut, passed>>

\* mutant of Abandon: a slot is released that was never granted
AbandonReleasing(a) ==
  /\ pc[a] = "checking"
  /\ a \notin granted /\ Cancelled(a)
  /\ GiveBack(a)
  /\ Goes(a, "handing")
  /\ UNCHANGED <<token, halted, wakes, setter, banner, cut, passed>>

Abandon(a) ==
  /\ lock = "free"
  /\ pc[a] = "checking"
  /\ a \notin granted /\ Cancelled(a)
  /\ \E i \in DOMAIN queue[OrgOf[a]] :
       /\ queue[OrgOf[a]][i] = a
       /\ queue' = [queue EXCEPT ![OrgOf[a]] = Without(@, i)]
  /\ passed' = IF Waits(OrgOf[a])' THEN passed ELSE [passed EXCEPT ![OrgOf[a]] = {}]
  /\ Goes(a, "cancelled")
  /\ UNCHANGED <<limit, held, ring, last, granted, lock, token, halted, wakes, setter, banner, cut>>

Sleep(a) ==
  /\ lock = "free"
  /\ pc[a] = "checking"
  /\ a \notin granted /\ ~Cancelled(a)
  /\ Goes(a, "asleep")
  /\ UNCHANGED <<slotVars, lock, token, halted, wakes, setter, banner, cut, passed>>

\* set_limit, of set_turn_limit, which its one caller runs on the event loop
SetLimit ==
  /\ lock = "free"
  /\ setter = None
  /\ limit' \in Limits \ {limit}
  /\ lock' = "setter"
  /\ setter' = limit'
  /\ UNCHANGED <<held, queue, ring, last, granted, pc, token, halted, wakes, banner, cut, passed>>

LimitSet ==
  /\ lock = "setter"
  /\ ~Room
  /\ lock' = "free"
  /\ WakeAll(pc)
  /\ UNCHANGED <<slotVars, token, halted, wakes, setter, banner, cut, passed>>

Wake(a) ==
  /\ lock = "free"
  /\ a \in wakes
  /\ wakes' = wakes \ {a}
  /\ WakeAll(pc)
  /\ UNCHANGED <<slotVars, lock, token, halted, setter, banner, cut, passed>>

-----------------------------------------------------------------------------
(* _InterruptibleTurnSlot: the runtime state around the wait.              *)

\* admission_waiting, with its token
Admitting == {"entered", "asking", "queued", "checking", "asleep", "granted", "handing",
              "cancelled"}

Enter(a) ==
  /\ pc[a] = "idle"
  /\ Goes(a, "entered")
  /\ token' = token \ {a}
  /\ cut' = cut \ {a}
  /\ UNCHANGED <<slotVars, lock, halted, wakes, setter, banner, passed>>

\* _queued: the banner names the limit of this moment
Queued(a) ==
  /\ pc[a] = "queued"
  /\ banner' = [banner EXCEPT ![a] = limit]
  /\ Goes(a, "checking")
  /\ UNCHANGED <<slotVars, lock, token, halted, wakes, setter, cut, passed>>

\* set_turn_limit: the banners of the turns that are queued still
Refresh ==
  /\ lock # "setter"
  /\ setter # None
  /\ setter' = None
  /\ banner' = [a \in Agents |-> IF banner[a] = None THEN None ELSE setter]
  /\ UNCHANGED <<slotVars, lock, pc, token, halted, wakes, cut, passed>>

\* __enter__ after Cancelled
Leave(a) ==
  /\ pc[a] = "cancelled"
  /\ Goes(a, "idle")
  /\ token' = token \ {a}
  /\ banner' = [banner EXCEPT ![a] = None]
  /\ UNCHANGED <<slotVars, lock, halted, wakes, setter, cut, passed>>

\* mutant of Settle: what came with the grant is not looked at
SettleBlind(a) ==
  /\ pc[a] = "granted"
  /\ Goes(a, "turn")
  /\ token' = token \ {a}
  /\ banner' = [banner EXCEPT ![a] = None]
  /\ UNCHANGED <<slotVars, lock, halted, wakes, setter, cut, passed>>

\* __enter__ after acquire: a cut that came with the grant is seen here
Settle(a) ==
  /\ pc[a] = "granted"
  /\ Goes(a, IF Cancelled(a) THEN "unwanted" ELSE "turn")
  /\ token' = token \ {a}
  /\ banner' = [banner EXCEPT ![a] = None]
  /\ UNCHANGED <<slotVars, lock, halted, wakes, setter, cut, passed>>

\* __exit__: of a turn that has ended, or that will not run
Exit(a) ==
  /\ pc[a] \in {"turn", "unwanted"}
  /\ GiveBack(a)
  /\ Goes(a, "releasing")
  /\ UNCHANGED <<token, halted, wakes, setter, banner, cut, passed>>

\* mutant of Interrupt: the waiter is not woken
InterruptQuiet(a) ==
  /\ a \in Interrupted
  /\ pc[a] \in Admitting
  /\ a \notin token
  /\ token' = token \cup {a}
  /\ cut' = cut \cup {a}
  /\ UNCHANGED <<slotVars, lock, pc, halted, wakes, setter, banner, passed>>

\* interrupt_turn of a turn that is not admitted yet; _cut_state of an archive
Interrupt(a) ==
  /\ a \in Interrupted
  /\ pc[a] \in Admitting
  /\ a \notin token  \* a second one sets the same token
  /\ token' = token \cup {a}
  /\ wakes' = wakes \cup {a}
  /\ cut' = cut \cup {a}
  /\ UNCHANGED <<slotVars, lock, pc, halted, setter, banner, passed>>

\* halt.request sets the flag in its transaction; another thread's turn may run
Halt(a) ==
  /\ a \in Halted \ halted
  /\ halted' = halted \cup {a}
  /\ wakes' = wakes \cup {a}
  /\ UNCHANGED <<slotVars, lock, pc, token, setter, banner, cut, passed>>

\* the transaction aborts, after its wake()
UndoHalt(a) ==
  /\ a \in halted \ wakes
  /\ halted' = halted \ {a}
  /\ UNCHANGED <<slotVars, lock, pc, token, wakes, setter, banner, cut, passed>>

\* unhalt: the agent's worker has settled
Unhalt(a) ==
  /\ a \in halted \ wakes
  /\ pc[a] = "idle"
  /\ halted' = halted \ {a}
  /\ token' = token \ {a}
  /\ UNCHANGED <<slotVars, lock, pc, wakes, setter, banner, cut, passed>>

-----------------------------------------------------------------------------
Wait(a) == Asked(a) \/ Granted(a) \/ HandOn(a) \/ Abandon(a) \/ Sleep(a)

Turn(a) == Ask(a) \/ Wait(a) \/ Queued(a) \/ Leave(a) \/ Settle(a) \/ Exit(a) \/ Notify(a)

Settings == SetLimit \/ LimitSet \/ Refresh

Next ==
  \/ \E o \in Orgs : Grant(o)
  \/ Settings
  \/ \E a \in Agents : \/ Enter(a) \/ Turn(a) \/ Wake(a)
                       \/ Interrupt(a) \/ Halt(a) \/ UndoHalt(a) \/ Unhalt(a)

Spec == Init /\ [][Next]_vars

-----------------------------------------------------------------------------
(* Safety. *)

\* _held is the number of slots given out, through every cancel and hand-on.
HeldCounts == held = Cardinality(granted)

InQueue(a) == \E i \in DOMAIN queue[OrgOf[a]] : queue[OrgOf[a]][i] = a

\* A ticket is in its queue until it is granted or abandoned, and a granted one has
\* a thread that will use it or give it back: a cancel that crosses a grant loses no
\* slot and leaves no ticket behind to take one.
TicketsKept ==
  \A a \in Agents :
    /\ InQueue(a) <=> /\ pc[a] \in {"asking", "queued", "checking", "asleep"}
                      /\ a \notin granted
    /\ a \in granted => pc[a] \in {"asking", "queued", "checking", "asleep", "granted", "turn",
                                   "unwanted"}
    /\ pc[a] \in {"granted", "turn", "unwanted"} => a \in granted

\* No slot is free while a turn waits for one: acquire relies on it when it
\* dispatches without notifying anybody.
NoIdleSlot == lock = "free" => ~Room

\* Nothing polls, so a thread sleeps only while nothing has happened that it must
\* see: its grant, or a cancel whose author is still to call wake().
NoLostWakeup ==
  \A a \in Agents :
    pc[a] = "asleep" => (a \in granted => lock # "free") /\ (Cancelled(a) => wakes # {})

\* An interrupt that found the turn waiting is never overtaken by its grant.
CutHonoured == \A a \in cut : pc[a] # "turn"

\* The banner of a queued turn names the current limit once a change has settled.
BannerCurrent == setter = None => \A a \in Agents : banner[a] \in {None, limit}

\* Orgs alternate: none is served twice while another one waits.
OrgsAlternate ==
  [][\A o, p \in Orgs : Grant(o) /\ p # o /\ Waits(p) => o \notin passed[p]]_vars

-----------------------------------------------------------------------------
(* The inductive invariant of the proofs.                                   *)

\* a ticket is in one place of one queue
QueuedOnce ==
  \A o \in Orgs : \A i \in DOMAIN queue[o] :
    /\ OrgOf[queue[o][i]] = o
    /\ \A j \in DOMAIN queue[o] : queue[o][i] = queue[o][j] => i = j

\* whoever has the lock, and what its dispatch can still grant
LockHeld ==
  /\ lock = "setter" => setter # None
  /\ \A a \in Agents :
       /\ (lock = a) <=> (pc[a] \in {"asking", "handing", "releasing"})
       /\ pc[a] = "asking" =>
            /\ \A b \in Agents : pc[b] = "asleep" => b \notin granted
            /\ held < limit => \A o \in Orgs : \A i \in DOMAIN queue[o] : queue[o][i] = a

CutTokens ==
  \A a \in cut : \/ pc[a] \in Admitting /\ a \in token
                \/ pc[a] \in {"unwanted", "releasing", "idle"}

SetterCurrent == setter \in {None, limit}

\* The queue, the lock and the flags fit together at every step of every thread: a
\* grant made while another thread asks wakes nobody, and has nobody to wake.
IInv == /\ IsFiniteSet(granted) /\ HeldCounts /\ TicketsKept /\ NoIdleSlot /\ NoLostWakeup
        /\ BannerCurrent /\ QueuedOnce /\ LockHeld /\ CutTokens /\ SetterCurrent
=============================================================================
