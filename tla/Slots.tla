------------------------------- MODULE Slots -------------------------------
(***************************************************************************)
(* The concurrency slots of one project (domain/slots.rs): permits claimed *)
(* through `slot` watchdogs, granted first come first served as whole      *)
(* leases, given back by release, by reclaim or by the death of a turn.    *)
(*                                                                         *)
(* A step is one database transaction, one autocommitted statement or one  *)
(* unlocked read.  The transactions that change leases hold the project's  *)
(* row lock; a grant pass reads the line and writes it in two steps,       *)
(* because pausing, removing and unqueueing a claim, and halting or        *)
(* freezing its owner, do not take that lock.  What a caller still has to  *)
(* do after its commit is in memory only (`due`): a crash forgets it.      *)
(***************************************************************************)
EXTENDS Integers, FiniteSets

CONSTANTS
  Agents,      \* the agents that may claim slots of the project
  User,        \* the desk's user, who holds slots without an agent row
  Requests,    \* identities of the claims made in a behaviour
  MaxCap,      \* bound: the largest slot count the project is given
  InitCap,     \* the slot count at the start
  Audience,    \* agents that start outside the project's line, with an audience with it
  Reminders,   \* scope.mail_queue_ack_reminders
  MaxCrashes,  \* bound: engine crashes in a behaviour
  MaxActs,     \* bound: pause and remove calls in flight together
  MaxDue,      \* bound: a new call starts only below this much unfinished work
  Env          \* what the environment does: the names used as guards below

ASSUME UserAssumption == User \notin Agents
ASSUME CapAssumption == MaxCap \in Nat \ {0} /\ InitCap \in 0..MaxCap
ASSUME BoundAssumption == Reminders \in Nat /\ MaxCrashes \in Nat /\ MaxActs \in Nat /\ MaxDue \in Nat
ASSUME FiniteAssumption == IsFiniteSet(Requests)

VARIABLES
  cap,     \* scope.slots_capacity of the project row
  live,    \* the project row's state is 'live'
  agent,   \* the agents' rows: live, halt, frozen, and whether they reach the project
  claim,   \* the slot watchdogs, and the creates in flight
  before,  \* the line's order: <<r, s>> when r's queued_at is before s's
  slot,    \* the active lease of a claim: its slot_no, 0 when it has none
  wakes,   \* the idle reminders counted against that lease
  pass,    \* the open grant transaction, which holds the project row lock
  due,     \* work promised after a commit and not done yet (in memory)
  crashes

vars == <<cap, live, agent, claim, before, slot, wakes, pass, due, crashes>>

Owners == Agents \cup {User}

\* watchdog states; "creating" is a create call before its insert, "shelved"
\* a dog paused with its archived owner, "inline" a lease without a dog
States == {"none", "creating", "armed", "paused", "shelved", "spent", "removed", "inline"}

Jobs == ({"grant", "check", "drop"} \X {"project"})
        \cup ({"claim", "insert", "fire", "idle", "pause", "remove"} \X Requests)
        \cup ({"recheck", "death", "deathEnd", "moved"} \X Agents)

Grant == <<"grant", "project">>
Check == <<"check", "project">>
Drop == <<"drop", "project">>

NoPass == [kind |-> "none", inline |-> {}, waiting |-> {}, refire |-> {}]
Passes == [kind : {"none", "grant", "claim"}, inline : SUBSET Requests,
           waiting : SUBSET Requests, refire : SUBSET Requests]

Claims == [st : States, owner : Owners, n : 1..MaxCap, via : BOOLEAN, lease : BOOLEAN]

AgentRows == [live : BOOLEAN, halt : BOOLEAN, frozen : BOOLEAN, reach : BOOLEAN]

TypeOK ==
  /\ cap \in 0..MaxCap
  /\ live \in BOOLEAN
  /\ agent \in [Agents -> AgentRows]
  /\ claim \in [Requests -> Claims]
  /\ before \in SUBSET (Requests \X Requests)
  /\ slot \in [Requests -> 0..MaxCap]
  /\ wakes \in [Requests -> 0..Reminders]
  /\ pass \in Passes
  /\ due \in SUBSET Jobs
  /\ crashes \in 0..MaxCrashes

NoClaim == [st |-> "none", owner |-> User, n |-> 1, via |-> FALSE, lease |-> FALSE]

Init ==
  /\ cap = InitCap
  /\ live = TRUE
  /\ agent = [a \in Agents |-> [live |-> TRUE, halt |-> FALSE, frozen |-> FALSE,
                                reach |-> a \notin Audience]]
  /\ claim = [r \in Requests |-> NoClaim]
  /\ before = {}
  /\ slot = [r \in Requests |-> 0]
  /\ wakes = [r \in Requests |-> 0]
  /\ pass = NoPass
  /\ due = {}
  /\ crashes = 0

-----------------------------------------------------------------------------
(* What the queries compute. *)

Unlocked == pass.kind = "none"

Runs(a) == agent[a].live /\ ~agent[a].halt /\ ~agent[a].frozen

\* dog_reaches: the user, a create-time reach grant, or the tree
Reaches(r) == \/ claim[r].owner = User
              \/ claim[r].via
              \/ agent[claim[r].owner].reach

\* a claim in the line; `paused` ones have left it but stay pending
InLine(r) == claim[r].st = "armed" /\ ~claim[r].lease

Eligible(r) == /\ InLine(r)
               /\ claim[r].owner = User \/ Runs(claim[r].owner)
               /\ Reaches(r)

Held == {r \in Requests : slot[r] # 0}

HeldBy(o) == {r \in Held : claim[r].owner = o}

Pending(o) == {r \in Requests : /\ claim[r].owner = o
                                /\ claim[r].st \in {"armed", "paused", "shelved"}
                                /\ ~claim[r].lease}

\* the permits a set of claims stands for, so that their number is a cardinality
Permits(S) == {p \in S \X (1..MaxCap) : p[2] <= claim[p[1]].n}

Units(S) == Cardinality(Permits(S))

\* mutant of Admit: any number of pending claims
AdmitMany(o, n, excluding) ==
  /\ live
  /\ n <= cap - Units(HeldBy(o)) - Units(Pending(o) \ excluding)

Admit(o, n, excluding) ==
  LET pending == Pending(o) \ excluding
  IN /\ live
     /\ n <= cap
     /\ o \in Agents => pending = {}
     /\ n <= cap - Units(HeldBy(o)) - Units(pending)

\* mutant of UpTo: the candidate of an inline claim comes before the line
UpToCandidateFirst(r, W) ==
  {s \in W : s = r \/ s \in pass.inline \/ (<<s, r>> \in before /\ r \notin pass.inline)}

UpTo(r, W) == {s \in W : s = r \/ <<s, r>> \in before}

\* mutant of Winners: the room is the whole capacity
WinnersOverHeld(G, W) ==
  /\ \A r \in G : UpTo(r, W) \subseteq G
  /\ Units(G) <= cap
  /\ \A r \in W \ G : Units(UpTo(r, W)) > cap

\* the claims one pass grants: an initial segment of the line, as long as it fits
Winners(G, W) ==
  LET room == cap - Units(Held)
  IN /\ \A r \in G : UpTo(r, W) \subseteq G
     /\ G # {} => Units(G) <= room
     /\ \A r \in W \ G : Units(UpTo(r, W)) > room

\* mutant of Anchors: anchors are free of this pass's grants only
AnchorsOfPass(f, G) ==
  \A r \in G : /\ \A s \in G : f[s] = f[r] => s = r
               /\ \A m \in 1..(f[r] - 1) : \E s \in G : f[s] = m

\* the lowest free anchors, in line order (free_slots)
Anchors(f, G) ==
  LET taken == {slot[r] : r \in Held}
  IN \A r \in G :
       /\ f[r] \notin taken
       /\ \A s \in G : f[s] = f[r] => s = r
       /\ \A m \in 1..(f[r] - 1) : m \in taken \/ \E s \in G : <<s, r>> \in before /\ f[s] = m

\* projects_of: would this agent's recheck look at the project at all?
Touches(a) == \E r \in Requests : /\ claim[r].owner = a
                                  /\ slot[r] # 0 \/ claim[r].st = "armed"

\* a lease's holder that cannot hold it any more (check)
Unfit(r) ==
  LET a == claim[r].owner
  IN /\ a \in Agents
     /\ \/ ~Runs(a)
        \/ /\ ~agent[a].reach
           /\ ~(claim[r].via /\ claim[r].st # "inline")

EndLeases(S) ==
  /\ slot' = [r \in Requests |-> IF r \in S THEN 0 ELSE slot[r]]
  /\ wakes' = [r \in Requests |-> IF r \in S THEN 0 ELSE wakes[r]]

SetState(S, st) == claim' = [r \in Requests |-> IF r \in S THEN [claim[r] EXCEPT !.st = st] ELSE claim[r]]

\* a new queued_at: r goes behind everything that has one
Stamped(r) ==
  before' = {p \in before : p[1] # r}
            \cup {<<s, r>> : s \in {x \in Requests \ {r} : claim[x].st # "none"}}

Forget(S) ==
  /\ claim' = [r \in Requests |-> IF r \in S THEN NoClaim ELSE claim[r]]
  /\ before' = {p \in before : p[1] \notin S /\ p[2] \notin S}

-----------------------------------------------------------------------------
(* Claiming. *)

\* the create call reads its reach and takes its time before any transaction;
\* `inline` is false for a watchdog set up on an agent's behalf
CreateBegin(r, a, n, inline) ==
  /\ claim[r].st = "none"
  /\ live /\ agent[a].live
  /\ agent[a].reach \/ a \in Audience
  /\ IF inline THEN "inline" \in Env /\ Runs(a) ELSE "delegate" \in Env
  /\ claim' = [claim EXCEPT ![r] = [st |-> "creating", owner |-> a, n |-> n,
                                    via |-> ~agent[a].reach, lease |-> FALSE]]
  /\ Stamped(r)
  /\ due' = due \cup {<<IF inline THEN "claim" ELSE "insert", r>>}
  /\ UNCHANGED <<cap, live, agent, slot, wakes, pass, crashes>>

\* claim_once, refused by admission: the create call fails
ClaimRefused(r) ==
  /\ <<"claim", r>> \in due
  /\ Unlocked
  /\ ~Admit(claim[r].owner, claim[r].n, {})
  /\ Forget({r})
  /\ due' = due \ {<<"claim", r>>}
  /\ UNCHANGED <<cap, live, agent, slot, wakes, pass, crashes>>

\* mutant of Refires: what a crash left unfired stays so
RefiresNone == {}

Refires == {r \in Requests : /\ claim[r].st = "armed" /\ claim[r].lease
                             /\ claim[r].owner # User /\ slot[r] # 0}

\* claim_once: the candidate takes part in a grant pass without a dog of its own
ClaimBegin(r) ==
  /\ <<"claim", r>> \in due
  /\ Unlocked
  /\ Admit(claim[r].owner, claim[r].n, {})
  /\ pass' = [kind |-> "claim", inline |-> {r}, refire |-> Refires,
              waiting |-> {s \in Requests : Eligible(s) \/ (s = r /\ Runs(claim[r].owner) /\ Reaches(r))}]
  /\ due' = due \ {<<"claim", r>>}
  /\ UNCHANGED <<cap, live, agent, claim, before, slot, wakes, crashes>>

\* mutant of Win: the dog of a granted claim is not marked
WinUnmarked(G, f) ==
  /\ slot' = [r \in Requests |-> IF r \in G THEN f[r] ELSE slot[r]]
  /\ wakes' = [r \in Requests |-> IF r \in G THEN 0 ELSE wakes[r]]
  /\ claim' = [r \in Requests |->
       IF r \notin G THEN claim[r]
       ELSE [claim[r] EXCEPT !.st = IF r \in pass.inline THEN "inline"
                                    ELSE IF claim[r].owner = User THEN "spent" ELSE @]]

Win(G, f) ==
  /\ slot' = [r \in Requests |-> IF r \in G THEN f[r] ELSE slot[r]]
  /\ wakes' = [r \in Requests |-> IF r \in G THEN 0 ELSE wakes[r]]
  /\ claim' = [r \in Requests |->
       IF r \notin G THEN claim[r]
       ELSE IF r \in pass.inline THEN [claim[r] EXCEPT !.st = "inline"]
       ELSE [claim[r] EXCEPT !.lease = TRUE,
                             !.st = IF claim[r].owner = User THEN "spent" ELSE @]]

Fires(G) == {<<"fire", r>> : r \in {x \in pass.refire \cup G : claim[x].owner # User} \ pass.inline}

\* the candidate won: commit, then fire the others' dogs
ClaimCommit ==
  /\ pass.kind = "claim"
  /\ \E G \in SUBSET pass.waiting :
       /\ Winners(G, pass.waiting)
       /\ pass.inline \subseteq G
       /\ \E f \in [G -> 1..cap] : Anchors(f, G) /\ Win(G, f)
       /\ due' = due \cup Fires(G)
  /\ pass' = NoPass
  /\ UNCHANGED <<cap, live, agent, before, crashes>>

\* the candidate did not win: nothing of the pass is kept, the claim is queued
ClaimRollback ==
  /\ pass.kind = "claim"
  /\ \E G \in SUBSET pass.waiting : Winners(G, pass.waiting) /\ ~(pass.inline \subseteq G)
  /\ due' = due \cup {<<"insert", r>> : r \in pass.inline}
  /\ pass' = NoPass
  /\ UNCHANGED <<cap, live, agent, claim, before, slot, wakes, crashes>>

\* the create's transaction: admission again, then the armed dog
Insert(r) ==
  /\ <<"insert", r>> \in due
  /\ Unlocked
  /\ IF Admit(claim[r].owner, claim[r].n, {})
     THEN /\ SetState({r}, "armed")
          /\ due' = (due \ {<<"insert", r>>}) \cup {Grant}
          /\ UNCHANGED before
     ELSE /\ Forget({r})
          /\ due' = due \ {<<"insert", r>>}
  /\ UNCHANGED <<cap, live, agent, slot, wakes, pass, crashes>>

\* user_slot_hold: admission and insert in one transaction
SlotHold(r, n) ==
  /\ "user" \in Env
  /\ claim[r].st = "none"
  /\ Unlocked
  /\ Admit(User, n, {})
  /\ claim' = [claim EXCEPT ![r] = [st |-> "armed", owner |-> User, n |-> n,
                                    via |-> FALSE, lease |-> FALSE]]
  /\ Stamped(r)
  /\ due' = due \cup {Grant}
  /\ UNCHANGED <<cap, live, agent, slot, wakes, pass, crashes>>

-----------------------------------------------------------------------------
(* Granting. *)

\* grant: the project row lock, the line and its owners' state
GrantBegin ==
  /\ Grant \in due
  /\ Unlocked
  /\ pass' = [kind |-> "grant", inline |-> {}, refire |-> Refires,
              waiting |-> IF live THEN {r \in Requests : Eligible(r)} ELSE {}]
  /\ due' = due \ {Grant}
  /\ UNCHANGED <<cap, live, agent, claim, before, slot, wakes, crashes>>

GrantCommit ==
  /\ pass.kind = "grant"
  /\ \E G \in SUBSET pass.waiting :
       /\ Winners(G, pass.waiting)
       /\ \E f \in [G -> 1..cap] : Anchors(f, G) /\ Win(G, f)
       /\ due' = due \cup Fires(G)
  /\ pass' = NoPass
  /\ UNCHANGED <<cap, live, agent, before, crashes>>

\* a grant transaction that fails (a deadlock victim) is logged and forgotten
GrantFails ==
  /\ "dbfail" \in Env
  /\ pass.kind = "grant"
  /\ pass' = NoPass
  /\ UNCHANGED <<cap, live, agent, claim, before, slot, wakes, due, crashes>>

\* fire_slot: only an armed dog fires, and firing spends it
Fire(r) ==
  /\ <<"fire", r>> \in due
  /\ SetState({x \in {r} : claim[x].st = "armed"}, "spent")
  /\ due' = due \ {<<"fire", r>>}
  /\ UNCHANGED <<cap, live, agent, before, slot, wakes, pass, crashes>>

\* after_grants stops at the first dog that cannot be fired, with those behind it
FireFails(r) ==
  /\ "dbfail" \in Env
  /\ <<"fire", r>> \in due
  /\ \E rest \in SUBSET (Requests \ {r}) : due' = due \ {<<"fire", s>> : s \in rest \cup {r}}
  /\ UNCHANGED <<cap, live, agent, claim, before, slot, wakes, pass, crashes>>

-----------------------------------------------------------------------------
(* Giving back. *)

\* slot_release, by the holder or forced by an agent above or the user
Release(r) ==
  /\ slot[r] # 0
  /\ claim[r].owner # User
  /\ Unlocked
  /\ EndLeases({r})
  /\ due' = due \cup {Grant}
  /\ UNCHANGED <<cap, live, agent, claim, before, pass, crashes>>

\* the user's own hold: only the user releases it
ReleaseUserHold(r) ==
  /\ slot[r] # 0
  /\ claim[r].owner = User
  /\ Unlocked
  /\ EndLeases({r})
  /\ due' = due \cup {Grant}
  /\ UNCHANGED <<cap, live, agent, claim, before, pass, crashes>>

\* check: one transaction, then a grant
CheckHolders ==
  /\ Check \in due
  /\ Unlocked
  /\ EndLeases({r \in Held : Unfit(r)})
  /\ due' = (due \ {Check}) \cup {Grant}
  /\ UNCHANGED <<cap, live, agent, claim, before, pass, crashes>>

\* recheck_holder reads projects_of without a lock
RecheckHolder(a) ==
  /\ <<"recheck", a>> \in due
  /\ due' = (due \ {<<"recheck", a>>}) \cup {j \in {Check} : Touches(a)}
  /\ UNCHANGED <<cap, live, agent, claim, before, slot, wakes, pass, crashes>>

\* release_after_death: the projects held are read first, then each is locked
DeathRead(a) ==
  /\ <<"death", a>> \in due
  /\ due' = (due \ {<<"death", a>>}) \cup {j \in {<<"deathEnd", a>>} : HeldBy(a) # {}}
  /\ UNCHANGED <<cap, live, agent, claim, before, slot, wakes, pass, crashes>>

\* mutant of DeathEnd: the free slots are not offered to the line
DeathEndSilent(a) ==
  /\ <<"deathEnd", a>> \in due
  /\ Unlocked
  /\ EndLeases(HeldBy(a))
  /\ due' = due \ {<<"deathEnd", a>>}
  /\ UNCHANGED <<cap, live, agent, claim, before, pass, crashes>>

\* mutant of DeathEnd: every lease of the project is ended
DeathEndAll(a) ==
  /\ <<"deathEnd", a>> \in due
  /\ Unlocked
  /\ EndLeases(Held)
  /\ due' = (due \ {<<"deathEnd", a>>}) \cup {Grant}
  /\ UNCHANGED <<cap, live, agent, claim, before, pass, crashes>>

DeathEnd(a) ==
  /\ <<"deathEnd", a>> \in due
  /\ Unlocked
  /\ EndLeases(HeldBy(a))
  /\ due' = (due \ {<<"deathEnd", a>>}) \cup {Grant}
  /\ UNCHANGED <<cap, live, agent, claim, before, pass, crashes>>

\* mutant of IdleRemind: reminders go on for ever
IdleRemindAlways(r) ==
  /\ "idle" \in Env
  /\ slot[r] # 0 /\ claim[r].owner # User /\ Runs(claim[r].owner)
  /\ wakes' = [wakes EXCEPT ![r] = @ + 1]
  /\ UNCHANGED <<cap, live, agent, claim, before, slot, pass, due, crashes>>

\* idle_timeouts: the checkup counts a reminder, or takes the lease back
IdleRemind(r) ==
  /\ "idle" \in Env
  /\ slot[r] # 0 /\ claim[r].owner # User /\ Runs(claim[r].owner)
  /\ wakes[r] < Reminders
  /\ wakes' = [wakes EXCEPT ![r] = @ + 1]
  /\ UNCHANGED <<cap, live, agent, claim, before, slot, pass, due, crashes>>

\* or finds it due for reclaim, in a page read without a lock
IdlePage(r) ==
  /\ "idle" \in Env
  /\ slot[r] # 0 /\ claim[r].owner # User /\ Runs(claim[r].owner)
  /\ wakes[r] >= Reminders
  /\ due' = due \cup {<<"idle", r>>}
  /\ UNCHANGED <<cap, live, agent, claim, before, slot, wakes, pass, crashes>>

\* mutant of IdleReclaim: the lease ends and the line is not run
IdleReclaimSilent(r) ==
  /\ <<"idle", r>> \in due /\ claim[r].owner # User
  /\ Unlocked
  /\ EndLeases({r})
  /\ due' = due \ {<<"idle", r>>}
  /\ UNCHANGED <<cap, live, agent, claim, before, pass, crashes>>

\* under the lock the lease ends if it has not ended meanwhile, and the line is run
IdleReclaim(r) ==
  /\ <<"idle", r>> \in due /\ claim[r].owner # User
  /\ Unlocked
  /\ EndLeases({r})
  /\ due' = (due \ {<<"idle", r>>}) \cup {j \in {Grant} : slot[r] # 0}
  /\ UNCHANGED <<cap, live, agent, claim, before, pass, crashes>>

-----------------------------------------------------------------------------
(* Leaving the line and joining it again. *)

\* slot_unqueue takes no project lock
SlotUnqueue(a) ==
  /\ "unqueue" \in Env
  /\ Pending(a) # {}
  /\ SetState(Pending(a), "removed")
  /\ due' = due \cup {Grant}
  /\ UNCHANGED <<cap, live, agent, before, slot, wakes, pass, crashes>>

\* user_slot_cancel
SlotCancel(r) ==
  /\ live
  /\ r \in Pending(User)
  /\ SetState({r}, "removed")
  /\ due' = due \cup {Grant}
  /\ UNCHANGED <<cap, live, agent, before, slot, wakes, pass, crashes>>

\* watchdog act: the dog is read, checked, and written later without a guard
ActBegin(r, verb) ==
  /\ verb \in Env
  /\ claim[r].owner # User
  /\ claim[r].st \in {"armed", "paused", "shelved", "spent"}
  /\ verb = "pause" => claim[r].st # "spent"
  /\ Cardinality(due \cap ({"pause", "remove"} \X Requests)) < MaxActs
  /\ due' = due \cup {<<verb, r>>}
  /\ UNCHANGED <<cap, live, agent, claim, before, slot, wakes, pass, crashes>>

ActWrite(r, verb) ==
  /\ <<verb, r>> \in due
  /\ SetState({r}, IF verb = "pause" THEN "paused" ELSE "removed")
  /\ due' = (due \ {<<verb, r>>}) \cup {<<"recheck", claim[r].owner>>}
  /\ UNCHANGED <<cap, live, agent, before, slot, wakes, pass, crashes>>

\* resume_slot: admitted anew, at the back of the line
ResumeSlot(r) ==
  /\ "resume" \in Env
  /\ Unlocked
  /\ claim[r].owner \in Agents /\ agent[claim[r].owner].live
  /\ claim[r].st \in {"armed", "paused", "shelved"} /\ ~claim[r].lease
  /\ Reaches(r)
  /\ Admit(claim[r].owner, claim[r].n, {r})
  /\ SetState({r}, "armed")
  /\ Stamped(r)
  /\ due' = due \cup {Grant}
  /\ UNCHANGED <<cap, live, agent, slot, wakes, pass, crashes>>

\* configure with a new slot count: re-queued at the back, no grant follows
Edit(r, n) ==
  /\ "edit" \in Env
  /\ Unlocked
  /\ claim[r].owner \in Agents
  /\ claim[r].st \in {"armed", "paused", "shelved"} /\ ~claim[r].lease
  /\ Admit(claim[r].owner, n, {r})
  /\ claim' = [claim EXCEPT ![r].n = n]
  /\ Stamped(r)
  /\ UNCHANGED <<cap, live, agent, slot, wakes, pass, due, crashes>>

-----------------------------------------------------------------------------
(* The agents and the project around the line. *)

\* halt_targets: the agents' tools, and the user's for several agents
SetHalt(a, on) ==
  /\ "halt" \in Env
  /\ agent[a].live /\ agent[a].halt # on
  /\ agent' = [agent EXCEPT ![a].halt = on]
  /\ due' = due \cup {<<"recheck", a>>}
  /\ UNCHANGED <<cap, live, claim, before, slot, wakes, pass, crashes>>

\* the user's halt of one agent: no recheck
UserHalt(a, on) ==
  /\ "userhalt" \in Env
  /\ on => agent[a].live
  /\ agent[a].halt # on
  /\ agent' = [agent EXCEPT ![a].halt = on]
  /\ UNCHANGED <<cap, live, claim, before, slot, wakes, pass, due, crashes>>

\* a turn stopped by a usage limit freezes its agent and has died
FreezeTurn(a) ==
  /\ "freeze" \in Env
  /\ Runs(a)
  /\ agent' = [agent EXCEPT ![a].frozen = TRUE]
  /\ due' = due \cup {<<"death", a>>}
  /\ UNCHANGED <<cap, live, claim, before, slot, wakes, pass, crashes>>

\* no allowed account left for the agent
FreezeNoAccount(a) ==
  /\ "noaccount" \in Env
  /\ agent[a].live /\ ~agent[a].frozen
  /\ agent' = [agent EXCEPT ![a].frozen = TRUE]
  /\ due' = due \cup {<<"recheck", a>>}
  /\ UNCHANGED <<cap, live, claim, before, slot, wakes, pass, crashes>>

\* the account the agent ran on was removed and no other can run it: no recheck
FreezeStranded(a) ==
  /\ "removal" \in Env
  /\ agent[a].live /\ ~agent[a].frozen
  /\ agent' = [agent EXCEPT ![a].frozen = TRUE]
  /\ UNCHANGED <<cap, live, claim, before, slot, wakes, pass, due, crashes>>

\* thaw_matching: by a timer, an unstick or a change of the org's accounts
Thaw(a) ==
  /\ agent[a].live /\ agent[a].frozen
  /\ agent' = [agent EXCEPT ![a].frozen = FALSE]
  /\ due' = due \cup {<<"recheck", a>>}
  /\ UNCHANGED <<cap, live, claim, before, slot, wakes, pass, crashes>>

\* the agent goes on with another account, which thaws it: no recheck
ContinueOn(a) ==
  /\ "continue" \in Env
  /\ agent[a].live /\ agent[a].frozen
  /\ agent' = [agent EXCEPT ![a].frozen = FALSE]
  /\ UNCHANGED <<cap, live, claim, before, slot, wakes, pass, due, crashes>>

\* a turn that ends abnormally without a freeze
TurnDies(a) ==
  /\ "die" \in Env
  /\ Runs(a)
  /\ due' = due \cup {<<"death", a>>}
  /\ UNCHANGED <<cap, live, agent, claim, before, slot, wakes, pass, crashes>>

Retire(a) ==
  /\ "retire" \in Env
  /\ agent[a].live
  /\ agent' = [agent EXCEPT ![a].live = FALSE]
  /\ SetState({r \in Requests : claim[r].owner = a /\ claim[r].st = "armed"}, "shelved")
  /\ due' = due \cup {<<"recheck", a>>} \cup {j \in {Check} : Touches(a)}
  /\ UNCHANGED <<cap, live, before, slot, wakes, pass, crashes>>

\* rehire clears the halt and re-arms the dogs its retirement paused
Rehire(a) ==
  LET shelved == {r \in Requests : claim[r].owner = a /\ claim[r].st = "shelved"}
  IN /\ "rehire" \in Env
     /\ ~agent[a].live
     /\ agent' = [agent EXCEPT ![a].live = TRUE, ![a].halt = FALSE]
     /\ SetState(shelved, "armed")
     /\ due' = due \cup {j \in {Grant} : shelved # {}}
     /\ UNCHANGED <<cap, live, before, slot, wakes, pass, crashes>>

\* a move in the tree changes whether the agent reaches the project
Move(a) ==
  /\ "move" \in Env
  /\ agent' = [agent EXCEPT ![a].reach = ~@]
  /\ due' = due \cup {<<"moved", a>>}
  /\ UNCHANGED <<cap, live, claim, before, slot, wakes, pass, crashes>>

AfterMove(a) ==
  /\ <<"moved", a>> \in due
  /\ due' = (due \ {<<"moved", a>>})
            \cup {j \in {Drop} : (HeldBy(a) \cup Pending(a)) # {}}
  /\ UNCHANGED <<cap, live, agent, claim, before, slot, wakes, pass, crashes>>

\* mutant of DropUnreached: the holders are not checked afterwards
DropUnreachedOnly ==
  /\ Drop \in due
  /\ Unlocked
  /\ SetState({r \in UNION {Pending(a) : a \in Agents} : ~Reaches(r)}, "removed")
  /\ due' = due \ {Drop}
  /\ UNCHANGED <<cap, live, agent, before, slot, wakes, pass, crashes>>

DropUnreached ==
  /\ Drop \in due
  /\ Unlocked
  /\ SetState({r \in UNION {Pending(a) : a \in Agents} : ~Reaches(r)}, "removed")
  /\ due' = (due \ {Drop}) \cup {Check}
  /\ UNCHANGED <<cap, live, agent, before, slot, wakes, pass, crashes>>

SetSlots(c) ==
  /\ "setslots" \in Env
  /\ Unlocked
  /\ c # cap
  /\ cap' = c
  /\ due' = due \cup {Grant}
  /\ UNCHANGED <<live, agent, claim, before, slot, wakes, pass, crashes>>

\* retiring and restoring the project itself: no grant follows either
SetProject(on) ==
  /\ "project" \in Env
  /\ Unlocked
  /\ live # on
  /\ live' = on
  /\ UNCHANGED <<cap, agent, claim, before, slot, wakes, pass, due, crashes>>

\* a crash rolls the open transaction back and forgets what was promised;
\* startup re-checks the project and arms its dogs
Crash ==
  LET lost == {r \in Requests : claim[r].st = "creating"}
  IN /\ crashes < MaxCrashes
     /\ crashes' = crashes + 1
     /\ Forget(lost)
     /\ pass' = NoPass
     /\ due' = {j \in {Check} : Held # {} \/ \E r \in Requests : claim[r].st = "armed"}
               \cup {j \in {Grant} : \E r \in Requests : claim[r].st = "armed" /\ claim[r].owner # User}
     /\ UNCHANGED <<cap, live, agent, slot, wakes>>

-----------------------------------------------------------------------------
Work ==
  \/ GrantBegin \/ GrantCommit \/ ClaimCommit \/ ClaimRollback \/ CheckHolders \/ DropUnreached
  \/ \E r \in Requests : ClaimRefused(r) \/ ClaimBegin(r) \/ Insert(r) \/ Fire(r) \/ IdleReclaim(r)
  \/ \E r \in Requests, verb \in {"pause", "remove"} : ActWrite(r, verb)
  \/ \E a \in Agents : RecheckHolder(a) \/ DeathRead(a) \/ DeathEnd(a) \/ AfterMove(a)

Calls ==
  \/ \E r \in Requests, a \in Agents, n \in 1..MaxCap, inline \in BOOLEAN : CreateBegin(r, a, n, inline)
  \/ \E r \in Requests, n \in 1..MaxCap : SlotHold(r, n) \/ Edit(r, n)
  \/ \E r \in Requests : Release(r) \/ ReleaseUserHold(r) \/ SlotCancel(r) \/ ResumeSlot(r)
  \/ \E r \in Requests, verb \in {"pause", "remove"} : ActBegin(r, verb)
  \/ \E a \in Agents : SlotUnqueue(a) \/ Retire(a) \/ Rehire(a) \/ Move(a)
  \/ \E a \in Agents, on \in BOOLEAN : SetHalt(a, on) \/ UserHalt(a, on)
  \/ \E a \in Agents : FreezeTurn(a) \/ FreezeNoAccount(a) \/ FreezeStranded(a) \/ Thaw(a) \/ ContinueOn(a) \/ TurnDies(a)
  \/ \E c \in 0..MaxCap : SetSlots(c)
  \/ \E on \in BOOLEAN : SetProject(on)

Events ==
  \/ Crash \/ GrantFails
  \/ \E r \in Requests : FireFails(r) \/ IdleRemind(r) \/ IdlePage(r)

Next ==
  \/ Work
  \/ Events
  \/ Cardinality(due) < MaxDue /\ Calls

Spec == Init /\ [][Next]_vars
-----------------------------------------------------------------------------
(* Properties. *)

\* Over-allocation: whatever becomes of the slot count, leases are added only
\* while the whole of what is held stays within it (grant, claim_once).
CapacityKept ==
  [][Units(Held)' > Units(Held) => Units(Held)' <= cap']_vars

\* Double grant: a claim that has had its lease never gets another one, and
\* an active lease never changes its anchor (the memo's lease mark is set in
\* the grant's transaction).
GrantedOnce ==
  [][\A r \in Requests : claim[r].lease \/ claim[r].st = "inline"
                         => slot'[r] \in {0, slot[r]}]_vars

\* Two active leases never share an anchor (slot_no).
AnchorsDistinct ==
  \A r, s \in Held : slot[r] = slot[s] => r = s

\* Strict first come first served: a pass never grants a claim past another
\* one that it read ahead of it in the line, however small the later claim.
StrictFIFO ==
  [][\A r, s \in Requests :
       (slot[r] = 0 /\ slot'[r] # 0 /\ <<s, r>> \in before /\ s \in pass.waiting)
         => slot'[s] # 0]_vars

\* An agent stands in the line at most once, whatever retirements and rehires do to its
\* claims (admit, resume_slot).  A paused claim is outside the line: a pause that writes
\* late brings a removed claim back, as a paused one beside the claim that succeeded it,
\* and no resume may then let both in.
OneInLine ==
  \A a \in Agents : \A r, s \in Pending(a) :
    claim[r].st # "paused" /\ claim[s].st # "paused" => r = s

\* The user's hold ends by the user's release and by nothing else: not by a
\* reclaim, a death, a retirement or a crash.
UserHoldsLast ==
  [][\A r \in Requests : (claim[r].owner = User /\ slot[r] # 0 /\ slot'[r] = 0)
                          => ReleaseUserHold(r)]_vars

\* A recheck, move or death that will look at the project when it runs.
CheckComing ==
  \/ {Check, Drop} \cap due # {}
  \/ \E a \in Agents :  \/ <<"recheck", a>> \in due /\ Touches(a)
                        \/ <<"moved", a>> \in due /\ (HeldBy(a) \cup Pending(a)) # {}

DeathComing(a) == \/ <<"deathEnd", a>> \in due
                  \/ <<"death", a>> \in due /\ HeldBy(a) # {}

Waiting == {r \in Requests : Eligible(r)}

HeadFits(r) == /\ r \in Waiting
               /\ live
               /\ UpTo(r, Waiting) = {r}
               /\ claim[r].n <= cap - Units(Held)

\* Lost wakeup: while the first claim that may be granted fits in the free
\* slots, some caller still owes the project a grant pass.  So it is where every
\* change is followed by one (claims, releases, deaths, slot counts, moves,
\* retirements, halt_targets, thaw_matching); UserHalt, FreezeTurn, FreezeStranded,
\* ContinueOn, Edit, SetProject and a lost write are not.
NoLostWakeup ==
  (Unlocked /\ \E r \in Requests : HeadFits(r))
    => Grant \in due \/ CheckComing \/ \E a \in Agents : DeathComing(a)

\* Every grant reaches its owner: while a granted dog keeps its lease and has not fired,
\* its fire is owed, or a grant pass, or the open pass has found it; a crash between the
\* commit of a grant and its fires forgets neither (after_grants, grant_in, startup).
FireOwed ==
  \A r \in Requests : claim[r].st = "armed" /\ slot[r] # 0 /\ claim[r].owner # User
    => \/ <<"fire", r>> \in due \/ Grant \in due
       \/ pass.kind = "grant" /\ r \in pass.refire

\* A holder that is retired, halted by halt_targets, frozen for want of an account or
\* out of the project's line loses its lease: while it still has it, the recheck that
\* takes it back is owed (UserHalt and FreezeStranded run none).  The
\* rechecks read their projects without a lock (recheck_holder), so a lease that an
\* uncommitted inline claim, or a claim being removed, gets meanwhile is left to the
\* next one.
UnfitHolderLeaves ==
  \A r \in Held : Unfit(r) /\ claim[r].st \notin {"removed", "inline"}
                    => CheckComing \/ DeathComing(claim[r].owner)

-----------------------------------------------------------------------------
(* Fairness: the engine's tasks run, row locks are granted in arrival order *)
(* (hence strong fairness for the transactions that wait for one), and the  *)
(* checkup timer comes round for every running holder.                      *)

Fairness ==
  /\ WF_vars(GrantCommit \/ ClaimCommit \/ ClaimRollback)
  /\ SF_vars(GrantBegin) /\ SF_vars(CheckHolders) /\ SF_vars(DropUnreached)
  /\ \A r \in Requests : /\ SF_vars(ClaimRefused(r) \/ ClaimBegin(r) \/ Insert(r))
                         /\ WF_vars(Fire(r))
                         /\ SF_vars(IdleRemind(r) \/ IdlePage(r) \/ IdleReclaim(r))
  /\ \A r \in Requests, verb \in Env \cap {"pause", "remove"} : WF_vars(ActWrite(r, verb))
  /\ \A a \in Agents : /\ WF_vars(RecheckHolder(a)) /\ WF_vars(AfterMove(a))
                       /\ WF_vars(DeathRead(a)) /\ SF_vars(DeathEnd(a))

FairSpec == Spec /\ Fairness

\* No claim that could be granted waits for ever: idle holders are reminded
\* and then lose their lease, and each pass serves the head of the line.
WaitersServed ==
  \A r \in Requests : (Eligible(r) /\ live) ~> (~Eligible(r) \/ ~live \/ claim[r].n > cap)
=============================================================================
