---------------------------- MODULE ProjectQueue ----------------------------
(***************************************************************************)
(* The mail queues of projects (domain/projects.rs) and the relays between *)
(* them (domain/projects/relay.rs).  Mail to a project is a job that waits *)
(* in its queue; a hand-out gives each waiting job to one listener, the    *)
(* least recently served first.  In ACK mode the listener holds the job    *)
(* until it acknowledges it, and a job whose holder cannot run goes back   *)
(* to the front.  A project may itself listen on another project: a job it *)
(* takes is entered in its own queue, as a child of the first.             *)
(*                                                                         *)
(* Every operation commits and then runs the queues it touched, in a task  *)
(* of its own; the tasks interleave, and a crash loses them.               *)
(***************************************************************************)
EXTENDS Integers, Sequences, FiniteSets, SequencesExt

CONSTANTS
  Agents, User, None,   \* who holds jobs; nobody
  Projects,             \* numbered so that a relay leads to a higher number
  Listeners,            \* the fair_queue watchdogs: <<owner, project>>
  Once,                 \* the one-shot ones
  Batch,                \* their batch sizes
  FirstModes,           \* which projects may be in ACK mode at the start
  MaxAttempts,          \* scope.mail_queue_max_attempts
  Reminders,            \* scope.mail_queue_ack_reminders
  Tasks,                \* the tasks that may run queues at once
  MaxMail, MaxActs,     \* bounds: mails sent; acts of the user and mishaps of agents
  Env                   \* what the environment does: the names used as guards

Owners == Agents \cup Projects \cup {User}

ASSUME ProjectsAssumption == Projects \subseteq Nat
ASSUME OwnersAssumption == /\ Agents \cap Projects = {}
                           /\ User \notin Agents \cup Projects
                           /\ None \notin Owners /\ None \notin Listeners
\* R7: a relay that would close a loop is refused
ASSUME ListenersAssumption ==
  /\ Listeners \subseteq Owners \X Projects /\ IsFiniteSet(Listeners)
  /\ Once \subseteq {w \in Listeners : w[1] \notin Projects}
  /\ \A w \in Listeners : w[1] \in Projects => w[2] < w[1]
  /\ Batch \in [Listeners -> 1..20]
ASSUME NumbersAssumption == /\ MaxAttempts \in Nat \ {0}
                            /\ Reminders \in Nat /\ MaxActs \in Nat
                            /\ FirstModes \subseteq SUBSET Projects

VARIABLES
  jobs,     \* the projects' rows of ot.mail, in the order of their ids
  acking,   \* the projects in ACK mode
  dog,      \* the states of the watchdogs
  turns,    \* each project's watchdogs, least recently fired first
  halted,   \* the agents halted or frozen
  away,     \* the agents moved out of every project they listen to
  unrun,    \* history: the listeners made fit with no run of their queue, until it runs
  task,     \* the tasks that run queues
  acts      \* a bound

vars == <<jobs, acking, dog, turns, halted, away, unrun, task, acts>>

-----------------------------------------------------------------------------
(* Jobs. *)

\* waiting (pending); held or relayed (claimed, an ack is owed); passed (claimed,
\* no ack is owed); acked; dead and dropped letters; retracted; withdrawn
JobStates == {"waiting", "held", "relayed", "passed", "acked", "dead", "dropped",
              "retracted", "withdrawn"}

\* A claim is told from every other by `hands`, the number of the hand-out (the
\* claim's copy); a relay's is told by `child`.  The attempts are hands - base.
Rows == [at : Projects, st : JobStates, by : Owners \cup {None},
         hands : Nat, base : Nat, wakes : Nat, parent : Nat, child : Nat,
         revoked : BOOLEAN, retried : BOOLEAN, avoid : SUBSET Owners]

NewJob(p, parent) ==
  [at |-> p, st |-> "waiting", by |-> None, hands |-> 0, base |-> 0, wakes |-> 0,
   parent |-> parent, child |-> 0, revoked |-> FALSE, retried |-> FALSE, avoid |-> {}]

InState(p, S) == {j \in DOMAIN jobs : jobs[j].at = p /\ jobs[j].st \in S}

Waits(p) == InState(p, {"waiting"})

HeldBy(w) == {j \in InState(w[2], {"held"}) : jobs[j].by = w[1]}

\* the job that j was relayed from is still claimed for j, in one of the states S
Claimed(j, S) ==
  LET f == jobs[j].parent IN f \in DOMAIN jobs /\ jobs[f].child = j /\ jobs[f].st \in S

\* the jobs above j, from parent to parent for as long as they are claimed so
Above(j, S) ==
  {i \in DOMAIN jobs :
     \A A \in SUBSET (DOMAIN jobs) :
       (\A k \in A \cup {j} : Claimed(k, S) => jobs[k].parent \in A) => i \in A}

\* the jobs below j, along relayed_to
Below(j) ==
  {i \in DOMAIN jobs :
     \A A \in SUBSET (DOMAIN jobs) :
       (\A k \in A \cup {j} : jobs[k].child # 0 => jobs[k].child \in A) => i \in A}

-----------------------------------------------------------------------------
(* Listeners. *)

Relay(w) == w[1] \in Projects

Watching(p) == {w \in Listeners : w[2] = p /\ dog[w] = "armed"}

\* a halted or frozen agent still listens in round-robin
Fit(w) == w[1] \in Agents => w[1] \notin away /\ (w[2] \in acking => w[1] \notin halted)

\* what counts against its batch: for a relay what waits in its own queue
Used(w) == IF Relay(w) THEN Cardinality(Waits(w[1]))
           ELSE IF w[2] \in acking THEN Cardinality(HeldBy(w)) ELSE 0

\* mutant of Room: not stopped at zero
RoomUnclamped(w) == Batch[w] - Used(w)

\* what it can still be given
Room(w) == IF Used(w) < Batch[w] THEN Batch[w] - Used(w) ELSE 0

\* a held job whose holder is gone; a spent one-shot still listens for its job
Stale(j) ==
  /\ jobs[j].by \in Agents
  /\ \/ jobs[j].by \in halted \cup away
     \/ dog[<<jobs[j].by, jobs[j].at>>] = "paused"

-----------------------------------------------------------------------------
(* Tasks.  Each has a list of things to do; its first is done in steps. *)

Todo == {"run", "waive", "drop", "death"} \X Projects

NoRoom == [w \in {} |-> 0]

\* `rel`, the claims found stale; `room`, the listeners found eligible;
\* `to`, the projects relayed into; `who`, the agent whose turn died
Doing(todo, who) ==
  [todo |-> todo, at |-> "release", rel |-> {}, room |-> NoRoom, to |-> {}, who |-> who]

Idle == Doing(<<>>, None)

Run(p) == <<"run", p>>

Runs(s) == [i \in DOMAIN s |-> Run(s[i])]

Start(t, todo, who) ==
  /\ task[t] = Idle
  /\ task' = [task EXCEPT ![t] = Doing(todo, who)]

\* the queues of S, in some order
StartAll(t, S) == \E s \in SetToSeqs(S) : Start(t, Runs(s), None)

TargetsOf(o) == {p \in Projects : <<o, p>> \in Listeners}

At(t, kind) == task[t].todo # <<>> /\ Head(task[t].todo)[1] = kind

Here(t) == Head(task[t].todo)[2]

Running(t, step) == At(t, "run") /\ task[t].at = step

\* mutant of Locked: hand-outs take no row lock
LockedByNone(p) == FALSE

\* A hand-out holds the row of its project and those of the projects that relay from it.
Locked(p) == \E t \in Tasks : /\ Running(t, "deal")
                              /\ p = Here(t) \/ <<p, Here(t)>> \in DOMAIN task[t].room

\* The numbers of S, the least first, and the elements of s at the places P: what
\* SetToSortSeq and SelectSeq give, in a form that needs no recursion.
InOrder(S) == [k \in 1..Cardinality(S) |-> CHOOSE n \in S : Cardinality({m \in S : m <= n}) = k]

Select(s, P) == LET at == InOrder(P) IN [k \in DOMAIN at |-> s[at[k]]]

Without(s, S) == Select(s, {k \in DOMAIN s : s[k] \notin S})

\* The first thing to do is done; the queues of S, in order of their numbers, come next.
Done(t, S) == task' = [task EXCEPT ![t] = Doing(Runs(InOrder(S)) \o Tail(@.todo), @.who)]

Step(t, step, rel, room) ==
  task' = [task EXCEPT ![t].at = step, ![t].rel = rel, ![t].room = room]

\* The variables keep their types; a listener's room never falls below zero, though
\* its queue outgrows its batch.
TypeOK ==
  /\ jobs \in Seq(Rows)
  /\ acking \subseteq Projects
  /\ dog \in [Listeners -> {"armed", "paused", "spent"}]
  /\ turns \in [Projects -> Seq(Listeners)]
  /\ halted \subseteq Agents /\ away \subseteq Agents /\ unrun \subseteq Listeners
  /\ DOMAIN task = Tasks
  /\ \A t \in Tasks :
       /\ task[t] = [todo |-> task[t].todo, at |-> task[t].at, rel |-> task[t].rel,
                     room |-> task[t].room, to |-> task[t].to, who |-> task[t].who]
       /\ task[t].todo \in Seq(Todo)
       /\ task[t].at \in {"release", "reclaim", "hand", "deal"}
       /\ task[t].rel \subseteq (DOMAIN jobs) \X Nat
       /\ DOMAIN task[t].room \subseteq Listeners
       /\ \A w \in DOMAIN task[t].room : task[t].room[w] \in 0..Batch[w]
       /\ task[t].to \subseteq Projects
       /\ task[t].who \in Agents \cup {None}
  /\ acts \in 0..MaxActs

Init ==
  /\ jobs = <<>>
  /\ acking \in FirstModes
  /\ dog = [w \in Listeners |-> "armed"]
  /\ turns = [p \in Projects |-> SetToSeq({w \in Listeners : w[2] = p})]
  /\ halted = {} /\ away = {} /\ unrun = {}
  /\ task = [t \in Tasks |-> Idle]
  /\ acts = 0

-----------------------------------------------------------------------------
(* Running a queue: dispatch. *)

\* release_stale looks for claims whose holder is gone.
Release(t) ==
  /\ Running(t, "release")
  /\ LET p    == Here(t)
         gone == {j \in InState(p, {"held"}) : p \in acking /\ Stale(j)}
     IN  Step(t, IF gone = {} THEN "hand" ELSE "reclaim", {<<j, jobs[j].hands>> : j \in gone}, NoRoom)
  /\ UNCHANGED <<jobs, acking, dog, turns, halted, away, unrun, acts>>

\* mutant of Dead: the jobs above are left as they are
DeadAlone(S) == {j \in S : jobs[j].hands - jobs[j].base >= MaxAttempts}

\* A job with its last attempt used is a dead letter, and so are the jobs it was relayed from.
Dead(S) ==
  LET last == {j \in S : jobs[j].hands - jobs[j].base >= MaxAttempts}
  IN  last \cup UNION {Above(j, {"relayed", "passed"}) : j \in last}

\* reclaim_in: each other job of S goes back to the queue.
GaveBack(S) ==
  LET dead == Dead(S)
  IN  [i \in DOMAIN jobs |->
         IF i \in dead THEN [jobs[i] EXCEPT !.st = "dead", !.by = None, !.wakes = 0]
         ELSE IF i \in S THEN [jobs[i] EXCEPT !.st = "waiting", !.by = None, !.wakes = 0]
         ELSE jobs[i]]

\* mutant of StaleClaim: only the holder is judged again
StaleHolder(p, r) == p \in acking /\ Stale(r[1])

\* Is the claim r = <<job, hand-out>> that was found stale still there, and still stale?
StaleClaim(p, r) ==
  p \in acking /\ jobs[r[1]].st = "held" /\ jobs[r[1]].hands = r[2] /\ Stale(r[1])

\* One claim found stale is judged again, under the lock of the project.
Reclaim(t) ==
  /\ Running(t, "reclaim")
  /\ ~Locked(Here(t))
  /\ \E r \in task[t].rel :
       LET rest == task[t].rel \ {r}
       IN  /\ \A s \in rest : r[1] < s[1]
           /\ jobs' = IF StaleClaim(Here(t), r) THEN GaveBack({r[1]}) ELSE jobs
           /\ Step(t, IF rest = {} THEN "hand" ELSE "reclaim", rest, NoRoom)
  /\ UNCHANGED <<acking, dog, turns, halted, away, unrun, acts>>

\* hand_batch_in locks the project, and each that relays from it, and reads its listeners.
HandBegin(t) ==
  /\ Running(t, "hand")
  /\ LET W == {w \in Watching(Here(t)) : Fit(w)} IN
       /\ \A q \in {Here(t)} \cup {w[1] : w \in {v \in W : Relay(v)}} : ~Locked(q)
       /\ Step(t, "deal", {}, [w \in W |-> Room(w)])
       /\ unrun' = {w \in unrun : w[2] # Here(t)}
  /\ UNCHANGED <<jobs, acking, dog, turns, halted, away, acts>>

Least(S) == CHOOSE n \in S : \A m \in S : n <= m

Place(w) == Least({k \in DOMAIN turns[w[2]] : turns[w[2]][k] = w})

(* How the waiting jobs of p are dealt to listeners with the given room:   *)
(* each in turn to the least recently served that has room left, to one it *)
(* was not taken back from if there is one.                                *)
Deals(p, room) ==
  {given \in [Waits(p) -> DOMAIN room \cup {None}] :
     \A j \in Waits(p) :
       LET had(w)   == {i \in Waits(p) : i < j /\ given[i] = w}
           can      == {w \in DOMAIN room : Cardinality(had(w)) < room[w]}
           other    == {w \in can : w[1] \notin jobs[j].avoid}
           best     == IF other # {} THEN other ELSE can
           sooner(v, w) == IF had(w) = {} THEN had(v) = {} /\ Place(v) < Place(w)
                           ELSE \A i \in had(v) : \E k \in had(w) : i < k
       IN  IF best = {} THEN given[j] = None
           ELSE given[j] \in best /\ \A v \in best \ {given[j]} : ~sooner(v, given[j])}

\* the jobs dealt
Dealt(given) == {j \in DOMAIN given : given[j] # None}

\* what the deal makes of them; each that is relayed gets a child at the end
HandedOut(p, given) ==
  LET out     == Dealt(given)
      relayed == {j \in out : Relay(given[j])}
      child(j) == Len(jobs) + Cardinality({i \in relayed : i <= j})
      done    == IF p \in acking THEN {} ELSE UNION {Above(j, {"relayed"}) : j \in out}
      old     == [i \in DOMAIN jobs |->
                    IF i \in out
                    THEN [jobs[i] EXCEPT !.st = IF p \notin acking THEN "passed"
                                                ELSE IF i \in relayed THEN "relayed" ELSE "held",
                                         !.by = given[i][1], !.hands = @ + 1, !.wakes = 0,
                                         !.child = IF i \in relayed THEN child(i) ELSE @]
                    ELSE IF i \in done THEN [jobs[i] EXCEPT !.st = "acked"] ELSE jobs[i]]
      new(n)  == LET j == CHOOSE i \in relayed : child(i) = Len(jobs) + n IN NewJob(given[j][1], j)
  IN  old \o [n \in 1..Cardinality(relayed) |-> new(n)]

\* those that were given nothing keep their order, the others follow, as each was served last
Served(p, given) ==
  LET last == InOrder({j \in Dealt(given) : \A i \in Dealt(given) : given[i] = given[j] => i <= j})
  IN  Without(turns[p], {given[j] : j \in Dealt(given)}) \o [k \in DOMAIN last |-> given[last[k]]]

\* another hand-out of the same queue follows; the projects of S took a job
NextHand(t, S) ==
  task' = [task EXCEPT ![t] = [Doing(task[t].todo, task[t].who) EXCEPT !.at = "hand", !.to = task[t].to \cup S]]

\* The hand-out commits, and another follows until one gives nothing; then the
\* queues of the projects that took a job run.
HandCommit(t) ==
  /\ Running(t, "deal")
  /\ LET p == Here(t) IN
     \E given \in Deals(p, task[t].room) :
       LET got == {given[j] : j \in Dealt(given)} IN
       IF got = {}
       THEN /\ Done(t, task[t].to)
            /\ UNCHANGED <<jobs, dog, turns>>
       ELSE /\ jobs' = HandedOut(p, given)
            /\ dog' = [w \in Listeners |-> IF w \in got \cap Once THEN "spent" ELSE dog[w]]
            /\ turns' = [turns EXCEPT ![p] = Served(p, given)]
            /\ NextHand(t, {w[1] : w \in {v \in got : Relay(v)}})
  /\ UNCHANGED <<acking, halted, away, unrun, acts>>

-----------------------------------------------------------------------------
(* Mail and acknowledgements. *)

\* mail::send to a project, then its queue runs
Send(t, p) ==
  /\ Cardinality({j \in DOMAIN jobs : jobs[j].parent = 0}) < MaxMail
  /\ jobs' = Append(jobs, NewJob(p, 0))
  /\ Start(t, <<Run(p)>>, None)
  /\ UNCHANGED <<acking, dog, turns, halted, away, unrun, acts>>

\* j is acknowledged, and so are the jobs it was relayed from (relay::settle)
Acked(j) == LET up == Above(j, {"relayed"}) IN
  [i \in DOMAIN jobs |-> IF i \in up \cup {j} THEN [jobs[i] EXCEPT !.st = "acked"] ELSE jobs[i]]

\* mutant of AckRuns: for a relayed job, only the queue above runs
AckRunsParent(j) == IF jobs[j].parent = 0 THEN <<Run(jobs[j].at)>>
                    ELSE <<Run(jobs[jobs[j].parent].at)>>

\* The queues that run after an ack: the job's, then that of the project it was relayed from.
AckRuns(j) == <<Run(jobs[j].at)>>
              \o (IF jobs[j].parent = 0 THEN <<>> ELSE <<Run(jobs[jobs[j].parent].at)>>)

\* An agent acknowledges its job: no project is locked.
Ack(t, j) ==
  /\ jobs[j].st = "held" /\ jobs[j].by \in Agents
  /\ jobs' = Acked(j)
  /\ Start(t, AckRuns(j), None)
  /\ UNCHANGED <<acking, dog, turns, halted, away, unrun, acts>>

\* op user_job_ack
UserAck(t, j) ==
  /\ jobs[j].st = "held" /\ jobs[j].by = User
  /\ ~Locked(jobs[j].at)
  /\ jobs' = [jobs EXCEPT ![j].st = "acked"]
  /\ Start(t, <<Run(jobs[j].at)>>, None)
  /\ UNCHANGED <<acking, dog, turns, halted, away, unrun, acts>>

\* ack_timeouts, for one of the jobs an agent holds: another reminder
Remind(j) ==
  /\ "remind" \in Env
  /\ jobs[j].st = "held" /\ jobs[j].by \in Agents /\ jobs[j].at \in acking
  /\ ~Locked(jobs[j].at)
  /\ jobs[j].wakes < Reminders
  /\ jobs' = [jobs EXCEPT ![j].wakes = @ + 1]
  /\ UNCHANGED <<acking, dog, turns, halted, away, unrun, task, acts>>

\* or the job is taken back
TimeOut(t, j) ==
  /\ "remind" \in Env
  /\ jobs[j].st = "held" /\ jobs[j].by \in Agents /\ jobs[j].at \in acking
  /\ ~Locked(jobs[j].at)
  /\ jobs[j].wakes >= Reminders
  /\ jobs' = GaveBack({j})
  /\ Start(t, <<Run(jobs[j].at)>>, None)
  /\ UNCHANGED <<acking, dog, turns, halted, away, unrun, acts>>

-----------------------------------------------------------------------------
(* What the user and the superiors do with jobs. *)

Act == acts < MaxActs /\ acts' = acts + 1

\* op mail_take_back of a job an agent holds
TakeBack(t, j) ==
  /\ "takeback" \in Env /\ Act
  /\ jobs[j].st = "held" /\ jobs[j].by \in Agents /\ jobs[j].at \in acking
  /\ ~Locked(jobs[j].at)
  /\ jobs' = [GaveBack({j}) EXCEPT ![j].avoid = @ \cup {jobs[j].by}]
  /\ Start(t, <<Run(jobs[j].at)>>, None)
  /\ UNCHANGED <<acking, dog, turns, halted, away, unrun>>

\* mutant of Withdrawn: only what nobody holds is told
WithdrawnWaiting(i) == IF jobs[i].st = "waiting" \/ jobs[i].by \in Projects
                       THEN [jobs[i] EXCEPT !.revoked = TRUE, !.st = "withdrawn", !.by = None]
                       ELSE jobs[i]

\* What becomes of a job below one that is taken back: its holder is told that it is
\* revoked, and one that nobody holds is withdrawn.
Withdrawn(i) == IF jobs[i].st = "waiting" \/ jobs[i].by \in Projects
                THEN [jobs[i] EXCEPT !.revoked = TRUE, !.st = "withdrawn", !.by = None]
                ELSE [jobs[i] EXCEPT !.revoked = TRUE]

\* of a job a relay took: the jobs below it are revoked, and no queue runs
RelayTakeBack(j) ==
  /\ "takeback" \in Env /\ Act
  /\ jobs[j].st = "relayed" /\ jobs[j].at \in acking
  /\ ~Locked(jobs[j].at)
  /\ \A i \in Below(j) : jobs[i].st = "waiting" => ~Locked(jobs[i].at)
  /\ jobs' = [i \in DOMAIN jobs |->
                 IF i = j THEN [jobs[i] EXCEPT !.st = "waiting", !.by = None, !.wakes = 0,
                                               !.child = 0, !.avoid = @ \cup {jobs[i].by}]
                 ELSE IF i \in Below(j) THEN Withdrawn(i) ELSE jobs[i]]
  /\ UNCHANGED <<acking, dog, turns, halted, away, unrun, task>>

\* dead_letters::retry
Retry(t, j) ==
  /\ "letters" \in Env /\ Act
  /\ jobs[j].st = "dead"
  /\ ~Locked(jobs[j].at)
  /\ jobs' = [jobs EXCEPT ![j].st = "waiting", ![j].base = jobs[j].hands, ![j].retried = TRUE]
  /\ Start(t, <<Run(jobs[j].at)>>, None)
  /\ UNCHANGED <<acking, dog, turns, halted, away, unrun>>

\* dead_letters::drop_letter
DropLetter(j) ==
  /\ "letters" \in Env
  /\ jobs[j].st = "dead"
  /\ ~Locked(jobs[j].at)
  /\ jobs' = [jobs EXCEPT ![j].st = "dropped"]
  /\ UNCHANGED <<acking, dog, turns, halted, away, unrun, task, acts>>

\* op purge_mail_queue
Purge(p) ==
  /\ "purge" \in Env /\ Act
  /\ Waits(p) # {}
  /\ ~Locked(p)
  /\ jobs' = [i \in DOMAIN jobs |-> IF i \in Waits(p) THEN [jobs[i] EXCEPT !.st = "retracted"] ELSE jobs[i]]
  /\ UNCHANGED <<acking, dog, turns, halted, away, unrun, task>>

\* op set_mail_queue; mode_changed follows its commit
SetMode(t, p) ==
  /\ "mode" \in Env /\ Act
  /\ ~Locked(p)
  /\ acking' = IF p \in acking THEN acking \ {p} ELSE acking \cup {p}
  /\ Start(t, IF p \in acking THEN <<<<"waive", p>>, Run(p)>> ELSE <<Run(p)>>, None)
  /\ UNCHANGED <<jobs, dog, turns, halted, away, unrun>>

\* leaving ACK mode waives the acks owed
Waive(t) ==
  /\ At(t, "waive")
  /\ jobs' = [i \in DOMAIN jobs |-> IF i \in InState(Here(t), {"held", "relayed"})
                                     THEN [jobs[i] EXCEPT !.st = "passed"] ELSE jobs[i]]
  /\ Done(t, {})
  /\ UNCHANGED <<acking, dog, turns, halted, away, unrun, acts>>

-----------------------------------------------------------------------------
(* Listeners and holders. *)

\* An agent's watchdog is paused or removed: recheck_holder follows.  The user may
\* leave a queue, and a relay be paused: nothing follows.
Pause(t, w) ==
  /\ "dogs" \in Env /\ Act
  /\ dog[w] = "armed"
  /\ dog' = [dog EXCEPT ![w] = "paused"]
  /\ IF w[1] \in Agents THEN StartAll(t, TargetsOf(w[1])) ELSE UNCHANGED task
  /\ UNCHANGED <<jobs, acking, turns, halted, away, unrun>>

\* An armed watchdog keeps its place; the user joins with a new one, before those served.
Places(w) == LET rest == Without(turns[w[2]], {w}) IN
             IF w[1] = User THEN {InsertAt(rest, i, w) : i \in 1..(Len(rest) + 1)}
             ELSE {turns[w[2]]}

\* A watchdog is armed, or the user joins again: its queue runs.
Resume(t, w) ==
  /\ dog[w] = "paused"
  /\ dog' = [dog EXCEPT ![w] = "armed"]
  /\ \E s \in Places(w) : turns' = [turns EXCEPT ![w[2]] = s]
  /\ Start(t, <<Run(w[2])>>, None)
  /\ UNCHANGED <<jobs, acking, halted, away, unrun, acts>>

\* halt_targets, or no allowed account left: recheck_holder follows
Halt(t, a) ==
  /\ "halt" \in Env /\ Act
  /\ a \notin halted
  /\ halted' = halted \cup {a}
  /\ StartAll(t, TargetsOf(a))
  /\ UNCHANGED <<jobs, acking, dog, turns, away, unrun>>

\* halt_targets lifts the halt, or thaw_matching thaws the agent: recheck_holder follows
Unhalt(t, a) ==
  /\ a \in halted
  /\ halted' = halted \ {a}
  /\ StartAll(t, TargetsOf(a))
  /\ UNCHANGED <<jobs, acking, dog, turns, away, unrun, acts>>

\* The user halts one agent, or its account is removed: nothing follows.
HaltAlone(a) ==
  /\ "alone" \in Env /\ Act
  /\ a \notin halted
  /\ halted' = halted \cup {a}
  /\ UNCHANGED <<jobs, acking, dog, turns, away, unrun, task>>

\* The user lifts the halt of one agent, or it goes on with another account
\* (continue_on): nothing follows.
ContinueOn(a) ==
  /\ "alone" \in Env
  /\ a \in halted
  /\ halted' = halted \ {a}
  /\ unrun' = unrun \cup {w \in Listeners : w[1] = a /\ w[2] \in acking}
  /\ UNCHANGED <<jobs, acking, dog, turns, away, task, acts>>

\* what after_move does, project by project
AfterMove(s) == [k \in 1..(2 * Len(s)) |-> IF k % 2 = 1 THEN <<"drop", s[(k + 1) \div 2]>> ELSE Run(s[k \div 2])]

\* moved out of its projects, or back: after_move follows
Move(t, a) ==
  /\ "move" \in Env /\ Act
  /\ away' = IF a \in away THEN away \ {a} ELSE away \cup {a}
  /\ Start(t, AfterMove(InOrder(TargetsOf(a))), None)
  /\ UNCHANGED <<jobs, acking, dog, turns, halted, unrun>>

\* drop_unreached_dogs
DropDogs(t) ==
  /\ At(t, "drop")
  /\ ~Locked(Here(t))
  /\ dog' = [w \in Listeners |->
               IF w[2] = Here(t) /\ w[1] \in away /\ dog[w] = "armed" THEN "paused" ELSE dog[w]]
  /\ Done(t, {})
  /\ UNCHANGED <<jobs, acking, turns, halted, away, unrun, acts>>

\* a's turn dies while it holds a job of p, and may freeze a: release_after_death
\* follows
Die(t, a, p) ==
  /\ "die" \in Env /\ Act
  /\ \E j \in InState(p, {"held"}) : jobs[j].by = a
  /\ \E frozen \in SUBSET {a} : halted' = halted \cup frozen
  /\ Start(t, <<<<"death", p>>>>, a)
  /\ UNCHANGED <<jobs, acking, dog, turns, away, unrun>>

\* release_in: its jobs go back, and the queue runs if there were any
DeathRelease(t) ==
  /\ At(t, "death")
  /\ ~Locked(Here(t))
  /\ LET held == {j \in InState(Here(t), {"held"}) : jobs[j].by = task[t].who}
     IN  jobs' = GaveBack(held) /\ Done(t, IF held = {} THEN {} ELSE {Here(t)})
  /\ UNCHANGED <<acking, dog, turns, halted, away, unrun, acts>>

\* The engine stops and starts again: the queues with an armed watchdog of an agent
\* or a project run.
Crash(t) ==
  /\ "crash" \in Env /\ Act
  /\ \E s \in SetToSeqs({w[2] : w \in {v \in Listeners : dog[v] = "armed" /\ v[1] # User}}) :
       task' = [u \in Tasks |-> IF u = t THEN Doing(Runs(s), None) ELSE Idle]
  /\ UNCHANGED <<jobs, acking, dog, turns, halted, away, unrun>>

-----------------------------------------------------------------------------
Queue(t) ==
  Release(t) \/ Reclaim(t) \/ HandBegin(t) \/ HandCommit(t) \/ Waive(t) \/ DropDogs(t) \/ DeathRelease(t)

Job(t, j) == Ack(t, j) \/ UserAck(t, j) \/ TimeOut(t, j) \/ TakeBack(t, j) \/ Retry(t, j)

Next ==
  \/ \E t \in Tasks :
       \/ Queue(t)
       \/ Crash(t)
       \/ \E j \in DOMAIN jobs : Job(t, j)
       \/ \E p \in Projects : Send(t, p) \/ SetMode(t, p)
       \/ \E w \in Listeners : Pause(t, w) \/ Resume(t, w)
       \/ \E a \in Agents : Halt(t, a) \/ Unhalt(t, a) \/ Move(t, a) \/ (\E p \in Projects : Die(t, a, p))
  \/ \E j \in DOMAIN jobs : Remind(j) \/ RelayTakeBack(j) \/ DropLetter(j)
  \/ \E p \in Projects : Purge(p)
  \/ \E a \in Agents : HaltAlone(a) \/ ContinueOn(a)

Spec == Init /\ [][Next]_vars

-----------------------------------------------------------------------------
(* Properties. *)

\* Somebody works on the job, or will.
Open(j) == jobs[j].st \in {"waiting", "held"} /\ ~jobs[j].revoked

\* One heir: a job that was relayed is done by one child at a time.  While a child waits
\* or is held, and was not revoked or retried as a dead letter, the job above is still
\* claimed for it, over give-backs, dead letters, purges and switches of mode, so no
\* second listener works on the same mail (relay::take_back, relay::settle).
HeirLinked ==
  \A j \in DOMAIN jobs :
    Open(j) /\ ~jobs[j].retried /\ jobs[j].parent # 0 => Claimed(j, {"relayed", "passed"})

\* A relayed job is settled with its child: while it is claimed with an ack owed its
\* child is neither a dead letter nor acknowledged by an agent, in whatever order acks,
\* deaths and switches of mode meet (relay::settle, dead_lettered).  The user's own ack
\* settles nothing above it.
RelaySettles ==
  \A j \in DOMAIN jobs :
    jobs[j].st = "relayed" =>
      LET c == jobs[jobs[j].child] IN
      c.st \notin {"dead", "dropped"} /\ (c.st = "acked" => c.by = User)

Quiet == \A t \in Tasks : task[t] = Idle

\* No lost wakeup: when no queue runs, no mail waits while a listening agent has room
\* for it.  Each operation that makes room, and halt_targets, thaw_matching and
\* after_move when they make an agent fit, have run the queue afterwards (dispatch,
\* after_reclaim, recheck_holder).  Only continue_on and the user's lift of one halt
\* have not, and the mail may wait for that agent (unrun) until its queue runs for
\* another reason; the take-back from a relay has not either.
NoIdleListener ==
  Quiet => \A w \in Listeners \ unrun : \A j \in Waits(w[2]) :
    ~(w[1] \in Agents /\ dog[w] = "armed" /\ Fit(w) /\ Room(w) > 0 /\ jobs[j].avoid \cap Projects = {})

\* In ACK mode nobody holds more jobs than its batch, though hand-outs of several tasks
\* each count what is held before they give (hand_batch_in).
BatchKept == \A w \in Listeners : ~Relay(w) => Cardinality(HeldBy(w)) <= Batch[w]

\* An acknowledged job is never handed out again: a give-back or timeout that was
\* decided before the ack leaves it alone (reclaim_in); a take-back from the relay above
\* may still withdraw it.
AckFinal == [][\A j \in DOMAIN jobs : jobs[j].st = "acked" => jobs'[j].st \in {"acked", "withdrawn"}]_vars

\* "A holder that cannot run gives its holdings back at once"
\* (docs/projects-and-watchdogs.md:86): when no queue runs, nobody who is halted, moved
\* out or no longer listens holds a job in ACK mode.
HolderFit == Quiet => \A j \in DOMAIN jobs : jobs[j].st = "held" /\ jobs[j].at \in acking => ~Stale(j)

-----------------------------------------------------------------------------
(* The inductive invariant of the proofs. *)

\* the holder of a held job is no project, that of a relayed one is
HoldersKnown ==
  \A j \in DOMAIN jobs : /\ jobs[j].st = "held" => jobs[j].by \in Owners \ Projects
                         /\ jobs[j].st = "relayed" => jobs[j].by \in Projects

\* a job's child came after it
ChildrenLater ==
  \A j \in DOMAIN jobs : jobs[j].child # 0 => jobs[j].child \in DOMAIN jobs /\ jobs[j].child > j

\* a relayed job and its child name each other
RelaysLinked ==
  \A j \in DOMAIN jobs :
    jobs[j].st = "relayed" => jobs[j].child \in DOMAIN jobs /\ jobs[jobs[j].child].parent = j

\* somebody works on the job, or on one below it
Live(j) == /\ jobs[j].st \in {"waiting", "held", "relayed"}
           /\ ~jobs[j].revoked /\ ~jobs[j].retried /\ jobs[j].parent # 0

\* HeirLinked, for the jobs between as well
LiveLinked == \A j \in DOMAIN jobs : Live(j) => Claimed(j, {"relayed", "passed"})

TaskRows == \A t \in Tasks : task[t] = [todo |-> task[t].todo, at |-> task[t].at, rel |-> task[t].rel,
                                        room |-> task[t].room, to |-> task[t].to, who |-> task[t].who]

\* the claims found stale are of jobs there are
ClaimsKnown == \A t \in Tasks : \A r \in task[t].rel : r[1] \in DOMAIN jobs

\* what a hand-out means to give still fits in the batches
RoomCounted ==
  \A t \in Tasks : Running(t, "deal") =>
    \A w \in DOMAIN task[t].room :
      /\ w \in Listeners /\ w[2] = Here(t) /\ task[t].room[w] \in Nat
      /\ Here(t) \in acking /\ ~Relay(w) => Cardinality(HeldBy(w)) + task[t].room[w] <= Batch[w]

\* the project's lock
OneHandOut ==
  \A t, u \in Tasks : Running(t, "deal") /\ Running(u, "deal") /\ Here(t) = Here(u) => t = u

IInv == /\ jobs \in Seq(Rows) /\ HoldersKnown /\ ChildrenLater /\ RelaysLinked /\ LiveLinked /\ RelaySettles
        /\ DOMAIN task = Tasks /\ TaskRows /\ ClaimsKnown /\ OneHandOut /\ RoomCounted /\ BatchKept
=============================================================================
