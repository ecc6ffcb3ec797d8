# orgtree: TLA+ models, checks and proofs

This directory models the parts of orgtree whose correctness rests on an order of steps that no
test forces: who gets a concurrency slot of a project and when it is given back, who gets a project's
mail and must acknowledge it, and who gets a turn and when, in the Rust engine (`src/engine/rs/orgtree-engine`) and in the Python engine
(`src/engine/backend/orgtree`), which keeps its turns in memory or in two databases. The modules are
written from the code, each definition from the lines that `PROJECT.json` ("map") names. TLC checks
small instances; TLAPS proves the main safety properties for every value of the constants.

## 1. The system

orgtree runs organisations of agents, which do their work in *turns*, read mail, keep watchdogs, and
belong to *projects*, which give them mail queues, event streams and concurrency slots. The repository
holds two engines. In the Rust engine agents are rows of a PostgreSQL database and actors (tasks) of one
process. The Python engine runs each turn in a thread of a supervisor, over a file store or, with
`orgdb`, over one database per org and one app database that all engine processes of the machine share.

| component | state it keeps | operations | what makes it correct |
|---|---|---|---|
| concurrency slots (`domain/slots.rs`) | lease rows, the memo of `slot` watchdogs, `scope.slots_capacity` | claim inline, queue, grant, release, check, idle reclaim, re-check at start | never over capacity, one lease per claim, strict first come first served, no lost wakeup, unfit holders lose their leases |
| watchdogs (`runtime/watchdogs.rs`, `immediate.rs`, `edit.rs`) | dog rows with a state and a memo | create, fire, pause, resume, remove, edit, shelve and re-arm with the owner | a dog fires once per grant; each way back into the line is admitted |
| operations and effects (`domain/ops.rs`) | `Effects`, in memory between a commit and what follows it | set slots, retire, rehire, restore, release, unqueue | what a commit promised is done |
| holdings (`domain/holdings.rs`) | leases and un-acked jobs of an agent | release after a death, after a move | a dead agent keeps nothing |
| turn scheduler (`runtime/sched.rs`) | atomics `limit`, `held`; per-org queues, a rotation, lanes, idle processes, in one task | want, cancel, released, limit, parked, unparked | at most `limit` turns, lanes within caps, fair between orgs, no idle slot |
| agent actor (`runtime/actor.rs`) | phase, the slot, the model load in flight, mail | wake, take a turn, halt, stop, freeze | a wait ends, a slot is dropped once, late answers do no harm |
| freezes, accounts, halts (`freeze.rs`, `org_accounts.rs`, `domain/account_removal.rs`, `tools/control.rs`, `http/nodes.rs`) | `agents.frozen`, `agents.halt` | freeze, thaw, halt, unhalt | those who stop running stop holding |
| project mail queue, relay, dead letters (`domain/projects.rs`, `projects/relay.rs`, `dead_letters.rs`) | custody of each mail, listeners, reminders | hand out, acknowledge, reclaim, relay, bury | each mail has one holder, in order, to its end |
| project events, listener watches (`domain/listeners.rs`) | staged fires, delivery pages | fire, deliver by page, resume after a crash | no listener skipped or served twice |
| checkup pages (`domain/checkup_pages.rs`), reminders (`reminders.rs`) | a durable cursor per agent | next page, working checkup | every holding comes round |
| turn recovery (`recovery.rs`, `rate_limit.rs`) | retry counts, parks | retry, park, give up | bounded retries |
| mailboxes, deliveries, staging, inter-org inbox | mail rows and their states | send, stage, deliver, acknowledge | nothing lost, nothing twice |
| questions, docket, templates, tree, scopes, audiences, staffing, budgets, undo | rows under one transaction each | edits | mostly sequential rules |
| core monitor (`core_monitor.rs`, `core_recovery.rs`) | owner record, restart budget | admit, restart | one owner, bounded restarts |
| mail hub, network, providers, HTTP, feed, credentials, storage | I/O | | outside the models |
| durable turn admission, Python (`turnqueue.py`, `turnslots.py`, `orgdb/turn_*.py`, `orgdb/jobs.py`) | `turn_requests` and `jobs` in each org, `turn_tickets`, `turn_admission`, `turn_queue_orgs`, `turn_recovery`, `engine_instances` in the app database; retained cleanups in each process | create, queue, forward, enqueue, claim, activate, finish, cancel, acknowledge, abandon, fence, reclaim | a slot covers its provider, one provider per agent, nothing is published without a slot, both halves of a turn end |
| in-memory turn slots, Python (`turnslots.FairSlots`, `supervisor._InterruptibleTurnSlot`, `halt.py`) | a condition variable, queues and a ring of orgs, per-agent flags and banners | acquire, release, set limit, wake, interrupt, halt | no slot lost or idle, no waiter asleep through its grant or cancel, fair between orgs |
| Python supervisor, ledger, store, API, warm pool | JSONL and SQLite stores, threads, processes | turns, mail, halts, undo, HTTP | modelled only where they touch the turn slots |

### How they meet

* **Row locks.** A transaction that changes leases takes the project's row `FOR NO KEY UPDATE`;
  pausing, removing and unqueueing a claim, halting and freezing an agent do not. Mail queues take the
  same row, and with it those of the projects that relay from the queue; an acknowledgement takes none.
* **Relays.** A project may listen on another's mail queue. A job it takes gets a child in its own queue, and
  each end of the child (an ack, a dead letter, a take-back) is written to the job above in the same transaction.
* **Effects after a commit.** An operation returns `Effects`; grants, rechecks and moves are run
  after its commit, from memory. A crash forgets them; startup re-checks every project instead.
* **One channel.** Agents talk to the scheduler's task over one unbounded channel; a slot given
  back lowers an atomic count at once and posts a message afterwards.
* **Two databases and a bridge.** A Python turn is a request row in its org and a ticket row in the app
  database. Each change commits in the org first and marks the row `app_pending`; the caller forwards it at
  once, and a bridge in every process forwards whatever is still pending, late or again. `turn_recovery`
  fences the orgs of a dead process between the two halves of its recovery.
* **One condition variable.** The in-memory slots wake every waiter with `notify_all`, and a waiter reads
  its own cancel flag under the lock. Flags are set outside it, so whoever sets one must call `wake`
  afterwards.
* **Callbacks.** A grant fires the claim's dog, which wakes its owner; the end of a turn gives
  back what died with it.

### What is hard

A grant pass reads a line that others edit without its lock. A claim that did not win inline
is admitted a second time in a later transaction. A granted dog is armed until it has been fired. An
effect is lost in a crash or by a failed transaction. A late slot answers an earlier wait. The count of turns
and the release message are seen apart. A job is taken back while its holder acknowledges it; two hand-outs of one queue
count the same holder; a relayed job and its child live in two queues. A turn's two halves commit apart, any process may crash in between, and
a reply may be lost after its commit. A cancel meets a claim, an activation, a grant or the end of the turn. `PROJECT.json` lists each of these under "hazards"
at its line, with the property that would catch it.

## 2. Modules

| module | models | role |
|---|---|---|
| `Slots` | `slots.rs` whole; the slot part of `watchdogs*`, `holdings.rs`, `ops.rs`, `user_regs.rs`, `freeze.rs`, `org_accounts.rs`, `account_removal.rs`, `control.rs`, `http/nodes.rs`, `projects.rs` | detailed specification |
| `PermitPool` | what slots promise: takers served whole, once, while all fits | abstract specification |
| `SlotsPool` | the refinement mapping (`Pool == INSTANCE PermitPool WITH ...`) and the inductive invariant `IInv` | refinement |
| `TurnSched` | `sched.rs` and how `actor.rs` asks for, gets and drops turn slots | detailed specification |
| `ProjectQueue` | `projects.rs` and `projects/relay.rs`; `dead_letters.rs`; the queue part of `mail.rs`, `holdings.rs`, `ops.rs`, `user_regs.rs`, `watchdogs.rs` | detailed specification, and the inductive invariant of its proofs |
| `TurnTickets` | `turnqueue.py`, `orgdb/turn_requests.py`, `turn_forwarder.py`, `turn_runtime.py`, the start jobs of `jobs.py`, `DatabaseSlots` of `turnslots.py` | detailed specification |
| `TurnLeases` | what turn admission promises of each turn: asked, held under the limit, ended for good, one provider within it | abstract specification |
| `FairSlots` | `FairSlots` of `turnslots.py`, the turn's slot and the limit in `supervisor.py`, the flag and wake of `halt.py` | detailed specification |
| `MCSlots`, `MCTurnSched`, `MCTurnTickets`, `MCFairSlots`, `MCProjectQueue` | symmetry sets and constant values | TLC instances |
| `SlotsProofs`, `SlotsSafetyProofs`, `SlotsWakeupsProofs`, `SlotsPoolProofs`, `TurnSchedProofs`, `TurnTicketsProofs`, `FairSlotsProofs`, `ProjectQueueProofs` | | TLAPS proofs |

### Slots

A *request* is the identity of one claim in a behaviour: a create call, then perhaps a dog, perhaps a lease.

| variable | in the code |
|---|---|
| `cap`, `live` | `scope.slots_capacity`, the project row's state |
| `agent` | `live`, `halt`, `frozen` of the agent's row; `reach` is what the tree or an audience gives |
| `claim` | the dog's state, its owner, `memo.slots` (`n`), the create-time reach grant (`via`), `memo.lease` (`lease`); `"creating"` is a call before its insert, `"inline"` a lease got without a dog, `"shelved"` a dog paused with its archived owner |
| `before` | the order `queued_at, id` |
| `slot`, `wakes` | the active lease's `slot_no` and its counted idle reminders |
| `pass` | the open grant transaction: which dogs it found granted and not fired (`refire`), and the line it read (`waiting`) |
| `due` | calls and effects between two of their steps: a grant, check, drop, a fire, the write of a pause, a recheck, a death, the effects of a move |
| `crashes` | a bound |

A step is one transaction, one autocommitted statement or one unlocked read. A grant is two
steps, `GrantBegin` (lock and read) and `GrantCommit` (write and commit), so that everything that does not
take the project's row lock can come between; all other locked transactions are one step guarded by `Unlocked`.
An inline claim is `CreateBegin`, then `ClaimBegin` (admission, the candidate among the waiting), then
`ClaimCommit` or `ClaimRollback`, then `Insert` with its own admission. `Winners` says
which claims a pass grants: an initial segment of the line, as long as it fits; `Anchors` gives the
lowest free `slot_no`s.

The idle reclaim is `IdlePage`, which reads without a lock that a lease is due, and `IdleReclaim`, which ends it under the lock, if nobody
has ended it in between, and then owes a pass.

An agent stops and goes on in eight ways, and the code does not follow all of them with the same work. A recheck follows a halt or unhalt by `halt_targets` (`SetHalt`), a freeze for want
of an account (`FreezeNoAccount`) and a thaw by `thaw_matching` (`Thaw`). A freeze at the end of a turn (`FreezeTurn`) only gives back what is held. Nothing follows `continue_on` and the other changes of
account that thaw (`ContinueOn`), the freeze of an agent whose account was removed (`FreezeStranded`), and the user's halt and unhalt of one agent (`UserHalt`).

`due` is a set: two grants owed to the project are one. This drops only repetitions of a pass that reads the
state when it runs. The state of the owner that a resume checks is read in the same step as its
write. The tree is not modelled: `Move` flips whether an agent reaches the project. Event history and status pages only read.

`Env` names what the environment does in an instance (`"halt"`, `"resume"`, `"dbfail"` ...). It is how runs
that must hold are kept apart from the divergences of section 6; it is a guard of calls, never a
change of what a call does.

### TurnSched

| variable | in the code |
|---|---|
| `limit`, `held` | the atomics of `Scheduler` |
| `queue`, `rotation`, `lanes`, `chan`, `pc` | the locals of `start`, its inbox, and whether it is at `recv` or in the grant loop |
| `phase`, `seat` | the actor's `waiting_since` or slot, and the server of the agent's model |
| `slot` | each `Slot` object, from its grant to the task's reading of its release |

Dropping a slot is two steps: `held` falls (`Dropping`), the message is sent (`Post`). An actor does nothing
else in between (`Able`), since `Drop` is synchronous; the task may. A want on a server that loads a
model is waited for by a task the agent can abort ("tracked"); `on_slot` and `on_warm_failed` forget
the handle of that task, which may be a later one ("free", "loose"). `SetLimit` stores and posts in one step:
the task reads the limit only in its loop. A lane's cap is a constant.

### TurnTickets

| variable | in the code |
|---|---|
| `req`, `pending`, `job` | `turn_requests.state` and `app_pending`, the state of the `start_turn` job |
| `versions` | the versions of a request that were committed with `app_pending`: what some forwarder may still hold in memory |
| `ok` | a forward of the current version has returned true, and its `app_synced` is still to come |
| `ticket`, `order`, `ring`, `last`, `limit`, `fences` | `turn_tickets.state` and `id`, `turn_queue_orgs.position`, `turn_admission`, `turn_recovery` |
| `host` | an engine process: up, crashed, killed (the guardian has verified that its tree is dead), dead (`dead_at`) |
| `pc`, `due` | where the caller of a turn is between two transactions; what a failed acquire left to be retried |
| `prov` | its provider process: not launched, on, over |

A step is one transaction of one database, or one read outside a transaction. A forward is enabled by any version
ever committed, not only the last, so late, stale and repeated forwards of any process are all there. A lost reply (`LostReply`)
commits a transaction and sends its caller down its failure path. Between `Open` and `Prepare`, and between `Clear` and
`Begin`, the fence is not read again. `Reclaim` frees the tickets and fences the orgs in one app transaction; `LoseReq` ends the
requests afterwards, `Unfence` lifts a fence when nothing is left. `KillTree` is the external guardian; `OrphanEnds` a provider that ends
by itself.

A request id is minted by the one caller that uses it, and no other caller claims its ticket. So the epoch, token and owner of a
claim are functions of the states, and they and the branches that compare them are left out: a reader who adds a second
caller of one id has to bring them back. Heartbeats are not modelled: only verified deaths reclaim, and a process that is up may refresh.
Two places take as one instant what the code does in two transactions. `MayPublish` reads the fence and the process in the app database
(`turn_runtime.py:174`) together with the request in the org (`turn_runtime.py:178`). In the process that owns the run nothing hangs on it, since a process that has been verified dead reads nothing
more; a caller in another process could pass the first read before a reclaim and the second before the request is ended, and that window is not in the model. The forward with which a release ends a
cancelled request (`GuardForward`) cancels the ticket and acknowledges the stop, which are two app transactions (`turn_forwarder.py:92`, `97`); the ticket that is stopping between them, still charged and still pending, is a
state the bridge leaves as well, whose forward is two steps (`ForwardCancel`, `ForwardAck`).
An `agents` row that is halted or retired refuses a turn as `GiveUp` does. A transaction that commits after its client has
given it up for lost and cleaned up is not modelled, nor is the purge of an org. `FairHead` takes the position of an org
without a row as 0, as the query does.

`due` may hold `"unclaim"` besides `"abandon"`. For safety it is redundant: the cancel that `abandon` commits reaches the ticket
through the bridge. It frees the slot at once.

### FairSlots

One thread per turn, one for `set_turn_limit`, and the ones that interrupt or halt. `lock` is the condition's lock: a step with the lock free is a
whole `with self._cond` block, except that a dispatch, which grants one ticket per round, and the `notify_all` after it are
steps of the lock's holder. `pc` says where a turn's thread is between the blocks (`queued` has announced itself and not waited yet, `checking` holds
the lock with its ticket not granted, `asleep` waits). `cut` are the turns that an interrupt has been told are waiting, `banner` the limit their queue banner
shows, `wakes` the authors of a flag that are still to call `wake()`, `passed` remembers for `OrgsAlternate` who was served past a waiter. `wait(None)` has no
timeout, and spurious wakeups are allowed by the library but not needed: a woken thread only looks again.

### ProjectQueue

| variable | in the code |
|---|---|
| `jobs` | the rows of `ot.mail` addressed to projects, in the order of their ids; a row's fields are below |
| `acking` | the projects whose `scope.mail_queue_mode` is ACK |
| `dog`, `turns` | the state of each `fair_queue` watchdog; each project's watchdogs in the order `last_fired, created_at, id` |
| `halted`, `away` | the agents halted or frozen, which a hand-out does not tell apart; those outside the projects they listen to |
| `unrun` | no part of the code: a history variable for `NoIdleListener`, the listeners made fit with no run of their queue since; it guards no step |
| `task` | a task that runs queues: what it has to do, the step it is at, what it has read |

A job is `waiting`, `held` (claimed in ACK mode), `relayed` (claimed by a relay in ACK mode), `passed` (claimed without an ack owed), `acked`, `dead`, `dropped`,
`retracted` or `withdrawn`. `by` is the holder, `hands` the number of its hand-outs, which stands for the claim's copy: two claims of one job differ in it. The attempts are
`hands - base`, as a retry of a dead letter starts a new count. `wakes` are the reminders, `parent` and `child` the two ends of a relay, `avoid` those a superior took it back from.

`dispatch` is four steps, because each reads before it writes: `Release` looks for claims whose holder cannot run, without a lock; `Reclaim` judges one of them again under
the project's lock and gives the job back or buries it (`GaveBack`, `Dead`); `HandBegin` takes the locks and reads who listens and how much room each has;
`HandCommit` deals the waiting jobs (`Deals`), enters children (`HandedOut`) and commits, until a hand-out gives nothing; then the queues that took a relayed job run. Other operations
are one transaction each, guarded by `~Locked` where they take the row, followed by the queues that the code runs after their commit. `Crash` forgets all tasks and runs the queues that `arm_armed` runs.

`Halt` and `Unhalt` are the ways an agent stops or goes on that `recheck_holder` follows (`halt_targets`, an account lost, `thaw_matching`); `HaltAlone` and `ContinueOn` are those that nothing
follows (the user's halt and unhalt of one agent, an account removed, `continue_on`). `Die` ends a turn, which may freeze its agent; only `release_after_death` follows.

`Above` and `Below` follow a relay as the loops of `relay.rs` do, written as the least set closed under a step up or down, so that proofs need no recursion.
The projects are numbered so that a relay leads to a higher number: the code refuses a loop (R7).

Left out: the bounds of 64 mails and 64 hand-outs per run, the exclusion of a mail's sender, outside mail and bundled follow-ups, the inline `take_once` of a create, the depth limit of 8 relays,
a listener's reach grants, the retirement of a project, checkups switched off, batch sizes edited while jobs are held, and the text of reminders and notices. `HandBegin` takes the locks of the
project and its relays at once. The user's rejoining is a new watchdog, so it may get any place before those that were served.

## 3. Runs

Passing runs:

| run | instance | question |
|---|---|---|
| `slots_core` | 2 agents, 2 requests, 2 slots, 1 call in flight over a due job | inline and delegated claims, edits, pauses, resumes, removals, retirements, freezes, thaws, the user's halts, releases, projects retired and restored, and failing transactions: one place in the line per agent, anchors, line order, refinement of the permit pool |
| `slots_wakeups` | 2 agents and the user, 2 requests, 2 slots, 2 calls in flight | claims, releases, halts, moves, deaths and slot count changes: leases are added only while all held fit, whenever the head fits a pass is owed, a lease whose holder cannot hold it is on its way back, and the user's hold ends by the user only |
| `slots_live` | 2 agents, one of them outside the line, 1 slot, unqueues, reclaim on, 1 crash | types; a granted dog's fire is owed to it until it is fired, over the crash; every eligible claim is served, though a reclaim is decided on a page that may be stale when it locks |
| `sched_core` | 2 agents in 2 orgs, a server with one place that loads its model, limit 1 or 2 | counts, limit, places on the server, work conservation, no lost wait, over halts, switches of model, late and failed loads |
| `sched_served` | 3 agents in one org against 1 in another, limit 1, no halts | every wait ends |
| `tickets_core` | 2 turns of one agent in 2 processes, one of which may crash, limit 0..2, lost replies, retried jobs, callers that give up, cancels | slots cover providers and publishers, one provider per agent, nothing stranded |
| `tickets_live` | 2 agents of one org, 2 processes, one of which may crash, limit 1, cancels | cancelled providers stop, both halves of an ended turn settle, waiters wait behind running providers only, and the halves refine one lease per turn |
| `fair_core` | 2 turns of one org and 1 of another, one interrupted, one halted, limit 0 or 2 | no slot lost or idle, no wakeup lost, interrupts honoured, orgs alternate |
| `queue_core` | 2 mails to 2 projects, of which the second relays from the first; an agent listens on each, the user on the second; 2 tasks, 1 act or mishap of any kind | one heir per relayed job, both ends of a relay settle, batches hold, acks are final, no listener idles while mail waits, unless it was made fit with no run of its queue |

Three more runs, `lost_freeze`, `handoff_stuck` and `halted_holder`, show a violation (section 6).

Each property has a mutant (`PROJECT.json`, "mutants"): a plausible bug in one mapped definition that makes
TLC find the property violated on the same instance.

### Bounds

* `Agents`, `Requests`: two owners and two claims are a holder and one behind it, or a head that does not fit and a smaller
  claim behind it, with either edited, removed, reclaimed or resumed. `MaxCap = 2` makes a
  whole-capacity claim and a small one. Requests are never reused, except by refused creates.
* `MaxDue`: a *new* call starts only below this much unfinished work; work already promised always runs
  on. With 1, one promised step still overlaps any call (and the steps a call leaves behind overlap each other); with
  2, two do.
* `MaxActs`: pause and remove calls between their read and their write. `MaxCrashes`, `Reminders`: one is the
  first value at which a crash or a reminder happens; `Reminders` is a configuration value.
* `Slots` of `TurnSched`: identities of slot objects; `MayCall` keeps a want from being sent that could find none free.
  `MaxChan` bounds the inbox for new calls, releases always fit. `MaxLimit = 2`.
* `TurnTickets`: one process that may crash and one that stays up is what a recovery needs; two requests are a turn and the one that
  waits behind it, or the first and second turn of one agent. The states are finite without further bounds: a request is used once. Its `Env` names the faults an instance has.
  Both turns of a run are of one org: the rotation of `turn_queue_orgs` is in the model, and no run has it choose between two orgs. The in-memory rotation is checked by `fair_core`.
  `tickets_live` leaves out lost replies, retries of jobs and callers that give up, and one more org: they multiply the behaviours of the liveness check, and the safety runs have them.
* `FairSlots`: every turn is taken once; `Limits = {0, 2}` closes the gate under waiters and opens it for two at once; three
  turns in two orgs are the fewest with which one org can be served twice while another waits.
* `FirstSeats`: the servers agents may be on at first.
* `sched_core` leaves `"stopped"` out of `Env`: the actor gives up its wait or its slot on a stop as on a halt, and a stop is a halt that no
  wake follows. The proofs have both.
* `sched_served`: three agents of one org keep a queue that never empties, the smallest instance in which an org that stayed in front would
  starve the other. Halts are left to the safety runs: an agent that is halted no longer waits.
* `ProjectQueue`: `Tasks = 2` lets two hand-outs, or a hand-out and a reclaim, meet; `MaxMail = 2` with batches of one gives a job held and one that waits behind it; `MaxAttempts = 2` and `Reminders = 1`
  make the second loss of a holder a dead letter and the second sweep a time-out; `MaxActs = 1` allows one act of the user, one mishap of an agent or one crash in between (acknowledgements, reminders, time-outs, hand-outs and
  re-armings are not counted). A chain of three projects is left to the proofs.

Deadlock is not checked where a run may really stop: an organisation in which nobody calls any more is
a final state of every instance with bounded requests.

### Fairness

`Slots!Fairness`: an open transaction commits (weak fairness). A transaction that waits for the project's row
lock gets it: PostgreSQL queues row lock waiters, so a transaction that is enabled again and again runs (strong
fairness of `GrantBegin`, `CheckHolders`, `DropUnreached`, `DeathEnd` and of the create call). Effects run after their
commit and fires follow a grant in the same task (weak). The checkup timer comes round for every
running holder (strong fairness of the reminder and the reclaim), which assumes that acknowledgement reminders are
configured; without them a holder may keep its lease for ever and nothing is promised. No fairness is
assumed of agents or of the user: nobody has to release anything. `slots_live` has one crash and no failing transactions.

`TurnTickets!Fairness`: every request's side of the host comes back to it: the tick visits each open org, retained cleanups are retried, a waiting
caller rereads its ticket at least every five seconds, and none of the steps can be repeated for ever, so weak fairness per request stands for all of
them (`Proceeds`). A killed process is reclaimed and its fences are worked off (`Recovery`); without `KillTree`, which is the
desktop's guardian and is part of `Recovery`, nothing is promised after a crash. Neither the start of a turn nor the end of a provider is fair: `WaitersMove` therefore
ends with "or a provider runs".

`TurnSched!Fairness`: the scheduler's task and the actors run on (tokio schedules every ready task), loads end, turns end.

## 4. Proofs

All with the assumptions that the modules name, which say that counts are naturals, that the user is
no agent, and that requests and slots are finite sets. Nothing is bounded.

**Slots.** `CapacityKept`, `GrantedOnce` and the refinement need more than types: a pass writes to claims it read in
an earlier step. `IInv` says why that is sound: a lease is marked (`LeaseMarked`), no new claim is
(`NewUnmarked`), every claim of the line that the open pass read is unmarked, made, and not at the same time a create
call under way (`LineUnmarked`), a pass has no leftovers (`PassLocal`), calls are about claims in the right
state (`CallsOnNew`, `ActsOnDogs`). The last is what makes a pause or removal that writes late
harmless to the mark. `SlotsProofs` proves `TypeOK` and `IInv` together, one step per action. `SlotsSafetyProofs` reduces every action to
one of four kinds (leases kept, others' leases ended, the user's release, a set granted), proves how each changes the permits
held (cardinalities of finite sets of pairs), and from that:

| theorem | says |
|---|---|
| `TypeCorrect`, `MarksKept` | `Spec => []TypeOK`, `Spec => []IInv` |
| `NoOverAllocation` | leases are added only while all held fit (`CapacityKept`) |
| `NoDoubleGrant` | a claim gets one lease, with one anchor (`GrantedOnce`, which no run lists: the refinement, which one does, says as much of the sizes granted) |
| `FirstComeFirstServed` | a pass grants nobody past one it read ahead (`StrictFIFO`) |
| `AnchorsKept` | active leases have different anchors |
| `UserHoldKept` | only the user ends the user's hold (`UserHoldsLast`) |
| `SlotsImplementPool` | `Spec => PoolSpec`: a granted set is a `Take`, ended leases a `GiveBack`, an edit or a new claim an `Ask`, everything else a stutter |

`SlotsWakeupsProofs` is about `due`, the work that a commit promises and a task has in memory only. Each of its theorems says that a
promise is never dropped on the way, and each needs to know more than the property says:

| theorem | holds for | says | what makes it inductive |
|---|---|---|---|
| `LineEnteredOnce` | every `Env` | `OneInLine` | the claims that are armed or shelved, per owner: only an insert, a user's hold and a resume bring one there (`LineEntry`), and each looks first |
| `FiresAreOwed` | no `"dbfail"` | `FireOwed` | itself: a pass that takes the owed `Grant` reads the armed dogs whose lease is active, and a crash leaves a `Grant` |
| `UnfitHoldersLeave` | no `"freeze"`, `"pause"`, `"userhalt"`, `"removal"` | `UnfitHolderLeaves` | `HoldersTold` and `ReadTold`: what holds for leases has to hold already for the claims that an open pass has read, because it may turn them into leases of somebody halted since. `ShelvedRetired` says that a shelved claim is of a retired agent, and `FiresGranted` that nothing but a granted dog is fired, so that no firing takes a claim out of the line |
| `NoWakeupIsLost` | `Calm`: no `"freeze"`, `"continue"`, `"userhalt"`, `"removal"`, `"pause"`, `"remove"`, `"edit"`, `"project"`, `"rehire"`, `"dbfail"` | `NoLostWakeup` | `PassRead`: an open pass knows the line as it is, but for claims whose owner is still to be looked at (`LineOwed`); `LineServed`: if the head fits, some claim is `LineOwed` or a pass or check is owed (`Wake`), also while a create call has its own pass open |

The core of `NoWakeupIsLost` is `CommitServes`: when a pass commits, and the head of what is left fits, then either somebody whom the pass
did not read right is owed a look, or everything ahead of the head was granted; but then the pass had room for the head as well, and would have granted it. That is a calculation with cardinalities
(`UnitsDisjoint`, `UnitsOne`). The hypotheses are not for the prover's sake: with each of the names left out a run violates the property
(section 6), so the theorems say in which environments the code keeps its promise. What remains in `Calm` is
every inline and delegated claim, holds of the user, releases, unqueues, resumes, halts and unhalts by `halt_targets`, freezes for want of an account and thaws by `thaw_matching`, retirements, moves, deaths of turns, reclaims, changes of the slot count and crashes.

**TurnSched.** `SInv` joins the types of the counted variables with `HeldCounts` and `LanesCount`. Every action either drops
a set of slots (`Drops`), reads a release or grants; the inbox only ever loses messages, is marked, or gains one, and a release is
posted once (`ReleasedOnce`), which is what keeps a lane from being counted down twice. Theorems: `HeldIsAlive`,
`LanesAgree`, `LanesWithinCap`, `LimitRespected`.

`QInv` adds the types of the queues, the rotation and the phases (`QueueTypes`) and that an org with turns that wait is in the rotation (`InRotation`). From it come
`TypesHold` (all of `TypeOK`) and `NoSlotIdles` (`NoIdleSlot`). `WaitersAreWanted` (`WaiterWanted`) rests on `WantLives`: the last word of an agent that waits
is a want still in the inbox, or the task has read it and keeps the want in its queue, or a slot granted to the agent has yet to reach it.
The module picks the kept positions of a sequence with a `Select` of its own, because `SelectSeq` is a recursive operator and opaque to the
prover; `MCTurnSched` assumes, and TLC evaluates, that the two agree on the sequences of an instance.

**TurnTickets.** What has to hold between two databases is `Charged`: a request that is active, or whose caller has claimed and
not yet activated it, has a ticket that counts, unless its process is dead. It is inductive only together with
`LastVersion` (an ended version is never overtaken, and nothing stale can name a stop, so that a late forward cannot end a ticket that is
in use), `Staged` and `Running` (where callers and providers can be in each state of the request), `HostsKnown` (a caller is gone exactly when its process is
not up; fences are of dead processes) and `OneOpenTicket`. Together they are `IInv`, proved one lemma per action. From it:

| theorem | says |
|---|---|
| `TypesHold`, `HalvesAgree` | `Spec => []TypeOK`, `Spec => [](TypeOK /\ IInv)` |
| `SlotsCoverProviders` | a provider runs only under a charged ticket (`SlotCoversProvider`) |
| `ProvidersAlone` | never two providers of one agent (`OneProviderPerAgent`) |
| `PublishersHold` | what may publish holds a slot (`PublisherHoldsSlot`) |
| `NothingIsStranded` | a request whose process died or that was closed has somebody who will settle it (`NothingStranded`); `Closing` says who closes each half: an ended request is forwarded until its ticket has ended too, a dead process keeps no open ticket, and an open request has a caller, a crashed process or a fence that will close it |
| `TicketsAreLeases` | `Spec => LeaseSpec`: every step is an ask, a grant, a start, a stop or an end of leases, or a stutter |

**FairSlots.** `IInv` adds to the properties that a ticket is in one place of one queue (`QueuedOnce`), who holds the lock and what its dispatch may still
grant (`LockHeld`), that an interrupted turn is still admitting (`CutTokens`) and that the thread that changes the limit has yet to refresh banners
(`SetterCurrent`). `SlotsInductive` proves it; `SlotTypesHold`, `HeldIsGranted`, `TicketsAreKept`, `NoSlotIdles`, `NoWakeupLost`, `CutsHonoured` and
`BannersCurrent` (banners show the limit of the moment, or a refresh is owed) hold for any number of turns and orgs; all but the last are properties of `fair_core`.
`OrgsTakeTurns` (`OrgsAlternate`) needs `RoundOrder`: an org that was served while another one waited stands behind that one in the ring, counted from the org served last, until it has had its turn; that the order survives a serve, and a ring that grows, is arithmetic of distances (`Distances`).

**ProjectQueue.** The properties speak of pairs of rows, so the strengthening says what a pair is at every moment. `LiveLinked` is `HeirLinked` for the relayed jobs in between as well:
a step that ends or frees a job must reach all those above it, which the lemmas get from the closure of `Above` (`AboveClosed`, `AboveReached`), and a take-back must revoke all those below
(`BelowClosed`), none of which is the job itself, since a child is a later row (`ChildrenLater`). `RelaysLinked` makes the two ends name each other. Batches hold because a hand-out that is
open has counted what its listeners hold (`RoomCounted`), no other hand-out of the project is open (`OneHandOut`) and every other step only takes jobs away from holders. Each step then is one that
moves rows in place (`Moved`, `HeirsKept`, `EndsMeet`: one lemma per operation), a new mail (`SendKeeps`) or a hand-out (`HandOutKeeps`, `DealtWithin`).

| theorem | says |
|---|---|
| `HeirsLinked` | a relayed job is worked on by one child at a time (`HeirLinked`) |
| `RelaysSettle` | no job stays relayed whose child is dead or was acknowledged by an agent (`RelaySettles`) |
| `BatchesKept` | nobody holds more than its batch, however many tasks hand out (`BatchKept`) |
| `AcksFinal` | nothing brings an acknowledged job back (`AckFinal`) |
| `TypesHold` | the variables keep their types (`TypeOK`) |
| `ListenersAreServed` | once no queue runs, no mail waits for an agent that has room (`NoIdleListener`), with everything in `Env`, unless it was thawed by `continue_on` or unhalted alone and its queue has not run since (`unrun`) |

The last two rest on a second invariant, `WakeInv`. `NoIdleListener` says nothing while a queue runs; `RunsOwed` says what holds then: whoever listens and could take a job of its project (`Idles`) is either
owed a run of that project's queue (`Owed`: some task has the run on its list, at a step before the listeners are read, or has relayed into the project) or has been read by a hand-out in progress and is
about to be given a job (`Serving`). Each lemma about a step says in which projects `P` agents may begin to idle there (`JobsIn`, `ListenIn`) and that a run of each is owed afterwards; elsewhere nobody begins to idle (`IdlesIn`), and an agent thawed there is fit already or `unrun`,
and what was owed stays owed (`Kept`), which together is `Wakes`. Three steps need more: a hand-out that begins turns what it owes into `Serving`, for those it takes out of `unrun` too; one that
gives nothing leaves nobody it read with room and a job to take (`NoneLeft`); and one that waives acknowledgements makes room in a queue that may be in ACK mode again, so that `WaiversRun` keeps a run of that queue behind it
on the list. `TaskTyped` also ties a task's claims to its project, and its relays to projects that listen, so that the runs it owes are finitely many.

The hand-outs and moves pick and order with `InOrder` and `Select`, because `SetToSortSeq` and `SelectSeq` are recursive and out of the prover's reach; `MCProjectQueue` assumes, and TLC evaluates,
that they agree with those on the sets and sequences of an instance.

`NumbersAssumption` and `ListenersAssumption` of `ProjectQueue` say what the code checks: batches are 1 to 20, attempts at least 1, relays go one way, and watchdogs are finitely many. `OwnersAssumption` says that the agents,
the projects and the user have different names, and that nobody (`None`) is none of them and no listener. No theorem depends on `MaxMail`, on the size of `Tasks` or on which names `Env` has.

TLC checked each invariant `IInv` on small instances before it was proved; the runs list the properties only.

## 5. Checked only

Every invariant that a passing run checks is stated by a theorem, some of them for fewer acts of the environment than others (section 4).
`HandoffsSettle`, `HolderFit` and, with a freeze, `NoLostWakeup` are violated (section 6). Liveness (`WaitersServed`, `TurnsServed`, `CancelStops`, `HalvesSettle`, `WaitersMove`) stays with TLC,
as does everything under fairness.

## 6. Where code and documents part

| run | property | what happens |
|---|---|---|
| `lost_freeze` | `NoLostWakeup` | an agent that waits at the head of the line and is frozen at the end of its turn is passed over, but nobody runs the line for those behind it |
| `handoff_stuck` | `HandoffsSettle` | a turn commits `done` in its org and its process dies before the forward; the recovery marks the ticket lost, and the forward of a done request accepts only a done ticket. The request keeps `app_pending` for ever, every tick forwards it again, and sixteen of them fill the repair batch of their org |
| `halted_holder` | `HolderFit` | a hand-out reads which agents are halted without a lock on them. A halt that commits meanwhile rechecks its projects and finds no job yet; then the hand-out commits and the halted agent keeps its job until something else runs the queue, where `docs/projects-and-watchdogs.md:86` says that a holder that cannot run gives its holdings back at once |

`HalvesSettle`, which `tickets_live` checks, is the same statement with that one case excepted.

Seven more were found while modelling and have no run of their own:

* The halt and unhalt of one agent by the user (`http/nodes.rs:613`, `624`) only tell the actor, which writes `agents.halt` (`actor.rs:1978`): no recheck follows, as it does in `halt_targets`. `slots.rs:368` says that `check`
  "Runs on halt, unhalt, freeze, thaw", and `holdings.rs:4` that what an agent holds is taken back at once when its holder is halted. With `"userhalt"` in the `Env` of `slots_wakeups` TLC shows `UnfitHolderLeaves` violated
  by a halt and `NoLostWakeup` by either.
* `continue_on` (`freeze.rs:530`) and the other changes of account that thaw an agent (`ops.rs:3705`, `account_removal.rs:317`, `533`) wake it and recheck nothing, and neither does the freeze of an agent whose account was removed
  (`account_removal.rs:328`, `534`). With `"continue"` and `"noaccount"` in the `Env` of `slots_wakeups` TLC shows `NoLostWakeup` violated, with `"removal"` `UnfitHolderLeaves` too. In a mail queue in ACK mode the thawed agent is fit again while mail waits,
  and no queue runs; without `unrun` TLC shows `NoIdleListener` violated by `ContinueOn`.

* An inline lease has no dog, so `check` (`slots.rs:389`) cannot see the reach grant it was claimed through and takes it back at the first recheck, although
  `projects.rs:307` says such a dog keeps its project.
* A retirement pauses the waiting claims and a rehire puts them back in their old places (`watchdogs.rs:4208`), where `docs/projects-and-watchdogs.md:88` says
  that retiring removes them.
* An agent switched to a model server while it waits starts there under the slot it asked for before, which counts on no lane (`actor.rs:2624`), so that the server's cap
  can be exceeded, against `sched.rs:7`. `LaneKept` speaks of the lanes as the task counts them.

* Removing or pausing the head of the line lets nobody behind it in: the recheck that follows the act asks `projects_of` (`slots.rs:532`) which projects the agent waits in, and the claim that the act has just
  taken out of the line no longer counts. `slots.rs:530` says it returns what a "claim change can move", and a comment on the other way to remove a claim (`ops.rs:3273`) says that taking a blocking head out of the line
  can free the claims behind it. TLC shows `NoLostWakeup` violated with `"remove"` or `"pause"` in `Env`, three requests, `MaxActs = 1` and `MaxDue = 1`.
* A pause writes `paused` over whatever its dog has become (`watchdogs.rs:3728` has no condition on the state). A claim that was removed and succeeded meanwhile comes back beside its successor, so that
  its owner has two pending claims, where `slots.rs:49` says that agents keep only one that is armed or paused. `OneInLine` says what is left: never two in the line.

Further behaviour shows up when names are added to the `Env` of a run:

* `NoLostWakeup`: an edit that lets a claim fit (`"edit"`), a project restored with a line (`"project"`), a rehire of an agent that got a claim in while it was archived
  (`"rehire"`), a failed grant (`"dbfail"`), a freeze at the end of a turn (`"freeze"`, the run `lost_freeze`), a removal or pause of the head, `continue_on` (`"continue"`), the user's halt or unhalt of one agent (`"userhalt"`) and a removed account (`"removal"`) are not followed by a pass; the next event on the project runs it.
* `UnfitHolderLeaves`: a grant that commits between an unlocked read of what a halted or dead agent holds and the release
  leaves that lease to the next recheck; `UnfitHolderLeaves` excepts the two kinds of lease that can get there.
  The user's halt of one agent and the freeze of one whose account was removed look at no lease at all.
  With `"pause"` a claim can be paused between the read and the write of the pass that grants it, and a halt then finds neither a lease nor a waiting claim.
* `FireOwed`: with `"dbfail"` a dog behind one that cannot be fired waits for the next pass. A dog granted and released before its fire, and then a crash, stays armed with an ended
  lease: a pass fires only dogs whose lease is active (`slots.rs:167`). `FireOwed` speaks of those.

And of the mail queues, all behaviour of the model that no property forbids:

* A child whose parent was taken back is revoked; when its holder then loses it, it goes back to the child's queue and is handed out again, although the mail is worked on above
  (`relay.rs:251`). `HeirLinked` speaks of jobs that are not revoked. Retrying both the dead child and the dead parent gives two workers one mail, which it excepts too.
* The user's acknowledgement of a relayed job, a purge of the child's queue, and a child's queue that leaves ACK mode settle nothing above: the job above stays relayed.
* The take-back from a relay runs no queue, and a hand-out that frees a relay's own queue does not run the one above it; the next acknowledgement does. `NoIdleListener` therefore speaks of
  agents, and excepts jobs that were taken back from a relay.
* `Waive` runs after the commit of the switch, so that it may waive acknowledgements of jobs handed out after the mode was switched back.
* A project on which only the user listens is not run when the engine starts.
* An acknowledgement writes the child's row and then the one above, a take-back the other way round; PostgreSQL's deadlock detection ends one of them.

## 7. Not modelled yet, and the plan

Done: the slots with their abstract pool, the turn scheduler, durable turn admission with its abstract leases, the in-memory turn slots, the project mail queues with their relays, and their theorems.
What would come next:

1. **Mail custody**: an abstract specification of a mail's custody that `ProjectQueue` implements, with the mailboxes of agents and the deliveries behind it; the composition of
   `Slots` and `ProjectQueue` through the death and the move of an agent, which each models by itself.
2. **Events and listener watches** (`Events`): staged fires, paged delivery with a crash between pages, watches that pause and resume. No listener is
   skipped or served twice.
3. **Idle processes** of the scheduler (`IdleProcs`: parked, unparked, the close request that meets a new turn) and **turn recovery** (bounded retries,
   parks, freezes and their thaw).
4. **Checkup pages**: the rotation over holdings as a pure algorithm against a reference order; **core monitor**: one owner and the restart
   budget over crashes; credits of staffing under one lock; undo.

5. **Halts of the Python engine** (`halt.py`: the journal of a halt, its undo and the restart), composed with `FairSlots`; **the store** (`store.py`: one writer per org and
   what a crash leaves in its files) and **the ledger** (`ledger.py`: entries undone in order).

The live limit and the stored setting are written one after the other by `api.py` without a common lock, so two changes at once can leave them different; the limit of `FairSlots` is
the live one.

The engines' Python code runs to hundreds of thousands of lines, most of them HTTP handlers, rendering, adapters of providers, importers and text; the map covers the parts named above and
makes no claim on the rest.

Left out for good: I/O adapters (network, HTTP, providers, credentials), rendering, the desktop application,
and PostgreSQL itself, which is taken as transactions and queued row locks.
