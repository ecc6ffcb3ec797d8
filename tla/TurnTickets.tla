---------------------------- MODULE TurnTickets ----------------------------
(***************************************************************************)
(* Durable turn admission of the Python engine: one turn is a request row  *)
(* in its org's database (orgdb/turn_requests.py) and a ticket row in the  *)
(* app database shared by every engine process (turnqueue.py).  No         *)
(* transaction spans the two.  The org commits first; a bridge             *)
(* (orgdb/turn_forwarder.py) carries each committed version of a request   *)
(* over, late, twice or from a stale read.  The caller of a turn           *)
(* (orgdb/turn_runtime.py, Admission; turnslots.py, DatabaseSlots) waits   *)
(* for the ticket, launches the provider and gives both halves back.       *)
(*                                                                         *)
(* A request id is minted by the one caller that uses it, and that caller  *)
(* claims only its own ticket.  So a ticket is claimed at most once, by    *)
(* its request's owner: the claim's number, token and owner are determined *)
(* by the states below and are not kept.                                   *)
(***************************************************************************)
EXTENDS Integers, Sequences, FiniteSets

CONSTANTS
  Requests,         \* the turns: each is one request id, one caller, one ticket
  Agents, AgentOf,  \* the agents, and whose turn a request is
  Orgs, OrgOf,      \* the orgs, and the org of an agent
  Hosts, HostOf,    \* engine instances, and the one a request's caller runs in
  Frail,            \* the instances that may crash
  None,             \* no org served yet
  MaxLimit,         \* bound: the largest limit that is set
  InitLimit,        \* the limit the host starts with
  Env               \* what the environment does: the names used as guards

ASSUME AgentAssumption == AgentOf \in [Requests -> Agents]
ASSUME OrgAssumption == OrgOf \in [Agents -> Orgs] /\ None \notin Orgs
ASSUME HostAssumption == HostOf \in [Requests -> Hosts] /\ Frail \subseteq Hosts
ASSUME LimitAssumption == MaxLimit \in Nat /\ InitLimit \in 0..MaxLimit

VARIABLES
  req,      \* the org databases: turn_requests.state
  pending,  \* turn_requests.app_pending
  job,      \* the start_turn jobs
  versions, \* the committed versions with app_pending a forwarder may have read
  ok,       \* a forwarder has seen the current version's app half in place
  ticket,   \* the app database: turn_tickets.state
  order,    \* the tickets by id
  ring,     \* turn_queue_orgs by position
  last,     \* turn_admission.last_org_id
  limit,    \* turn_admission.slot_limit
  fences,   \* turn_recovery
  host,     \* engine_instances: up, crashed, killed (with its tree), dead (dead_at)
  pc,       \* where a request's caller is
  due,      \* cleanups of its failed acquire, retained by its host
  prov      \* its provider: not launched, on, over

orgVars == <<req, pending, job, versions, ok>>
appVars == <<ticket, order, ring, last, limit, fences>>
vars == <<orgVars, appVars, host, pc, due, prov>>

OpenReq == {"pending", "queued", "running", "stopping"}
EndedReq == {"done", "cancelled", "lost"}
Occupied == {"running", "stopping"}
OpenTicket == {"waiting"} \cup Occupied
EndedTicket == {"done", "cancelled", "lost"}

Org(r) == OrgOf[AgentOf[r]]

TypeOK ==
  /\ req \in [Requests -> {"none"} \cup OpenReq \cup EndedReq]
  /\ pending \in [Requests -> BOOLEAN]
  /\ job \in [Requests -> {"none", "queued", "running", "done", "failed"}]
  /\ versions \in [Requests -> SUBSET {"queued", "stopping", "done", "cancelled", "lost"}]
  /\ ok \in [Requests -> BOOLEAN]
  /\ ticket \in [Requests -> {"none"} \cup OpenTicket \cup EndedTicket]
  /\ order \in Seq(Requests)
  /\ ring \in Seq(Orgs)
  /\ last \in Orgs \cup {None}
  /\ limit \in 0..MaxLimit
  /\ fences \subseteq Orgs \X Hosts
  /\ host \in [Hosts -> {"up", "crashed", "killed", "dead"}]
  /\ pc \in [Requests -> {"out", "opened", "prepared", "waiting", "claimed", "cleared",
                          "begun", "turn", "complete", "abandon", "forward", "freeing",
                          "left", "gone"}]
  /\ due \in [Requests -> SUBSET {"unclaim", "abandon"}]
  /\ prov \in [Requests -> {"off", "on", "over"}]

Init ==
  /\ req = [r \in Requests |-> "none"]
  /\ pending = [r \in Requests |-> FALSE]
  /\ job = [r \in Requests |-> "none"]
  /\ versions = [r \in Requests |-> {}]
  /\ ok = [r \in Requests |-> FALSE]
  /\ ticket = [r \in Requests |-> "none"]
  /\ order = <<>>
  /\ ring = <<>>
  /\ last = None
  /\ limit = InitLimit
  /\ fences = {}
  /\ host = [h \in Hosts |-> "up"]
  /\ pc = [r \in Requests |-> "out"]
  /\ due = [r \in Requests |-> {}]
  /\ prov = [r \in Requests |-> "off"]

Up(r) == host[HostOf[r]] = "up"

SomeUp == \E h \in Hosts : host[h] = "up"

Unfenced(o) == \A h \in Hosts : <<o, h>> \notin fences

\* mutant of Held: a turn that is being stopped does not count
HeldRunning == {r \in Requests : ticket[r] = "running"}

Held == {r \in Requests : ticket[r] \in Occupied}

Goes(r, to) == pc' = [pc EXCEPT ![r] = to]

-----------------------------------------------------------------------------
(* The org half: each operation is one org transaction. *)

\* a version is committed; what still has to reach the app database is marked
Commit(r, st) ==
  /\ req' = [req EXCEPT ![r] = st]
  /\ pending' = [pending EXCEPT ![r] = TRUE]
  /\ versions' = [versions EXCEPT ![r] = @ \cup {st}]
  /\ ok' = [ok EXCEPT ![r] = FALSE]

SameOrgHalf == UNCHANGED <<req, pending, versions, ok>>

OneOpenReq(r) == \A q \in Requests : AgentOf[q] = AgentOf[r] => req[q] \notin OpenReq

\* turn_requests.create: the request with its start_turn job
Create(r) ==
  /\ OneOpenReq(r)
  /\ req' = [req EXCEPT ![r] = "pending"]
  /\ job' = [job EXCEPT ![r] = "queued"]
  /\ UNCHANGED <<pending, versions, ok>>

\* queue_job, in the transaction that finishes the job
QueueJob(r) ==
  /\ job' = [job EXCEPT ![r] = "done"]
  /\ IF req[r] = "pending" THEN Commit(r, "queued") ELSE SameOrgHalf

\* turn_requests.cancel
CancelReq(r) ==
  \/ req[r] \in {"pending", "queued"} /\ Commit(r, "cancelled")
  \/ req[r] = "running" /\ Commit(r, "stopping")
  \/ req[r] \notin {"pending", "queued", "running"} /\ SameOrgHalf

\* mutant of AbortReq: an activated request is left to somebody else
AbortReqQueued(r, claimed) ==
  \/ req[r] \in {"pending", "queued"} /\ Commit(r, "cancelled")
  \/ req[r] \notin {"pending", "queued"} /\ SameOrgHalf

\* abort_unstarted: cancelled and, if activated, its stop acknowledged at once
AbortReq(r, claimed) ==
  \/ req[r] \in {"pending", "queued"} /\ Commit(r, "cancelled")
  \/ req[r] \in {"running", "stopping"} /\ claimed /\ Commit(r, "cancelled")
  \/ req[r] \in {"running", "stopping"} /\ ~claimed /\ SameOrgHalf
  \/ req[r] \notin OpenReq /\ SameOrgHalf

\* Host.complete: the provider has stopped
CompleteReq(r) ==
  \/ req[r] = "running" /\ Commit(r, "done")
  \/ req[r] = "stopping" /\ Commit(r, "cancelled")
  \/ req[r] \in {"done", "cancelled"} /\ SameOrgHalf

\* the bridge, on its visit to an org it has read as open, leases a start_turn job ...
ClaimJob(r) ==
  /\ SomeUp
  /\ Unfenced(Org(r))
  /\ job[r] = "queued"
  /\ job' = [job EXCEPT ![r] = "running"]
  /\ UNCHANGED <<req, pending, versions, ok, appVars, host, pc, due, prov>>

\* ... and runs it
RunJob(r) ==
  /\ SomeUp
  /\ job[r] = "running"
  /\ QueueJob(r)
  /\ UNCHANGED <<appVars, host, pc, due, prov>>

\* the lease expires or the handler fails: again, or no attempt is left
RetryJob(r) ==
  /\ SomeUp
  /\ "jobs" \in Env
  /\ job[r] = "running"
  /\ \E st \in {"queued", "failed"} : job' = [job EXCEPT ![r] = st]
  /\ UNCHANGED <<req, pending, versions, ok, appVars, host, pc, due, prov>>

\* a request whose job will never queue it
EndUnrunnable(r) ==
  /\ SomeUp
  /\ req[r] = "pending"
  /\ job[r] \notin {"queued", "running"}
  /\ CancelReq(r)
  /\ UNCHANGED <<job, appVars, host, pc, due, prov>>

-----------------------------------------------------------------------------
(* The app half: each operation is one transaction under the admission gate. *)

OneOpen(r) ==
  \A q \in Requests \ {r} : AgentOf[q] = AgentOf[r] => ticket[q] \notin OpenTicket

Elements(s) == {s[i] : i \in DOMAIN s}

\* Queue.enqueue is refused in a fenced org, for a dead instance and a busy agent
MayEnqueue(r) == /\ Unfenced(Org(r))
                 /\ host[HostOf[r]] # "dead"
                 /\ ticket[r] = "none" => OneOpen(r)

\* a ticket that is there stays as it is
EnqueueTicket(r) ==
  /\ MayEnqueue(r)
  /\ ring' = IF Org(r) \in Elements(ring) THEN ring ELSE Append(ring, Org(r))
  /\ IF ticket[r] = "none"
     THEN /\ ticket' = [ticket EXCEPT ![r] = "waiting"]
          /\ order' = Append(order, r)
     ELSE UNCHANGED <<ticket, order>>
  /\ UNCHANGED <<last, limit, fences>>

\* mutant of Cancelled: a cancel ends a ticket whose provider runs
CancelledAtOnce(st) == IF st \in {"none"} \cup OpenTicket THEN "cancelled" ELSE st

\* Queue.cancel: a missing ticket gets a tombstone, a running one stays charged
Cancelled(st) == CASE st \in {"none", "waiting"} -> "cancelled"
                   [] st = "running" -> "stopping"
                   [] OTHER -> st

SetTicket(r, st) == /\ ticket' = [ticket EXCEPT ![r] = st]
                    /\ UNCHANGED <<order, ring, last, limit, fences>>

\* the waiting tickets that may be claimed: first in an org without a fence
Firsts ==
  {q \in Requests :
    /\ ticket[q] = "waiting"
    /\ Unfenced(Org(q))
    /\ \A i, j \in DOMAIN order :
         order[j] = q /\ i < j /\ Org(order[i]) = Org(q) => ticket[order[i]] # "waiting"}

Position(o) == IF o \in Elements(ring) THEN CHOOSE i \in DOMAIN ring : ring[i] = o ELSE 0

\* how far an org is behind the one served last
Behind(o) == (Position(o) - Position(last) - 1) % Len(ring)

FairHead(r) == r \in Firsts /\ \A q \in Firsts : Behind(Org(r)) <= Behind(Org(q))

ClaimTicket(r) ==
  /\ Up(r)
  /\ Cardinality(Held) < limit
  /\ FairHead(r)
  /\ ticket' = [ticket EXCEPT ![r] = "running"]
  /\ last' = Org(r)
  /\ UNCHANGED <<order, ring, limit, fences>>

\* a cancelled request of the org stops a ticket that has no provider any more:
\* the org half is cancelled only before its activation or after the stop
Acknowledged(st) == IF st = "stopping" THEN "cancelled" ELSE st

Finished(st) == IF st = "running" THEN "done" ELSE Acknowledged(st)

\* mutant of SetLimit: the limit is not clamped
SetLimitUnclamped ==
  /\ "limit" \in Env
  /\ limit' \in 0..(MaxLimit + 1)
  /\ limit' # limit
  /\ UNCHANGED <<orgVars, ticket, order, ring, last, fences, host, pc, due, prov>>

SetLimit ==
  /\ "limit" \in Env
  /\ limit' \in 0..MaxLimit
  /\ limit' # limit
  /\ UNCHANGED <<orgVars, ticket, order, ring, last, fences, host, pc, due, prov>>

-----------------------------------------------------------------------------
(* The bridge: any process, with any version it has read. *)

ForwardQueued(r) == "queued" \in versions[r] /\ EnqueueTicket(r)

ForwardCancel(r) == /\ versions[r] \cap {"stopping", "cancelled"} # {}
                    /\ SetTicket(r, Cancelled(ticket[r]))

ForwardAck(r) == /\ "cancelled" \in versions[r]
                 /\ ticket[r] = "stopping"
                 /\ SetTicket(r, "cancelled")

ForwardDone(r) == /\ "done" \in versions[r]
                  /\ ticket[r] = "running"
                  /\ SetTicket(r, "done")

Forward(r) ==
  /\ SomeUp
  /\ ForwardQueued(r) \/ ForwardCancel(r) \/ ForwardAck(r) \/ ForwardDone(r)
  /\ UNCHANGED <<orgVars, host, pc, due, prov>>

\* the states of the ticket that settle a version of its request
Settles(st) == CASE st = "queued" -> {"waiting", "running"}
                 [] st = "stopping" -> {"stopping"} \cup EndedTicket
                 [] st = "cancelled" -> EndedTicket
                 [] st = "done" -> {"done"}
                 [] st = "lost" -> {"none"} \cup EndedTicket
                 [] OTHER -> {}

\* what the app operation of a forward returns
Confirm(r) ==
  /\ SomeUp
  /\ pending[r] /\ ~ok[r]
  /\ ticket[r] \in Settles(req[r])
  /\ ok' = [ok EXCEPT ![r] = TRUE]
  /\ UNCHANGED <<req, pending, job, versions, appVars, host, pc, due, prov>>

\* app_synced: only while the version is the same
Synced(r) ==
  /\ SomeUp
  /\ pending[r] /\ ok[r]
  /\ pending' = [pending EXCEPT ![r] = FALSE]
  /\ UNCHANGED <<req, job, versions, ok, appVars, host, pc, due, prov>>

-----------------------------------------------------------------------------
(* The callers: Admission, over DatabaseSlots.  An exception - the turn was *)
(* interrupted, a database was out of reach, a reply was lost after its     *)
(* commit - may end each step.                                              *)

\* `open`: the org is active and unfenced at this read
Open(r) ==
  /\ Up(r)
  /\ pc[r] = "out"
  /\ Unfenced(Org(r))
  /\ Goes(r, "opened")
  /\ UNCHANGED <<orgVars, appVars, host, due, prov>>

\* mutant of Leaves: the ticket is given back, the request is not
LeavesRequest(r, asked) ==
  /\ Goes(r, "left")
  /\ due' = [due EXCEPT ![r] = IF asked THEN {"unclaim"} ELSE {}]

\* what an acquire that has failed leaves to the host: its ticket, if it asked
\* for one, and its request
Leaves(r, asked) ==
  /\ Goes(r, "left")
  /\ due' = [due EXCEPT ![r] = {"abandon"} \cup IF asked THEN {"unclaim"} ELSE {}]

\* a transaction commits and its caller sees an error
LostReply == "lost" \in Env

Prepare(r) ==
  /\ Up(r)
  /\ pc[r] = "opened"
  /\ Create(r)
  /\ \/ Goes(r, "prepared") /\ UNCHANGED due
     \/ LostReply /\ Leaves(r, FALSE)
  /\ UNCHANGED <<appVars, host, prov>>

\* queue_one, when no bridge has the job
QueueOne(r) ==
  /\ Up(r)
  /\ pc[r] = "prepared"
  /\ req[r] = "pending" /\ job[r] = "queued"
  /\ QueueJob(r)
  /\ UNCHANGED <<appVars, host, pc, due, prov>>

Prepared(r) ==
  /\ Up(r)
  /\ pc[r] = "prepared"
  /\ req[r] = "queued"
  /\ Goes(r, "waiting")
  /\ UNCHANGED <<orgVars, appVars, host, due, prov>>

\* acquire: the ticket, if the bridge has not made it yet
Enqueue(r) ==
  /\ Up(r)
  /\ pc[r] = "waiting"
  /\ EnqueueTicket(r)
  /\ UNCHANGED <<orgVars, host, pc, due, prov>>

Claim(r) ==
  /\ pc[r] = "waiting"
  /\ ClaimTicket(r)
  /\ \/ Goes(r, "claimed") /\ UNCHANGED due
     \/ LostReply /\ Leaves(r, TRUE)
  /\ UNCHANGED <<orgVars, host, prov>>

GiveUp(r) ==
  /\ Up(r)
  /\ "giveup" \in Env
  /\ pc[r] \in {"opened", "prepared", "waiting"}
  /\ Leaves(r, pc[r] = "waiting")
  /\ UNCHANGED <<orgVars, appVars, host, prov>>

\* no choice: the agent is busy, the org fenced, or the request or ticket has ended
Refused(r) ==
  /\ Up(r)
  /\ \/ pc[r] = "opened" /\ ~OneOpenReq(r)
     \/ pc[r] = "prepared" /\ req[r] \notin {"pending", "queued"}
     \/ pc[r] = "waiting" /\ ticket[r] \notin {"none", "waiting"}
     \/ pc[r] \in {"prepared", "waiting"} /\ req[r] = "queued" /\ ~MayEnqueue(r)
  /\ Leaves(r, pc[r] = "waiting")
  /\ UNCHANGED <<orgVars, appVars, host, prov>>

\* begin reads the registry again ...
Clear(r) ==
  /\ Up(r)
  /\ pc[r] = "claimed"
  /\ Unfenced(Org(r))
  /\ Goes(r, "cleared")
  /\ UNCHANGED <<orgVars, appVars, host, due, prov>>

\* ... and activates a request that is still queued
Begin(r) ==
  /\ Up(r)
  /\ pc[r] = "cleared"
  /\ req[r] = "queued"
  /\ req' = [req EXCEPT ![r] = "running"]
  /\ pending' = [pending EXCEPT ![r] = FALSE]
  /\ ok' = [ok EXCEPT ![r] = FALSE]
  /\ Goes(r, "begun") \/ (LostReply /\ Goes(r, "abandon"))
  /\ UNCHANGED <<job, versions, appVars, host, due, prov>>

Launch(r) ==
  /\ Up(r)
  /\ pc[r] = "begun"
  /\ Goes(r, "turn")
  /\ prov' = [prov EXCEPT ![r] = "on"]
  /\ UNCHANGED <<orgVars, appVars, host, due>>

\* a claim that will have no provider is released
BackOut(r) ==
  /\ Up(r)
  /\ pc[r] \in {"claimed", "cleared", "begun"}
  /\ \/ "giveup" \in Env
     \/ pc[r] = "cleared" /\ req[r] # "queued"
     \/ pc[r] = "claimed" /\ ~Unfenced(Org(r))
  /\ Goes(r, "abandon")
  /\ UNCHANGED <<orgVars, appVars, host, due, prov>>

Ends(r) == /\ Up(r)
           /\ pc[r] = "turn"
           /\ Goes(r, "complete")
           /\ prov' = [prov EXCEPT ![r] = "over"]
           /\ UNCHANGED <<orgVars, appVars, host, due>>

EndTurn(r) == "end" \in Env /\ Ends(r)

\* mutant of StopSignal: only a ticket that has ended stops its provider
StopSignalEnded(r) == ticket[r] \in EndedTicket /\ Ends(r)

\* tick: the ticket is not the claim this provider runs under
StopSignal(r) == ticket[r] # "running" /\ Ends(r)

\* release: the guard first - the org half, and its forward - and then the slot
GuardOrg(r) ==
  /\ Up(r)
  /\ \/ pc[r] = "complete" /\ CompleteReq(r)
     \/ pc[r] = "abandon" /\ AbortReq(r, TRUE)
  /\ Goes(r, "forward")
  /\ UNCHANGED <<job, appVars, host, due, prov>>

GuardForward(r) ==
  /\ Up(r)
  /\ pc[r] = "forward"
  /\ \/ pending[r] /\ req[r] = "done" /\ SetTicket(r, Finished(ticket[r]))
     \/ pending[r] /\ req[r] = "cancelled" /\ SetTicket(r, Acknowledged(Cancelled(ticket[r])))
     \/ ~pending[r] /\ UNCHANGED appVars
  /\ Goes(r, "freeing")
  /\ UNCHANGED <<orgVars, host, due, prov>>

FreeSlot(r) ==
  /\ Up(r)
  /\ pc[r] = "freeing"
  /\ SetTicket(r, Finished(ticket[r]))
  /\ Goes(r, "left")
  /\ UNCHANGED <<orgVars, host, due, prov>>

\* cancel_unstarted, retried until its reply is seen
Unclaim(r) ==
  /\ Up(r)
  /\ "unclaim" \in due[r]
  /\ SetTicket(r, IF ticket[r] \in OpenTicket THEN "cancelled" ELSE ticket[r])
  /\ due' = [due EXCEPT ![r] = @ \ {"unclaim"}]
  /\ UNCHANGED <<orgVars, host, pc, prov>>

\* Host.abandon of a request without a claim
Abandon(r) ==
  /\ Up(r)
  /\ "abandon" \in due[r]
  /\ AbortReq(r, FALSE)
  /\ due' = [due EXCEPT ![r] = @ \ {"abandon"}]
  /\ UNCHANGED <<job, appVars, host, pc, prov>>

\* an interrupt, a halt or a retirement cancels the request, in an org that was
\* open when it looked
CancelTurn(r) ==
  /\ "cancel" \in Env
  /\ SomeUp
  /\ req[r] \in {"pending", "queued", "running"}
  /\ CancelReq(r)
  /\ UNCHANGED <<job, appVars, host, pc, due, prov>>

-----------------------------------------------------------------------------
(* Crashes, and the recovery of what a dead instance owned. *)

\* the process ends with its callers and retained cleanups; providers may live on
Crash(h) ==
  /\ h \in Frail
  /\ host[h] = "up"
  /\ host' = [host EXCEPT ![h] = "crashed"]
  /\ pc' = [r \in Requests |-> IF HostOf[r] = h THEN "gone" ELSE pc[r]]
  /\ due' = [r \in Requests |-> IF HostOf[r] = h THEN {} ELSE due[r]]
  /\ UNCHANGED <<orgVars, appVars, prov>>

\* a provider that outlived its process ends by itself ...
OrphanEnds(r) ==
  /\ host[HostOf[r]] = "crashed"
  /\ prov[r] = "on"
  /\ prov' = [prov EXCEPT ![r] = "over"]
  /\ UNCHANGED <<orgVars, appVars, host, pc, due>>

\* ... or with the tree that the guardian kills and verifies
KillTree(h) ==
  /\ host[h] = "crashed"
  /\ host' = [host EXCEPT ![h] = "killed"]
  /\ prov' = [r \in Requests |-> IF HostOf[r] = h /\ prov[r] = "on" THEN "over" ELSE prov[r]]
  /\ UNCHANGED <<orgVars, appVars, pc, due>>

\* mutant of Reclaim: before the guardian has verified the death
ReclaimUnverified(h) ==
  /\ SomeUp
  /\ host[h] \in {"crashed", "killed"}
  /\ host' = [host EXCEPT ![h] = "dead"]
  /\ fences' = fences \cup (Orgs \X {h})
  /\ ticket' = [r \in Requests |-> IF HostOf[r] = h /\ ticket[r] \in OpenTicket
                                   THEN "lost" ELSE ticket[r]]
  /\ UNCHANGED <<orgVars, order, ring, last, limit, pc, due, prov>>

\* mutant of Reclaim: only the tickets that wait
ReclaimWaiting(h) ==
  /\ SomeUp
  /\ host[h] = "killed"
  /\ host' = [host EXCEPT ![h] = "dead"]
  /\ fences' = fences \cup (Orgs \X {h})
  /\ ticket' = [r \in Requests |-> IF HostOf[r] = h /\ ticket[r] = "waiting"
                                   THEN "lost" ELSE ticket[r]]
  /\ UNCHANGED <<orgVars, order, ring, last, limit, pc, due, prov>>

\* mutant of Reclaim: only the tickets that hold a slot
ReclaimHeld(h) ==
  /\ SomeUp
  /\ host[h] = "killed"
  /\ host' = [host EXCEPT ![h] = "dead"]
  /\ fences' = fences \cup (Orgs \X {h})
  /\ ticket' = [r \in Requests |-> IF HostOf[r] = h /\ ticket[r] \in Occupied
                                   THEN "lost" ELSE ticket[r]]
  /\ UNCHANGED <<orgVars, order, ring, last, limit, pc, due, prov>>

\* reclaim_verified: one app transaction fences the orgs and frees the tickets
Reclaim(h) ==
  /\ SomeUp
  /\ host[h] = "killed"
  /\ host' = [host EXCEPT ![h] = "dead"]
  /\ fences' = fences \cup (Orgs \X {h})
  /\ ticket' = [r \in Requests |-> IF HostOf[r] = h /\ ticket[r] \in OpenTicket
                                   THEN "lost" ELSE ticket[r]]
  /\ UNCHANGED <<orgVars, order, ring, last, limit, pc, due, prov>>

Fenced(r) == <<Org(r), HostOf[r]>> \in fences

\* reclaim_owner, in batches of one
LoseReq(r) ==
  /\ SomeUp
  /\ Fenced(r)
  /\ req[r] \in OpenReq
  /\ Commit(r, "lost")
  /\ UNCHANGED <<job, appVars, host, pc, due, prov>>

\* recover_orgs: no batch is left
Unfence(o, h) ==
  /\ SomeUp
  /\ <<o, h>> \in fences
  /\ \A r \in Requests : HostOf[r] = h /\ Org(r) = o => req[r] \notin OpenReq
  /\ fences' = fences \ {<<o, h>>}
  /\ UNCHANGED <<orgVars, ticket, order, ring, last, limit, host, pc, due, prov>>

-----------------------------------------------------------------------------
Bridge(r) == ClaimJob(r) \/ RunJob(r) \/ RetryJob(r) \/ EndUnrunnable(r)
             \/ Forward(r) \/ Confirm(r) \/ Synced(r)

Caller(r) == \/ Open(r) \/ Prepare(r) \/ QueueOne(r) \/ Prepared(r) \/ Enqueue(r) \/ Claim(r)
             \/ GiveUp(r) \/ Refused(r) \/ Clear(r) \/ Begin(r) \/ Launch(r) \/ BackOut(r)
             \/ EndTurn(r) \/ StopSignal(r) \/ GuardOrg(r) \/ GuardForward(r) \/ FreeSlot(r)
             \/ Unclaim(r) \/ Abandon(r)

Recovery == \/ \E h \in Hosts : KillTree(h) \/ Reclaim(h)
            \/ \E r \in Requests : LoseReq(r)
            \/ \E o \in Orgs, h \in Hosts : Unfence(o, h)

Next == \/ \E r \in Requests : Bridge(r) \/ Caller(r) \/ CancelTurn(r) \/ OrphanEnds(r)
        \/ \E h \in Hosts : Crash(h)
        \/ Recovery
        \/ SetLimit

Spec == Init /\ [][Next]_vars

-----------------------------------------------------------------------------
(* Safety. *)

\* A provider runs only while its ticket is charged: whatever is cancelled, lost,
\* repeated or recovered, no slot is free while the process it was given to lives.
SlotCoversProvider == \A r \in Requests : prov[r] = "on" => ticket[r] \in Occupied

\* Two providers of one agent never run at once, across processes and crashes.
OneProviderPerAgent ==
  \A q, r \in Requests :
    AgentOf[q] = AgentOf[r] /\ prov[q] = "on" /\ prov[r] = "on" => q = r

\* Host.operation: what a result or a tool call of a run must pass
MayPublish(r) == /\ host[HostOf[r]] # "dead"
                 /\ Unfenced(Org(r))
                 /\ req[r] = "running"

\* A run whose slot was given up or reclaimed can publish nothing any more, in a
\* database that never saw the slot.
PublisherHoldsSlot == \A r \in Requests : MayPublish(r) => ticket[r] \in Occupied

Active == {"opened", "prepared", "waiting", "claimed", "cleared", "begun", "turn",
           "complete", "abandon", "forward", "freeing"}

\* An open request or ticket of a living process has somebody who will close it,
\* and one of a dead process is closed or fenced: a waiting ticket that nobody
\* claims would hold up every org, a running one would keep its slot for good.
NothingStranded ==
  \A r \in Requests :
    /\ ticket[r] \in OpenTicket =>
         \/ Up(r) /\ (pc[r] \in Active \/ due[r] # {} \/ (pending[r] /\ req[r] \in EndedReq))
         \/ host[HostOf[r]] \in {"crashed", "killed"}
    /\ req[r] \in OpenReq =>
         \/ Up(r) /\ (pc[r] \in Active \/ "abandon" \in due[r])
         \/ host[HostOf[r]] \in {"crashed", "killed"}
         \/ Fenced(r)
-----------------------------------------------------------------------------
(* What keeps the halves together: the inductive invariant of the proofs.   *)

\* a caller lives with its process, and a dead process owns the fences
HostsKnown ==
  /\ \A r \in Requests : pc[r] = "gone" <=> ~Up(r)
  /\ \A o \in Orgs, h \in Hosts : <<o, h>> \in fences => host[h] = "dead"

\* what a request is while its caller is where it is
Staged ==
  \A r \in Requests :
    /\ pc[r] \in {"out", "opened"} => req[r] = "none"
    /\ pc[r] \in Active \ {"opened", "prepared"} => req[r] \notin {"none", "pending"}
    /\ pc[r] \in {"begun", "turn"} => req[r] \in Occupied
    /\ pc[r] \in {"forward", "freeing"} => req[r] \in EndedReq
    /\ req[r] \in Occupied => pc[r] \in {"begun", "turn", "complete", "abandon", "gone"}
    /\ req[r] = "lost" => host[HostOf[r]] = "dead"
    /\ due[r] # {} => pc[r] = "left"

\* where a provider can be
Running ==
  \A r \in Requests :
    /\ prov[r] = "on" => /\ req[r] \in Occupied
                         /\ pc[r] = "turn" \/ host[HostOf[r]] = "crashed"
    /\ prov[r] # "off" => pc[r] \in {"turn", "complete", "forward", "freeing", "left", "gone"}
    /\ pc[r] = "turn" => prov[r] = "on"

\* an ended version is the last one, and nothing is stopped while it is queued
LastVersion ==
  \A r \in Requests : /\ versions[r] \cap EndedReq \subseteq {req[r]}
                      /\ "stopping" \in versions[r] => req[r] \in {"stopping"} \cup EndedReq

\* a request that runs, or is about to, is charged
Charged ==
  \A r \in Requests :
    \/ pc[r] \in {"claimed", "cleared"} /\ req[r] = "queued"
    \/ req[r] \in Occupied /\ host[HostOf[r]] # "dead"
    => ticket[r] \in Occupied

OneOpenTicket ==
  \A q, r \in Requests :
    AgentOf[q] = AgentOf[r] /\ {ticket[q], ticket[r]} \subseteq OpenTicket => q = r

\* The two halves of a turn never disagree in a way that matters: a request is
\* active only under a charged ticket, an ended version is never overtaken, and an
\* agent never has two open tickets.
IInv == HostsKnown /\ Staged /\ Running /\ LastVersion /\ Charged /\ OneOpenTicket

\* no ticket is made of a request that nobody has queued
Unasked ==
  \A r \in Requests : req[r] \in {"none", "pending"} => versions[r] = {} /\ ticket[r] = "none"

\* an ended request is forwarded until its ticket has ended too
HandedOver ==
  \A r \in Requests : req[r] \in EndedReq /\ (ok[r] \/ ~pending[r])
                        => ticket[r] \in EndedTicket \/ host[HostOf[r]] = "dead"

\* the tickets of a dead process are closed, and it gets no new ones
DeadClosed == \A r \in Requests : host[HostOf[r]] = "dead" => ticket[r] \notin OpenTicket

\* who will close an open request
ReqClosed ==
  \A r \in Requests :
    req[r] \in OpenReq => \/ Up(r) /\ (pc[r] \in Active \/ "abandon" \in due[r])
                          \/ host[HostOf[r]] \in {"crashed", "killed"}
                          \/ Fenced(r)

\* Who closes what a turn has opened, in either database, at every step of its caller.
Closing == Unasked /\ HandedOver /\ DeadClosed /\ ReqClosed
-----------------------------------------------------------------------------
(* The lease of a turn is its ticket. *)

leaseOf == [r \in Requests |-> CASE ticket[r] = "none" -> "none"
                                 [] ticket[r] = "waiting" -> "asked"
                                 [] ticket[r] \in Occupied -> "held"
                                 [] OTHER -> "ended"]

Leases == INSTANCE TurnLeases WITH Turns <- Requests, lease <- leaseOf, run <- prov

\* Two databases, a bridge that repeats itself and processes that crash behave as
\* one lease per turn: granted under the limit, never revived, never ended under a
\* provider.
LeaseSpec == Leases!Spec

-----------------------------------------------------------------------------
(* Liveness. *)

\* what the caller of a turn, its host and the bridge do unasked, on an org that is
\* open: the tick, the retries and the waits all come back to it
Proceeds(r) ==
  \/ QueueOne(r) \/ Prepared(r) \/ Enqueue(r) \/ Claim(r) \/ Refused(r) \/ Clear(r)
  \/ Begin(r) \/ Launch(r) \/ BackOut(r) \/ StopSignal(r)
  \/ GuardOrg(r) \/ GuardForward(r) \/ FreeSlot(r) \/ Unclaim(r) \/ Abandon(r)
  \/ ClaimJob(r) \/ RunJob(r) \/ EndUnrunnable(r)
  \/ Unfenced(Org(r)) /\ (Forward(r) \/ Confirm(r) \/ Synced(r))

\* None of these steps can be repeated for ever, so each is taken in the end.
\* Nothing makes a provider end by itself, or a turn begin.
Fairness == (\A r \in Requests : WF_vars(Proceeds(r))) /\ WF_vars(Recovery)

FairSpec == Spec /\ Fairness

\* A cancelled turn's provider stops, though whoever cancelled it may crash before
\* the app database or the process that runs it has heard of it.
CancelStops == \A r \in Requests : req[r] = "stopping" ~> prov[r] # "on"

\* An ended request frees its ticket and stops being forwarded; one that was done
\* when its ticket was lost with its process is forwarded for ever (HandoffsSettle
\* shows it).
HalvesSettle ==
  \A r \in Requests :
    req[r] \in EndedReq ~> /\ ticket[r] \notin OpenTicket
                           /\ pending[r] => req[r] = "done" /\ ticket[r] = "lost"

\* A crash between the two commits of a turn is repaired: its handoff ends.
HandoffsSettle == \A r \in Requests : req[r] \in EndedReq ~> ~pending[r]

\* A caller waits only behind providers that run: no stranded ticket holds it up.
WaitersMove ==
  \A r \in Requests : pc[r] = "waiting" /\ limit > 0
                        ~> pc[r] # "waiting" \/ \E q \in Requests : prov[q] = "on"
=============================================================================
