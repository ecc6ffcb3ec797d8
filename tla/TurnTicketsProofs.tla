------------------------- MODULE TurnTicketsProofs -------------------------
(***************************************************************************)
(* The two halves of a turn, for any turns, agents, orgs, processes and    *)
(* limits.                                                                 *)
(***************************************************************************)
EXTENDS TurnTickets, TLAPS

ReqStates == {"none"} \cup OpenReq \cup EndedReq
JobStates == {"none", "queued", "running", "done", "failed"}
Marks == {"queued", "stopping", "done", "cancelled", "lost"}
TicketStates == {"none"} \cup OpenTicket \cup EndedTicket
Places == {"out", "opened", "prepared", "waiting", "claimed", "cleared", "begun", "turn",
           "complete", "abandon", "forward", "freeing", "left", "gone"}

(* The types in four parts: of the two databases, the processes, the callers. *)

ReqTypes == /\ req \in [Requests -> ReqStates]
            /\ pending \in [Requests -> BOOLEAN]
            /\ versions \in [Requests -> SUBSET Marks]
            /\ ok \in [Requests -> BOOLEAN]

JobTypes == job \in [Requests -> JobStates]

AppTypes == /\ ticket \in [Requests -> TicketStates]
            /\ order \in Seq(Requests)
            /\ ring \in Seq(Orgs)
            /\ last \in Orgs \cup {None}
            /\ limit \in 0..MaxLimit
            /\ fences \subseteq Orgs \X Hosts

HostTypes == host \in [Hosts -> {"up", "crashed", "killed", "dead"}]

CallTypes == /\ pc \in [Requests -> Places]
             /\ due \in [Requests -> SUBSET {"unclaim", "abandon"}]

ProvTypes == prov \in [Requests -> {"off", "on", "over"}]

LEMMA TypeParts ==
  TypeOK <=> ReqTypes /\ JobTypes /\ AppTypes /\ HostTypes /\ CallTypes /\ ProvTypes
BY DEF TypeOK, ReqTypes, JobTypes, AppTypes, HostTypes, CallTypes, ProvTypes, ReqStates,
   JobStates, Marks, TicketStates, Places

LEMMA TypePartsNext ==
  TypeOK' <=> /\ ReqTypes' /\ JobTypes' /\ AppTypes' /\ HostTypes' /\ CallTypes' /\ ProvTypes'
BY DEF TypeOK, ReqTypes, JobTypes, AppTypes, HostTypes, CallTypes, ProvTypes, ReqStates,
   JobStates, Marks, TicketStates, Places

LEMMA SameParts ==
  /\ ReqTypes /\ UNCHANGED <<req, pending, versions, ok>> => ReqTypes'
  /\ JobTypes /\ UNCHANGED job => JobTypes'
  /\ AppTypes /\ UNCHANGED appVars => AppTypes'
  /\ HostTypes /\ UNCHANGED host => HostTypes'
  /\ CallTypes /\ UNCHANGED <<pc, due>> => CallTypes'
  /\ ProvTypes /\ UNCHANGED prov => ProvTypes'
<1>1. ReqTypes /\ UNCHANGED <<req, pending, versions, ok>> => ReqTypes'
  BY DEF ReqTypes
<1>2. AppTypes /\ UNCHANGED appVars => AppTypes'
  BY DEF AppTypes, appVars
<1>3. CallTypes /\ UNCHANGED <<pc, due>> => CallTypes'
  BY DEF CallTypes
<1> QED BY <1>1, <1>2, <1>3 DEF JobTypes, HostTypes, ProvTypes

LEMMA InitTypeOK == Init => TypeOK
<1> SUFFICES ASSUME Init PROVE TypeOK
  OBVIOUS
<1>1. ReqTypes
  BY DEF Init, ReqTypes, ReqStates
<1>2. JobTypes
  BY DEF Init, JobTypes, JobStates
<1>3. AppTypes
  BY LimitAssumption DEF Init, AppTypes, TicketStates
<1>4. HostTypes /\ CallTypes /\ ProvTypes
  BY DEF Init, HostTypes, CallTypes, ProvTypes, Places
<1> QED BY <1>1, <1>2, <1>3, <1>4, TypeParts

LEMMA OrgType == \A r \in Requests : Org(r) \in Orgs /\ HostOf[r] \in Hosts
BY AgentAssumption, OrgAssumption, HostAssumption DEF Org

(* The operations of the two databases keep their part. *)

LEMMA CommitTypes ==
  ASSUME ReqTypes, NEW r \in Requests, NEW st \in Marks, Commit(r, st) PROVE ReqTypes'
BY DEF ReqTypes, Commit, ReqStates, Marks, OpenReq, EndedReq

LEMMA OrgOperationTypes ==
  ASSUME ReqTypes, NEW r \in Requests, NEW claimed \in BOOLEAN,
         CancelReq(r) \/ AbortReq(r, claimed) \/ CompleteReq(r)
  PROVE  ReqTypes'
<1>1. SameOrgHalf => ReqTypes'
  BY SameParts DEF SameOrgHalf
<1>2. (\E st \in Marks : Commit(r, st)) => ReqTypes'
  BY CommitTypes
<1>3. SameOrgHalf \/ \E st \in Marks : Commit(r, st)
  BY DEF CancelReq, AbortReq, CompleteReq, Marks
<1> QED BY <1>1, <1>2, <1>3

LEMMA CreateTypes ==
  ASSUME ReqTypes, JobTypes, NEW r \in Requests, Create(r) PROVE ReqTypes' /\ JobTypes'
BY DEF ReqTypes, JobTypes, Create, ReqStates, JobStates, OpenReq

LEMMA QueueJobTypes ==
  ASSUME ReqTypes, JobTypes, NEW r \in Requests, QueueJob(r) PROVE ReqTypes' /\ JobTypes'
<1>1. JobTypes'
  BY DEF JobTypes, QueueJob, JobStates
<1>2. ReqTypes'
  BY CommitTypes, SameParts DEF QueueJob, SameOrgHalf, Marks
<1> QED BY <1>1, <1>2

LEMMA TicketTypes ==
  ASSUME AppTypes, NEW r \in Requests, NEW st \in TicketStates, SetTicket(r, st) PROVE AppTypes'
BY DEF AppTypes, SetTicket

LEMMA NextTicket ==
  \A st \in TicketStates : {Cancelled(st), Acknowledged(st), Finished(st)} \subseteq TicketStates
BY DEF TicketStates, Cancelled, Acknowledged, Finished, OpenTicket, Occupied, EndedTicket

LEMMA EnqueueTypes ==
  ASSUME AppTypes, NEW r \in Requests, EnqueueTicket(r) PROVE AppTypes'
<1>1. ring' \in Seq(Orgs)
  BY OrgType DEF AppTypes, EnqueueTicket
<1>2. CASE ticket[r] = "none"
  <2>1. ticket' = [ticket EXCEPT ![r] = "waiting"] /\ order' = Append(order, r)
    BY <1>2 DEF EnqueueTicket
  <2>2. ticket' \in [Requests -> TicketStates]
    BY <2>1 DEF AppTypes, TicketStates, OpenTicket
  <2>3. order' \in Seq(Requests)
    BY <2>1 DEF AppTypes
  <2> QED BY <1>1, <2>2, <2>3 DEF AppTypes, EnqueueTicket
<1>3. CASE ticket[r] # "none"
  BY <1>1, <1>3 DEF AppTypes, EnqueueTicket
<1> QED BY <1>2, <1>3

LEMMA ClaimTypes ==
  ASSUME AppTypes, NEW r \in Requests, ClaimTicket(r) PROVE AppTypes'
<1>1. last' \in Orgs
  BY OrgType DEF ClaimTicket
<1>2. ticket' \in [Requests -> TicketStates]
  BY DEF AppTypes, ClaimTicket, TicketStates, OpenTicket, Occupied
<1> QED BY <1>1, <1>2 DEF AppTypes, ClaimTicket

LEMMA GoesTypes ==
  ASSUME CallTypes, NEW r \in Requests, NEW p \in Places,
         Goes(r, p), UNCHANGED due
  PROVE  CallTypes'
BY DEF CallTypes, Goes

LEMMA LeavesTypes ==
  ASSUME CallTypes, NEW r \in Requests, NEW asked \in BOOLEAN, Leaves(r, asked)
  PROVE  CallTypes'
BY DEF CallTypes, Leaves, Goes, Places

(* Types, one lemma for each group of steps. *)

LEMMA BridgeTypes == ASSUME TypeOK, NEW r \in Requests, Bridge(r) PROVE TypeOK'
<1> USE TypeParts, TypePartsNext, SameParts
<1>1. CASE ClaimJob(r) \/ RetryJob(r)
  <2>1. JobTypes'
    BY <1>1 DEF ClaimJob, RetryJob, JobTypes, JobStates
  <2> QED BY <1>1, <2>1 DEF ClaimJob, RetryJob
<1>2. CASE RunJob(r)
  BY <1>2, QueueJobTypes DEF RunJob
<1>3. CASE EndUnrunnable(r)
  BY <1>3, OrgOperationTypes DEF EndUnrunnable
<1>4. CASE Confirm(r)
  <2>1. ReqTypes'
    BY <1>4 DEF Confirm, ReqTypes
  <2> QED BY <1>4, <2>1 DEF Confirm
<1>5. CASE Synced(r)
  <2>1. ReqTypes'
    BY <1>5 DEF Synced, ReqTypes
  <2> QED BY <1>5, <2>1 DEF Synced
<1>6. CASE Forward(r)
  <2>1. ticket[r] \in TicketStates
    BY DEF AppTypes
  <2>2. AppTypes'
    BY <1>6, <2>1, EnqueueTypes, TicketTypes, NextTicket
    DEF Forward, ForwardQueued, ForwardCancel, ForwardAck, ForwardDone, TicketStates, EndedTicket
  <2> QED BY <1>6, <2>2 DEF Forward, orgVars
<1> QED BY <1>1, <1>2, <1>3, <1>4, <1>5, <1>6 DEF Bridge

LEMMA CallerTypes == ASSUME TypeOK, NEW r \in Requests, Caller(r) PROVE TypeOK'
<1> USE TypeParts, TypePartsNext, SameParts
<1>1. CASE Open(r) \/ Prepared(r) \/ Clear(r) \/ BackOut(r)
  <2>1. CallTypes'
    BY <1>1, GoesTypes DEF Open, Prepared, Clear, BackOut, Places
  <2> QED BY <1>1, <2>1 DEF Open, Prepared, Clear, BackOut, orgVars
<1>2. CASE GiveUp(r) \/ Refused(r)
  <2>1. CallTypes'
    BY <1>2, LeavesTypes DEF GiveUp, Refused
  <2> QED BY <1>2, <2>1 DEF GiveUp, Refused, orgVars
<1>3. CASE Prepare(r)
  <2>1. CallTypes'
    BY <1>3, GoesTypes, LeavesTypes DEF Prepare, Places
  <2> QED BY <1>3, <2>1, CreateTypes DEF Prepare
<1>4. CASE QueueOne(r)
  BY <1>4, QueueJobTypes DEF QueueOne
<1>5. CASE Enqueue(r)
  BY <1>5, EnqueueTypes DEF Enqueue, orgVars
<1>6. CASE Claim(r)
  <2>1. CallTypes'
    BY <1>6, GoesTypes, LeavesTypes DEF Claim, Places
  <2> QED BY <1>6, <2>1, ClaimTypes DEF Claim, orgVars
<1>7. CASE Begin(r)
  <2>1. CallTypes'
    BY <1>7, GoesTypes DEF Begin, Places
  <2>2. ReqTypes'
    BY <1>7 DEF Begin, ReqTypes, ReqStates, OpenReq
  <2> QED BY <1>7, <2>1, <2>2 DEF Begin
<1>8. CASE Launch(r) \/ EndTurn(r) \/ StopSignal(r)
  <2>1. CallTypes'
    BY <1>8, GoesTypes DEF Launch, EndTurn, StopSignal, Ends, Places
  <2>2. ProvTypes'
    BY <1>8 DEF Launch, EndTurn, StopSignal, Ends, ProvTypes
  <2> QED BY <1>8, <2>1, <2>2 DEF Launch, EndTurn, StopSignal, Ends, orgVars
<1>9. CASE GuardOrg(r)
  <2>1. CallTypes'
    BY <1>9, GoesTypes DEF GuardOrg, Places
  <2> QED BY <1>9, <2>1, OrgOperationTypes DEF GuardOrg
<1>10. CASE GuardForward(r) \/ FreeSlot(r)
  <2>1. CallTypes'
    BY <1>10, GoesTypes DEF GuardForward, FreeSlot, Places
  <2>2. ticket[r] \in TicketStates
    BY DEF AppTypes
  <2>3. AppTypes'
    BY <1>10, <2>2, NextTicket, TicketTypes DEF GuardForward, FreeSlot
  <2> QED BY <1>10, <2>1, <2>3 DEF GuardForward, FreeSlot, orgVars
<1>11. CASE Unclaim(r)
  <2>1. CallTypes'
    BY <1>11 DEF Unclaim, CallTypes
  <2>2. ticket[r] \in TicketStates /\ "cancelled" \in TicketStates
    BY DEF AppTypes, TicketStates, EndedTicket
  <2>3. AppTypes'
    BY <1>11, <2>2, TicketTypes DEF Unclaim
  <2> QED BY <1>11, <2>1, <2>3 DEF Unclaim, orgVars
<1>12. CASE Abandon(r)
  <2>1. CallTypes'
    BY <1>12 DEF Abandon, CallTypes
  <2> QED BY <1>12, <2>1, OrgOperationTypes DEF Abandon
<1> QED BY <1>1, <1>2, <1>3, <1>4, <1>5, <1>6, <1>7, <1>8, <1>9, <1>10, <1>11, <1>12 DEF Caller

LEMMA HostStepTypes ==
  ASSUME TypeOK,
         Recovery \/ (\E h \in Hosts : Crash(h)) \/ SetLimit
           \/ (\E r \in Requests : CancelTurn(r) \/ OrphanEnds(r))
  PROVE  TypeOK'
<1> USE TypeParts, TypePartsNext, SameParts
<1>1. ASSUME NEW h \in Hosts, KillTree(h) PROVE TypeOK'
  <2>1. HostTypes'
    BY <1>1 DEF KillTree, HostTypes
  <2>2. ProvTypes'
    BY <1>1 DEF KillTree, ProvTypes
  <2> QED BY <1>1, <2>1, <2>2 DEF KillTree, orgVars
<1>2. ASSUME NEW h \in Hosts, Reclaim(h) PROVE TypeOK'
  <2>1. HostTypes'
    BY <1>2 DEF Reclaim, HostTypes
  <2>2. AppTypes'
    BY <1>2 DEF Reclaim, AppTypes, TicketStates, EndedTicket
  <2> QED BY <1>2, <2>1, <2>2 DEF Reclaim, orgVars
<1>3. ASSUME NEW h \in Hosts, Crash(h) PROVE TypeOK'
  <2>1. HostTypes'
    BY <1>3 DEF Crash, HostTypes
  <2>2. CallTypes'
    BY <1>3 DEF Crash, CallTypes, Places
  <2> QED BY <1>3, <2>1, <2>2 DEF Crash, orgVars
<1>4. ASSUME NEW r \in Requests, LoseReq(r) \/ CancelTurn(r) PROVE TypeOK'
  <2>1. ReqTypes'
    BY <1>4, CommitTypes, OrgOperationTypes DEF LoseReq, CancelTurn, Marks
  <2> QED BY <1>4, <2>1 DEF LoseReq, CancelTurn
<1>5. ASSUME NEW r \in Requests, OrphanEnds(r) PROVE TypeOK'
  <2>1. ProvTypes'
    BY <1>5 DEF OrphanEnds, ProvTypes
  <2> QED BY <1>5, <2>1 DEF OrphanEnds, orgVars
<1>6. CASE \E o \in Orgs, h \in Hosts : Unfence(o, h)
  <2>1. AppTypes'
    BY <1>6 DEF Unfence, AppTypes
  <2> QED BY <1>6, <2>1 DEF Unfence, orgVars
<1>7. CASE SetLimit
  <2>1. AppTypes'
    BY <1>7 DEF SetLimit, AppTypes
  <2> QED BY <1>7, <2>1 DEF SetLimit, orgVars
<1> QED BY <1>1, <1>2, <1>3, <1>4, <1>5, <1>6, <1>7 DEF Recovery

LEMMA NextTypes == TypeOK /\ [Next]_vars => TypeOK'
<1> SUFFICES ASSUME TypeOK, [Next]_vars PROVE TypeOK'
  OBVIOUS
<1>1. CASE UNCHANGED vars
  BY <1>1, TypeParts, TypePartsNext, SameParts DEF vars, orgVars
<1>2. CASE Next
  BY <1>2, BridgeTypes, CallerTypes, HostStepTypes DEF Next
<1> QED BY <1>1, <1>2

\* Every variable keeps its type: a request, its ticket, its caller and its
\* provider only ever take the states of the two tables and of the process.
THEOREM TypesHold == Spec => []TypeOK
BY InitTypeOK, NextTypes, PTL DEF Spec

(* The invariant: what a step leaves alone. *)

LEMMA KeptParts ==
  /\ HostsKnown /\ UNCHANGED <<host, pc, fences>> => HostsKnown'
  /\ Staged /\ UNCHANGED <<req, pc, due, host>> => Staged'
  /\ Running /\ UNCHANGED <<req, pc, host, prov>> => Running'
  /\ LastVersion /\ UNCHANGED <<req, versions>> => LastVersion'
  /\ Charged /\ UNCHANGED <<req, ticket, pc, host>> => Charged'
  /\ OneOpenTicket /\ UNCHANGED ticket => OneOpenTicket'
<1>1. HostsKnown /\ UNCHANGED <<host, pc, fences>> => HostsKnown'
  BY DEF HostsKnown, Up
<1>2. Staged /\ UNCHANGED <<req, pc, due, host>> => Staged'
  BY DEF Staged
<1>3. Running /\ UNCHANGED <<req, pc, host, prov>> => Running'
  BY DEF Running
<1>4. LastVersion /\ UNCHANGED <<req, versions>> => LastVersion'
  BY DEF LastVersion
<1>5. Charged /\ UNCHANGED <<req, ticket, pc, host>> => Charged'
  BY DEF Charged
<1>6. OneOpenTicket /\ UNCHANGED ticket => OneOpenTicket'
  BY DEF OneOpenTicket
<1> QED BY <1>1, <1>2, <1>3, <1>4, <1>5, <1>6

LEMMA InitIInv == Init => IInv
<1> SUFFICES ASSUME Init PROVE IInv
  OBVIOUS
<1>1. HostsKnown /\ OneOpenTicket
  BY HostAssumption DEF Init, HostsKnown, Up, OneOpenTicket, OpenTicket, Occupied
<1>2. Staged /\ Running /\ LastVersion /\ Charged
  BY DEF Init, Staged, Running, LastVersion, Charged, Active, Occupied, EndedReq
<1> QED BY <1>1, <1>2 DEF IInv

(* The operations on a ticket. *)

LEMMA EnqueueTicketKeeps ==
  ASSUME TypeOK, IInv, NEW r \in Requests, EnqueueTicket(r),
         UNCHANGED <<orgVars, host, pc, due, prov>>
  PROVE  IInv'
<1>1. CASE ticket[r] = "none"
  <2>1. ticket' = [ticket EXCEPT ![r] = "waiting"] /\ OneOpen(r)
    BY <1>1 DEF EnqueueTicket, MayEnqueue
  <2>2. Charged'
    BY <1>1, <2>1, TypeParts DEF IInv, Charged, AppTypes, Occupied, orgVars
  <2>3. OneOpenTicket'
    BY <2>1, TypeParts DEF IInv, OneOpenTicket, OneOpen, AppTypes, OpenTicket
  <2> QED BY <2>2, <2>3, KeptParts DEF IInv, EnqueueTicket, orgVars
<1>2. CASE ticket[r] # "none"
  BY <1>2, KeptParts DEF IInv, EnqueueTicket, orgVars
<1> QED BY <1>1, <1>2

\* a ticket never opens again, and one that is needed stays charged
LEMMA SetTicketKeeps ==
  ASSUME TypeOK, IInv, NEW r \in Requests, NEW st \in TicketStates, SetTicket(r, st),
         UNCHANGED <<orgVars, host, pc, due, prov>>,
         st \in OpenTicket => ticket[r] \in OpenTicket,
         req[r] \in {"queued"} \cup Occupied /\ ticket[r] \in Occupied => st \in Occupied
  PROVE  IInv'
<1>1. ticket' = [ticket EXCEPT ![r] = st]
  BY DEF SetTicket
<1>2. Charged'
  BY <1>1, TypeParts DEF IInv, Charged, AppTypes, orgVars
<1>3. OneOpenTicket'
  BY <1>1, TypeParts DEF IInv, OneOpenTicket, AppTypes
<1> QED BY <1>2, <1>3, KeptParts DEF IInv, SetTicket, orgVars

LEMMA ForwardKeeps == ASSUME TypeOK, IInv, NEW r \in Requests, Forward(r) PROVE IInv'
<1>0. ticket[r] \in TicketStates
  BY TypeParts DEF AppTypes
<1>1. versions[r] \cap EndedReq \subseteq {req[r]}
  BY DEF IInv, LastVersion
<1>2. CASE ForwardQueued(r)
  BY <1>2, EnqueueTicketKeeps DEF Forward, ForwardQueued
<1>3. CASE ForwardCancel(r)
  <2>1. req[r] \in {"stopping"} \cup EndedReq
    BY <1>1, <1>3 DEF ForwardCancel, IInv, LastVersion, EndedReq
  <2>2. Cancelled(ticket[r]) \in OpenTicket => ticket[r] \in OpenTicket
    BY DEF Cancelled, OpenTicket, Occupied
  <2>3. ticket[r] \in Occupied => Cancelled(ticket[r]) \in Occupied
    BY DEF Cancelled, Occupied
  <2> QED BY <1>0, <1>3, <2>2, <2>3, NextTicket, SetTicketKeeps
      DEF Forward, ForwardCancel
<1>4. CASE ForwardAck(r) \/ ForwardDone(r)
  <2>1. req[r] \in EndedReq
    BY <1>1, <1>4 DEF ForwardAck, ForwardDone, EndedReq
  <2> QED BY <1>4, <2>1, SetTicketKeeps
      DEF Forward, ForwardAck, ForwardDone, TicketStates, OpenTicket, Occupied, EndedTicket, EndedReq
<1> QED BY <1>2, <1>3, <1>4 DEF Forward

LEMMA EnqueueKeeps == ASSUME TypeOK, IInv, NEW r \in Requests, Enqueue(r) PROVE IInv'
BY EnqueueTicketKeeps DEF Enqueue

LEMMA RunJobKeeps == ASSUME TypeOK, IInv, NEW r \in Requests, RunJob(r) PROVE IInv'
<1> USE TypeParts
<1>1. Staged'
  BY DEF IInv, Staged, Occupied, EndedReq, ReqTypes, RunJob, QueueJob, Commit, SameOrgHalf
<1>2. Running'
  BY DEF IInv, Running, Occupied, ReqTypes, RunJob, QueueJob, Commit, SameOrgHalf
<1>3. LastVersion'
  BY DEF IInv, LastVersion, EndedReq, ReqTypes, RunJob, QueueJob, Commit, SameOrgHalf
<1>4. Charged'
  BY DEF IInv, Staged, Charged, Active, Occupied, ReqTypes, RunJob, QueueJob, Commit, SameOrgHalf, appVars
<1> QED BY <1>1, <1>2, <1>3, <1>4, KeptParts DEF IInv, RunJob, Commit, SameOrgHalf, appVars

LEMMA EndUnrunnableKeeps == ASSUME TypeOK, IInv, NEW r \in Requests, EndUnrunnable(r) PROVE IInv'
<1> USE TypeParts
<1>1. Staged'
  BY DEF IInv, Staged, Occupied, EndedReq, ReqTypes, EndUnrunnable, CancelReq, Commit
<1>2. Running'
  BY DEF IInv, Running, Occupied, ReqTypes, EndUnrunnable, CancelReq, Commit
<1>3. LastVersion'
  BY DEF IInv, LastVersion, EndedReq, ReqTypes, EndUnrunnable, CancelReq, Commit
<1>4. Charged'
  BY DEF IInv, Charged, Occupied, ReqTypes, EndUnrunnable, CancelReq, Commit, appVars
<1> QED BY <1>1, <1>2, <1>3, <1>4, KeptParts DEF IInv, EndUnrunnable, Commit, appVars

LEMMA OpenKeeps == ASSUME TypeOK, IInv, NEW r \in Requests, Open(r) PROVE IInv'
<1> USE TypeParts
<1>1. HostsKnown'
  BY DEF IInv, HostsKnown, Up, Open, Goes, appVars
<1>2. Staged'
  BY DEF IInv, Staged, Open, Goes, orgVars
<1>3. Running'
  BY DEF IInv, Running, Open, Goes, orgVars
<1>4. Charged'
  BY DEF IInv, Charged, Open, Goes, orgVars, appVars
<1> QED BY <1>1, <1>2, <1>3, <1>4, KeptParts DEF IInv, Open, Goes, orgVars, appVars

LEMMA PrepareKeeps == ASSUME TypeOK, IInv, NEW r \in Requests, Prepare(r) PROVE IInv'
<1> USE TypeParts
<1>1. HostsKnown'
  BY DEF IInv, HostsKnown, Up, CallTypes, Prepare, Goes, Leaves, appVars
<1>2. Staged'
  BY DEF IInv, Staged, Active, Occupied, CallTypes, Prepare, Create, Goes, Leaves
<1>3. Running'
  BY DEF IInv, Running, CallTypes, Prepare, Create, Goes, Leaves
<1>4. LastVersion'
  BY DEF IInv, Staged, LastVersion, EndedReq, Prepare, Create
<1>5. Charged'
  BY DEF IInv, Charged, Occupied, CallTypes, Prepare, Create, Goes, Leaves, appVars
<1> QED BY <1>1, <1>2, <1>3, <1>4, <1>5, KeptParts DEF IInv, Prepare, Goes, Leaves, appVars

LEMMA QueueOneKeeps == ASSUME TypeOK, IInv, NEW r \in Requests, QueueOne(r) PROVE IInv'
<1> USE TypeParts
<1>1. Staged'
  BY DEF IInv, Staged, Occupied, ReqTypes, QueueOne, QueueJob, Commit
<1>2. Running'
  BY DEF IInv, Running, ReqTypes, QueueOne, QueueJob, Commit
<1>3. LastVersion'
  BY DEF IInv, LastVersion, EndedReq, ReqTypes, QueueOne, QueueJob, Commit
<1>4. Charged'
  BY DEF IInv, Charged, Occupied, ReqTypes, QueueOne, QueueJob, Commit, appVars
<1> QED BY <1>1, <1>2, <1>3, <1>4, KeptParts DEF IInv, QueueOne, Commit, appVars

LEMMA PreparedKeeps == ASSUME TypeOK, IInv, NEW r \in Requests, Prepared(r) PROVE IInv'
<1> USE TypeParts
<1>1. HostsKnown'
  BY DEF IInv, HostsKnown, Up, Prepared, Goes, appVars
<1>2. Staged'
  BY DEF IInv, Staged, Prepared, Goes, orgVars
<1>3. Running'
  BY DEF IInv, Running, Prepared, Goes, orgVars
<1>4. Charged'
  BY DEF IInv, Charged, Prepared, Goes, orgVars, appVars
<1> QED BY <1>1, <1>2, <1>3, <1>4, KeptParts DEF IInv, Prepared, Goes, orgVars, appVars

LEMMA ClaimKeeps == ASSUME TypeOK, IInv, NEW r \in Requests, Claim(r) PROVE IInv'
<1> USE TypeParts
<1>1. HostsKnown'
  BY DEF IInv, HostsKnown, Up, CallTypes, Claim, ClaimTicket, Goes, Leaves
<1>2. Staged'
  BY DEF IInv, Staged, Active, CallTypes, Claim, ClaimTicket, Goes, Leaves, orgVars
<1>3. Running'
  BY DEF IInv, Running, CallTypes, Claim, ClaimTicket, Goes, Leaves, orgVars
<1>4. Charged'
  BY DEF IInv, Charged, Occupied, AppTypes, CallTypes, Claim, ClaimTicket, Goes, Leaves, orgVars
<1>5. OneOpenTicket'
  BY DEF IInv, OneOpenTicket, OpenTicket, Claim, ClaimTicket, FairHead, Firsts
<1> QED BY <1>1, <1>2, <1>3, <1>4, <1>5, KeptParts DEF IInv, Claim, orgVars

LEMMA GiveUpKeeps == ASSUME TypeOK, IInv, NEW r \in Requests, GiveUp(r) PROVE IInv'
<1> USE TypeParts
<1>1. HostsKnown'
  BY DEF IInv, HostsKnown, Up, GiveUp, Leaves, Goes, appVars
<1>2. Staged'
  BY DEF IInv, Staged, Active, CallTypes, GiveUp, Leaves, Goes, orgVars
<1>3. Running'
  BY DEF IInv, Running, GiveUp, Leaves, Goes, orgVars
<1>4. Charged'
  BY DEF IInv, Charged, GiveUp, Leaves, Goes, orgVars, appVars
<1> QED BY <1>1, <1>2, <1>3, <1>4, KeptParts DEF IInv, GiveUp, Leaves, Goes, orgVars, appVars

LEMMA RefusedKeeps == ASSUME TypeOK, IInv, NEW r \in Requests, Refused(r) PROVE IInv'
<1> USE TypeParts
<1>1. HostsKnown'
  BY DEF IInv, HostsKnown, Up, Refused, Leaves, Goes, appVars
<1>2. Staged'
  BY DEF IInv, Staged, Active, CallTypes, Refused, Leaves, Goes, orgVars
<1>3. Running'
  BY DEF IInv, Running, Refused, Leaves, Goes, orgVars
<1>4. Charged'
  BY DEF IInv, Charged, Refused, Leaves, Goes, orgVars, appVars
<1> QED BY <1>1, <1>2, <1>3, <1>4, KeptParts DEF IInv, Refused, Leaves, Goes, orgVars, appVars

LEMMA ClearKeeps == ASSUME TypeOK, IInv, NEW r \in Requests, Clear(r) PROVE IInv'
<1> USE TypeParts
<1>1. HostsKnown'
  BY DEF IInv, HostsKnown, Up, Clear, Goes, appVars
<1>2. Staged'
  BY DEF IInv, Staged, Active, Clear, Goes, orgVars
<1>3. Running'
  BY DEF IInv, Running, Clear, Goes, orgVars
<1>4. Charged'
  BY DEF IInv, Charged, Clear, Goes, orgVars, appVars
<1> QED BY <1>1, <1>2, <1>3, <1>4, KeptParts DEF IInv, Clear, Goes, orgVars, appVars

LEMMA BeginKeeps == ASSUME TypeOK, IInv, NEW r \in Requests, Begin(r) PROVE IInv'
<1> USE TypeParts
<1>1. HostsKnown'
  BY DEF IInv, HostsKnown, Up, CallTypes, Begin, Goes, appVars
<1>2. Staged'
  BY DEF IInv, Staged, Occupied, CallTypes, ReqTypes, Begin, Goes
<1>3. Running'
  BY DEF IInv, Running, CallTypes, Begin, Goes
<1>4. LastVersion'
  BY DEF IInv, LastVersion, EndedReq, Begin
<1>5. Charged'
  BY DEF IInv, Charged, CallTypes, Begin, Goes, appVars
<1> QED BY <1>1, <1>2, <1>3, <1>4, <1>5, KeptParts DEF IInv, Begin, Goes, appVars

LEMMA LaunchKeeps == ASSUME TypeOK, IInv, NEW r \in Requests, Launch(r) PROVE IInv'
<1> USE TypeParts
<1>1. HostsKnown'
  BY DEF IInv, HostsKnown, Up, Launch, Goes, appVars
<1>2. Staged'
  BY DEF IInv, Staged, Occupied, Launch, Goes, orgVars
<1>3. Running'
  BY DEF IInv, Staged, Running, CallTypes, ProvTypes, Launch, Goes, orgVars
<1>4. Charged'
  BY DEF IInv, Charged, Launch, Goes, orgVars, appVars
<1> QED BY <1>1, <1>2, <1>3, <1>4, KeptParts DEF IInv, Launch, Goes, orgVars, appVars

LEMMA BackOutKeeps == ASSUME TypeOK, IInv, NEW r \in Requests, BackOut(r) PROVE IInv'
<1> USE TypeParts
<1>1. HostsKnown'
  BY DEF IInv, HostsKnown, Up, BackOut, Goes, appVars
<1>2. Staged'
  BY DEF IInv, Staged, Active, BackOut, Goes, orgVars
<1>3. Running'
  BY DEF IInv, Running, BackOut, Goes, orgVars
<1>4. Charged'
  BY DEF IInv, Charged, BackOut, Goes, orgVars, appVars
<1> QED BY <1>1, <1>2, <1>3, <1>4, KeptParts DEF IInv, BackOut, Goes, orgVars, appVars

LEMMA EndTurnKeeps == ASSUME TypeOK, IInv, NEW r \in Requests, EndTurn(r) PROVE IInv'
<1> USE TypeParts
<1>1. HostsKnown'
  BY DEF IInv, HostsKnown, Up, EndTurn, Ends, Goes, appVars
<1>2. Staged'
  BY DEF IInv, Staged, Occupied, EndTurn, Ends, Goes, orgVars
<1>3. Running'
  BY DEF IInv, Running, CallTypes, ProvTypes, EndTurn, Ends, Goes, orgVars
<1>4. Charged'
  BY DEF IInv, Charged, EndTurn, Ends, Goes, orgVars, appVars
<1> QED BY <1>1, <1>2, <1>3, <1>4, KeptParts DEF IInv, EndTurn, Ends, Goes, orgVars, appVars

LEMMA StopSignalKeeps == ASSUME TypeOK, IInv, NEW r \in Requests, StopSignal(r) PROVE IInv'
<1> USE TypeParts
<1>1. HostsKnown'
  BY DEF IInv, HostsKnown, Up, StopSignal, Ends, Goes, appVars
<1>2. Staged'
  BY DEF IInv, Staged, Occupied, StopSignal, Ends, Goes, orgVars
<1>3. Running'
  BY DEF IInv, Running, CallTypes, ProvTypes, StopSignal, Ends, Goes, orgVars
<1>4. Charged'
  BY DEF IInv, Charged, StopSignal, Ends, Goes, orgVars, appVars
<1> QED BY <1>1, <1>2, <1>3, <1>4, KeptParts DEF IInv, StopSignal, Ends, Goes, orgVars, appVars

LEMMA GuardOrgKeeps == ASSUME TypeOK, IInv, NEW r \in Requests, GuardOrg(r) PROVE IInv'
<1> USE TypeParts
<1>1. HostsKnown'
  BY DEF IInv, HostsKnown, Up, GuardOrg, CompleteReq, AbortReq, Goes, appVars
<1>2. Staged'
  <2>1. req[r] \notin {"none", "pending", "lost"} /\ req[r] \in ReqStates
    BY DEF IInv, HostsKnown, Staged, GuardOrg, Active, Up, ReqTypes
  <2>2. req'[r] \in {"done", "cancelled"}
    <3>1. CASE CompleteReq(r)
      BY <2>1, <3>1 DEF CompleteReq, Commit, SameOrgHalf, ReqTypes, ReqStates, OpenReq, EndedReq
    <3>2. CASE AbortReq(r, TRUE)
      BY <2>1, <3>2 DEF AbortReq, Commit, SameOrgHalf, ReqTypes, ReqStates, OpenReq, EndedReq
    <3> QED BY <3>1, <3>2 DEF GuardOrg
  <2>3. pc'[r] = "forward" /\ \A q \in Requests \ {r} : pc'[q] = pc[q]
    BY DEF GuardOrg, Goes, CallTypes
  <2>4. \A q \in Requests \ {r} : req'[q] = req[q]
    BY DEF GuardOrg, CompleteReq, AbortReq, Commit, SameOrgHalf, ReqTypes
  <2>5. pc[r] \in {"complete", "abandon"} /\ UNCHANGED <<due, host>>
    BY DEF GuardOrg
  <2> QED BY <2>2, <2>3, <2>4, <2>5 DEF IInv, Staged, Active, Occupied, EndedReq
<1>3. Running'
  BY DEF IInv, Running, Up, ReqTypes, GuardOrg, CompleteReq, AbortReq, Commit, SameOrgHalf, Goes
<1>4. LastVersion'
  BY DEF IInv, LastVersion, EndedReq, ReqTypes, GuardOrg, CompleteReq, AbortReq, Commit, SameOrgHalf
<1>5. Charged'
  BY DEF IInv, Charged, Occupied, ReqTypes, GuardOrg, CompleteReq, AbortReq, Commit, SameOrgHalf, Goes, appVars
<1> QED BY <1>1, <1>2, <1>3, <1>4, <1>5, KeptParts DEF IInv, GuardOrg, Commit, SameOrgHalf, Goes, appVars

LEMMA GuardForwardKeeps == ASSUME TypeOK, IInv, NEW r \in Requests, GuardForward(r) PROVE IInv'
<1> USE TypeParts
<1>1. HostsKnown'
  BY DEF IInv, HostsKnown, Up, GuardForward, SetTicket, Goes, appVars
<1>2. Staged'
  BY DEF IInv, Staged, EndedReq, GuardForward, Goes, orgVars
<1>3. Running'
  BY DEF IInv, Running, GuardForward, Goes, orgVars
<1>4. Charged'
  BY DEF IInv, Staged, Charged, AppTypes, CallTypes, GuardForward, SetTicket, Finished, Goes, orgVars, appVars
<1>5. OneOpenTicket'
  BY DEF IInv, OneOpenTicket, OpenTicket, Occupied, AppTypes, GuardForward, SetTicket, Finished, Acknowledged, Cancelled, appVars
<1> QED BY <1>1, <1>2, <1>3, <1>4, <1>5, KeptParts DEF IInv, GuardForward, orgVars, appVars

LEMMA FreeSlotKeeps == ASSUME TypeOK, IInv, NEW r \in Requests, FreeSlot(r) PROVE IInv'
<1> USE TypeParts
<1>1. HostsKnown'
  BY DEF IInv, HostsKnown, Up, FreeSlot, SetTicket, Goes
<1>2. Staged'
  BY DEF IInv, Staged, EndedReq, FreeSlot, Goes, orgVars
<1>3. Running'
  BY DEF IInv, Running, FreeSlot, Goes, orgVars
<1>4. Charged'
  BY DEF IInv, Staged, Charged, FreeSlot, SetTicket, Goes, orgVars
<1>5. OneOpenTicket'
  BY DEF IInv, OneOpenTicket, OpenTicket, Occupied, FreeSlot, SetTicket, Finished, Acknowledged
<1> QED BY <1>1, <1>2, <1>3, <1>4, <1>5, KeptParts DEF IInv, FreeSlot, orgVars

LEMMA UnclaimKeeps == ASSUME TypeOK, IInv, NEW r \in Requests, Unclaim(r) PROVE IInv'
<1> USE TypeParts
<1>1. Staged'
  BY DEF IInv, Staged, Unclaim, orgVars
<1>2. Charged'
  BY DEF IInv, Staged, Charged, Unclaim, SetTicket, orgVars
<1>3. OneOpenTicket'
  BY DEF IInv, OneOpenTicket, Unclaim, SetTicket
<1> QED BY <1>1, <1>2, <1>3, KeptParts DEF IInv, Unclaim, SetTicket, orgVars

LEMMA AbandonKeeps == ASSUME TypeOK, IInv, NEW r \in Requests, Abandon(r) PROVE IInv'
<1> USE TypeParts
<1>1. Staged'
  BY DEF IInv, Staged, Occupied, ReqTypes, Abandon, AbortReq, Commit, SameOrgHalf
<1>2. Running'
  BY DEF IInv, Staged, Running, ReqTypes, Abandon, AbortReq, Commit, SameOrgHalf
<1>3. LastVersion'
  BY DEF IInv, LastVersion, EndedReq, ReqTypes, Abandon, AbortReq, Commit, SameOrgHalf
<1>4. Charged'
  BY DEF IInv, Charged, Occupied, ReqTypes, Abandon, AbortReq, Commit, SameOrgHalf, appVars
<1> QED BY <1>1, <1>2, <1>3, <1>4, KeptParts DEF IInv, Abandon, Commit, SameOrgHalf, appVars

LEMMA CancelTurnKeeps == ASSUME TypeOK, IInv, NEW r \in Requests, CancelTurn(r) PROVE IInv'
<1> USE TypeParts
<1>1. Staged'
  BY DEF IInv, Staged, Occupied, EndedReq, ReqTypes, CancelTurn, CancelReq, Commit
<1>2. Running'
  BY DEF IInv, Running, Occupied, ReqTypes, CancelTurn, CancelReq, Commit
<1>3. LastVersion'
  BY DEF IInv, LastVersion, EndedReq, ReqTypes, CancelTurn, CancelReq, Commit
<1>4. Charged'
  BY DEF IInv, Charged, Occupied, ReqTypes, CancelTurn, CancelReq, Commit, appVars
<1> QED BY <1>1, <1>2, <1>3, <1>4, KeptParts DEF IInv, CancelTurn, Commit, appVars

LEMMA OrphanEndsKeeps == ASSUME TypeOK, IInv, NEW r \in Requests, OrphanEnds(r) PROVE IInv'
<1> USE TypeParts
<1>1. Running'
  BY DEF IInv, HostsKnown, Running, Up, OrphanEnds, orgVars
<1> QED BY <1>1, KeptParts DEF IInv, OrphanEnds, orgVars, appVars

LEMMA LoseReqKeeps == ASSUME TypeOK, IInv, NEW r \in Requests, LoseReq(r) PROVE IInv'
<1> USE TypeParts
<1>1. Staged'
  BY OrgType DEF IInv, HostsKnown, Staged, Up, LoseReq, Commit, Fenced
<1>2. Running'
  BY OrgType DEF IInv, HostsKnown, Running, Up, LoseReq, Commit, Fenced
<1>3. LastVersion'
  BY DEF IInv, LastVersion, EndedReq, OpenReq, ReqTypes, LoseReq, Commit
<1>4. Charged'
  BY OrgType DEF IInv, HostsKnown, Charged, LoseReq, Commit, Fenced, appVars
<1> QED BY <1>1, <1>2, <1>3, <1>4, KeptParts DEF IInv, LoseReq, Commit, appVars

(* Crashes and recovery. *)

LEMMA CrashKeeps == ASSUME TypeOK, IInv, NEW h \in Hosts, Crash(h) PROVE IInv'
<1> USE TypeParts, OrgType DEF IInv, Crash, HostTypes, CallTypes
<1>1. HostsKnown'
  BY DEF HostsKnown, Up, appVars
<1>2. Staged'
  BY DEF HostsKnown, Staged, Up, Active, orgVars
<1>3. Running'
  BY DEF HostsKnown, Running, Up, orgVars
<1>4. Charged'
  BY DEF HostsKnown, Charged, Up, orgVars, appVars
<1> QED BY <1>1, <1>2, <1>3, <1>4, KeptParts DEF orgVars, appVars

LEMMA KillTreeKeeps == ASSUME TypeOK, IInv, NEW h \in Hosts, KillTree(h) PROVE IInv'
<1> USE TypeParts, OrgType DEF IInv, KillTree, HostTypes, ProvTypes
<1>1. HostsKnown'
  BY DEF HostsKnown, Up, appVars
<1>2. Staged'
  BY DEF Staged, orgVars
<1>3. Running'
  BY DEF HostsKnown, Running, Up, orgVars
<1>4. Charged'
  BY DEF Charged, orgVars, appVars
<1> QED BY <1>1, <1>2, <1>3, <1>4, KeptParts DEF orgVars, appVars

LEMMA ReclaimKeeps == ASSUME TypeOK, IInv, NEW h \in Hosts, Reclaim(h) PROVE IInv'
<1> USE TypeParts, OrgType DEF IInv, Reclaim, HostTypes, AppTypes
<1>1. HostsKnown'
  BY DEF HostsKnown, Up
<1>2. Staged'
  BY DEF Staged, orgVars
<1>3. Running'
  BY DEF HostsKnown, Running, Up, orgVars
<1>4. Charged'
  BY DEF HostsKnown, Charged, Up, orgVars
<1>5. OneOpenTicket'
  BY DEF OneOpenTicket, OpenTicket, Occupied
<1> QED BY <1>1, <1>2, <1>3, <1>4, <1>5, KeptParts DEF orgVars

LEMMA UnfenceKeeps == ASSUME TypeOK, IInv, NEW o \in Orgs, NEW h \in Hosts, Unfence(o, h) PROVE IInv'
<1>1. HostsKnown'
  BY DEF IInv, HostsKnown, Up, Unfence
<1> QED BY <1>1, KeptParts DEF IInv, Unfence, orgVars

LEMMA QuietKeeps ==
  ASSUME IInv, UNCHANGED vars \/ SetLimit
               \/ \E r \in Requests : ClaimJob(r) \/ RetryJob(r) \/ Confirm(r) \/ Synced(r)
  PROVE  IInv'
BY KeptParts DEF IInv, SetLimit, ClaimJob, RetryJob, Confirm, Synced, vars, orgVars, appVars

THEOREM IInvInductive == TypeOK /\ IInv /\ [Next]_vars => IInv'
<1> SUFFICES ASSUME TypeOK, IInv, [Next]_vars PROVE IInv'
  OBVIOUS
<1>1. ASSUME NEW r \in Requests, Bridge(r) PROVE IInv'
  BY <1>1, QuietKeeps, RunJobKeeps, EndUnrunnableKeeps, ForwardKeeps DEF Bridge
<1>2. ASSUME NEW r \in Requests, Caller(r) PROVE IInv'
  BY <1>2, OpenKeeps, PrepareKeeps, QueueOneKeeps, PreparedKeeps, EnqueueKeeps, ClaimKeeps,
     GiveUpKeeps, RefusedKeeps, ClearKeeps, BeginKeeps, LaunchKeeps, BackOutKeeps, EndTurnKeeps,
     StopSignalKeeps, GuardOrgKeeps, GuardForwardKeeps, FreeSlotKeeps, UnclaimKeeps, AbandonKeeps
  DEF Caller
<1>3. CASE Recovery
  BY <1>3, KillTreeKeeps, ReclaimKeeps, LoseReqKeeps, UnfenceKeeps DEF Recovery
<1> QED BY <1>1, <1>2, <1>3, QuietKeeps, CancelTurnKeeps, OrphanEndsKeeps, CrashKeeps DEF Next

\* The halves of a turn agree in every reachable state (IInv): the guards of the two
\* databases, the retained cleanups and the fences are enough, at any scale.
THEOREM HalvesAgree == Spec => [](TypeOK /\ IInv)
<1>1. Init => TypeOK /\ IInv
  BY InitTypeOK, InitIInv
<1>2. TypeOK /\ IInv /\ [Next]_vars => (TypeOK /\ IInv)'
  BY NextTypes, IInvInductive
<1> QED BY <1>1, <1>2, PTL DEF Spec

\* No slot is free while the provider it was given to lives: for any number of turns
\* and processes, whatever the bridge repeats and whoever crashes (SlotCoversProvider).
THEOREM SlotsCoverProviders == Spec => []SlotCoversProvider
<1>1. IInv => SlotCoversProvider
  BY DEF IInv, HostsKnown, Running, Charged, SlotCoversProvider, Up
<1> QED BY <1>1, HalvesAgree, PTL

\* Two providers of one agent never run at once (OneProviderPerAgent).
THEOREM ProvidersAlone == Spec => []OneProviderPerAgent
<1>1. IInv => OneProviderPerAgent
  <2> SUFFICES ASSUME IInv, NEW q \in Requests, NEW r \in Requests, AgentOf[q] = AgentOf[r],
                      prov[q] = "on", prov[r] = "on"
               PROVE  q = r
    BY DEF OneProviderPerAgent
  <2>1. ticket[q] \in Occupied /\ ticket[r] \in Occupied
    BY DEF IInv, HostsKnown, Running, Charged, Up
  <2> QED BY <2>1 DEF IInv, OneOpenTicket, OpenTicket
<1> QED BY <1>1, HalvesAgree, PTL

\* What passes the run's fence holds its slot, though the fence is in the org's
\* database and the slot in another (PublisherHoldsSlot).
THEOREM PublishersHold == Spec => []PublisherHoldsSlot
<1>1. IInv => PublisherHoldsSlot
  BY DEF IInv, Charged, PublisherHoldsSlot, MayPublish, Occupied
<1> QED BY <1>1, HalvesAgree, PTL

(* The refinement: the lease of a turn is its ticket. *)

LeaseOf(st) == CASE st = "none" -> "none"
                 [] st = "waiting" -> "asked"
                 [] st \in Occupied -> "held"
                 [] OTHER -> "ended"

LeaseStep == [Leases!Next]_(Leases!leaseVars)

LEMMA LeaseByTurn == /\ leaseOf = [r \in Requests |-> LeaseOf(ticket[r])]
                     /\ leaseOf' = [r \in Requests |-> LeaseOf(ticket'[r])]
                     /\ Leases!Held = Held
BY DEF leaseOf, LeaseOf, Leases!Held, Held, Occupied

LEMMA LeaseSame == ASSUME UNCHANGED <<limit, ticket, prov>> PROVE LeaseStep
BY LeaseByTurn DEF LeaseStep, Leases!leaseVars

\* a ticket that keeps its kind, or ends when no provider runs under it
LEMMA LeaseSet ==
  ASSUME TypeOK, NEW r \in Requests, NEW st \in TicketStates,
         ticket' = [ticket EXCEPT ![r] = st], UNCHANGED <<limit, prov>>,
         LeaseOf(st) = LeaseOf(ticket[r]) \/ (st \in EndedTicket /\ prov[r] # "on")
  PROVE  LeaseStep
<1>1. ticket \in [Requests -> TicketStates]
  BY TypeParts DEF AppTypes
<1>2. CASE LeaseOf(st) = LeaseOf(ticket[r])
  <2>1. leaseOf' = leaseOf
    BY <1>1, <1>2, LeaseByTurn
  <2> QED BY <2>1 DEF LeaseStep, Leases!leaseVars
<1>3. CASE LeaseOf(st) # LeaseOf(ticket[r]) /\ st \in EndedTicket /\ prov[r] # "on"
  <2>1. LeaseOf(st) = "ended"
    BY <1>3 DEF LeaseOf, EndedTicket, Occupied
  <2>2. leaseOf' = [t \in Requests |-> IF t \in {r} THEN "ended" ELSE leaseOf[t]]
    BY <1>1, <2>1, LeaseByTurn
  <2>3. leaseOf[r] # "ended"
    BY <1>3, <2>1, LeaseByTurn
  <2>4. Leases!End({r})
    BY <1>3, <2>2, <2>3 DEF Leases!End
  <2>5. {r} \in SUBSET Requests
    OBVIOUS
  <2> QED BY <2>4, <2>5 DEF LeaseStep, Leases!Next
<1> QED BY <1>2, <1>3

LEMMA AskStep == ASSUME TypeOK, NEW r \in Requests, EnqueueTicket(r), UNCHANGED prov PROVE LeaseStep
<1>1. CASE ticket[r] = "none"
  <2>1. /\ ticket' = [ticket EXCEPT ![r] = "waiting"]
        /\ OneOpen(r)
        /\ UNCHANGED limit
    BY <1>1 DEF EnqueueTicket, MayEnqueue
  <2>2. leaseOf' = [leaseOf EXCEPT ![r] = "asked"]
    BY <2>1, TypeParts, LeaseByTurn DEF LeaseOf, AppTypes, Occupied
  <2>3. \A u \in Requests : AgentOf[u] = AgentOf[r] => leaseOf[u] \notin {"asked", "held"}
    BY <1>1, <2>1, LeaseByTurn DEF OneOpen, LeaseOf, OpenTicket, Occupied
  <2>4. leaseOf[r] = "none"
    BY <1>1, LeaseByTurn DEF LeaseOf, Occupied
  <2>5. Leases!Ask(r)
    BY <2>1, <2>2, <2>3, <2>4 DEF Leases!Ask
  <2> QED BY <2>5 DEF LeaseStep, Leases!Next
<1>2. CASE ticket[r] # "none"
  BY <1>2, LeaseSame DEF EnqueueTicket
<1> QED BY <1>1, <1>2

LEMMA GrantStep == ASSUME TypeOK, NEW r \in Requests, Claim(r) PROVE LeaseStep
<1>1. /\ ticket' = [ticket EXCEPT ![r] = "running"]
      /\ ticket[r] = "waiting"
      /\ Cardinality(Held) < limit
      /\ UNCHANGED <<limit, prov>>
  BY DEF Claim, ClaimTicket, FairHead, Firsts
<1>2. leaseOf' = [leaseOf EXCEPT ![r] = "held"]
  BY <1>1, TypeParts, LeaseByTurn DEF LeaseOf, AppTypes, Occupied
<1>3. leaseOf[r] = "asked"
  BY <1>1, LeaseByTurn DEF LeaseOf, Occupied
<1>4. Leases!Cardinality(Leases!Held) = Cardinality(Held)
  <2>1. Leases!Held = Held
    BY LeaseByTurn
  <2>2. Leases!Cardinality(Held) = Cardinality(Held)
    BY DEF Leases!Cardinality, Cardinality
  <2> QED BY <2>1, <2>2
<1>5. Leases!Grant(r)
  BY <1>1, <1>2, <1>3, <1>4 DEF Leases!Grant
<1> QED BY <1>5 DEF LeaseStep, Leases!Next

LEMMA StartStep == ASSUME TypeOK, IInv, NEW r \in Requests, Launch(r) PROVE LeaseStep
<1>1. ticket[r] \in Occupied
  BY DEF IInv, Staged, Charged, Launch, Up
<1>2. prov[r] = "off"
  BY DEF IInv, Running, Launch
<1>3. leaseOf[r] = "held" /\ leaseOf' = leaseOf /\ prov' = [prov EXCEPT ![r] = "on"]
  BY <1>1, LeaseByTurn DEF LeaseOf, Occupied, Launch, appVars
<1>4. Leases!Start(r)
  BY <1>2, <1>3 DEF Leases!Start, Launch, appVars
<1> QED BY <1>4 DEF LeaseStep, Leases!Next

\* the providers in S stop, if there are any
LEMMA StopStep ==
  ASSUME TypeOK, NEW S \in SUBSET Requests, \A r \in S : prov[r] = "on",
         prov' = [r \in Requests |-> IF r \in S THEN "over" ELSE prov[r]],
         UNCHANGED <<limit, ticket>>
  PROVE  LeaseStep
<1>1. leaseOf' = leaseOf
  BY LeaseByTurn
<1>2. CASE S = {}
  <2>1. prov' = prov
    BY <1>2, TypeParts DEF ProvTypes
  <2> QED BY <2>1, LeaseSame
<1>3. CASE S # {}
  <2>1. Leases!Stop(S)
    BY <1>1, <1>3 DEF Leases!Stop
  <2> QED BY <2>1 DEF LeaseStep, Leases!Next
<1> QED BY <1>2, <1>3

LEMMA ForwardStep == ASSUME TypeOK, IInv, NEW r \in Requests, Forward(r) PROVE LeaseStep
<1>1. CASE ForwardQueued(r)
  BY <1>1, AskStep DEF Forward, ForwardQueued
<1>2. CASE ForwardCancel(r)
  <2>1. ticket' = [ticket EXCEPT ![r] = Cancelled(ticket[r])] /\ UNCHANGED <<limit, prov>>
    BY <1>2 DEF Forward, ForwardCancel, SetTicket
  <2>2. prov[r] = "on" => ticket[r] \in Occupied
    BY DEF IInv, HostsKnown, Running, Charged, Up
  <2>3. ticket[r] \in TicketStates
    BY TypeParts DEF AppTypes
  <2>4. \/ LeaseOf(Cancelled(ticket[r])) = LeaseOf(ticket[r])
        \/ Cancelled(ticket[r]) \in EndedTicket /\ prov[r] # "on"
    BY <2>2 DEF Cancelled, LeaseOf, Occupied, EndedTicket
  <2> QED BY <2>1, <2>3, <2>4, NextTicket, LeaseSet
<1>3. CASE ForwardAck(r) \/ ForwardDone(r)
  <2>1. LastVersion
    BY DEF IInv
  <2>2. req[r] \in EndedReq
    BY <1>3, <2>1 DEF ForwardAck, ForwardDone, LastVersion, EndedReq
  <2>3. prov[r] # "on"
    BY <2>2 DEF IInv, Running, EndedReq, Occupied
  <2> QED BY <1>3, <2>3, LeaseSet
      DEF Forward, ForwardAck, ForwardDone, SetTicket, TicketStates, EndedTicket
<1> QED BY <1>1, <1>2, <1>3 DEF Forward

LEMMA FreeStep ==
  ASSUME TypeOK, IInv, NEW r \in Requests, GuardForward(r) \/ FreeSlot(r) \/ Unclaim(r)
  PROVE  LeaseStep
<1>1. prov[r] # "on"
  BY DEF IInv, Staged, Running, GuardForward, FreeSlot, Unclaim
<1>2. ticket[r] \in TicketStates
  BY TypeParts DEF AppTypes
<1>3. \A st \in {Finished(ticket[r]), Acknowledged(Cancelled(ticket[r])), "cancelled", ticket[r]} :
        /\ st \in TicketStates
        /\ LeaseOf(st) = LeaseOf(ticket[r]) \/ st \in EndedTicket
  BY <1>2 DEF Finished, Acknowledged, Cancelled, TicketStates, OpenTicket, Occupied, EndedTicket
<1>4. \/ UNCHANGED appVars
      \/ \E st \in {Finished(ticket[r]), Acknowledged(Cancelled(ticket[r])), "cancelled", ticket[r]} :
            SetTicket(r, st)
  BY DEF GuardForward, FreeSlot, Unclaim
<1>5. UNCHANGED prov
  BY DEF GuardForward, FreeSlot, Unclaim
<1> QED BY <1>1, <1>3, <1>4, <1>5, LeaseSet, LeaseSame DEF SetTicket, appVars

LEMMA ReclaimStep == ASSUME TypeOK, IInv, NEW h \in Hosts, Reclaim(h) PROVE LeaseStep
<1> DEFINE S == {r \in Requests : HostOf[r] = h /\ ticket[r] \in OpenTicket}
<1>1. UNCHANGED <<limit, prov>> /\ S \in SUBSET Requests
  BY DEF Reclaim
<1>2. \A r \in S : prov[r] # "on" /\ leaseOf[r] # "ended"
  BY LeaseByTurn DEF IInv, HostsKnown, Running, Reclaim, Up, LeaseOf, OpenTicket
<1>3. leaseOf' = [r \in Requests |-> IF r \in S THEN "ended" ELSE leaseOf[r]]
  BY LeaseByTurn DEF Reclaim, LeaseOf, Occupied
<1>4. CASE S = {}
  BY <1>1, <1>3, <1>4, LeaseByTurn DEF LeaseStep, Leases!leaseVars
<1>5. CASE S # {}
  <2>1. Leases!End(S)
    BY <1>1, <1>2, <1>3, <1>5 DEF Leases!End
  <2> QED BY <1>1, <2>1 DEF LeaseStep, Leases!Next
<1> QED BY <1>4, <1>5

LEMMA CallerStep == ASSUME TypeOK, IInv, NEW r \in Requests, Caller(r) PROVE LeaseStep
<1>1. CASE EndTurn(r) \/ StopSignal(r)
  <2>1. prov[r] = "on"
    BY <1>1 DEF EndTurn, StopSignal, Ends, IInv, Running
  <2>2. prov' = [q \in Requests |-> IF q \in {r} THEN "over" ELSE prov[q]]
    BY <1>1, TypeParts DEF EndTurn, StopSignal, Ends, ProvTypes
  <2> QED BY <1>1, <2>1, <2>2, StopStep DEF EndTurn, StopSignal, Ends, appVars
<1>2. CASE Enqueue(r) \/ Claim(r) \/ Launch(r) \/ GuardForward(r) \/ FreeSlot(r) \/ Unclaim(r)
  BY <1>2, AskStep, GrantStep, StartStep, FreeStep DEF Enqueue
<1>3. CASE Open(r) \/ Prepare(r) \/ QueueOne(r) \/ Prepared(r) \/ GiveUp(r) \/ Refused(r)
           \/ Clear(r) \/ Begin(r) \/ BackOut(r) \/ GuardOrg(r) \/ Abandon(r)
  BY <1>3, LeaseSame DEF Open, Prepare, QueueOne, Prepared, GiveUp, Refused, Clear, Begin, BackOut,
     GuardOrg, Abandon, appVars
<1> QED BY <1>1, <1>2, <1>3 DEF Caller

LEMMA HostStep == ASSUME TypeOK, IInv, Recovery PROVE LeaseStep
<1>1. ASSUME NEW h \in Hosts, KillTree(h) PROVE LeaseStep
  <2> DEFINE S == {r \in Requests : HostOf[r] = h /\ prov[r] = "on"}
  <2>1. prov' = [r \in Requests |-> IF r \in S THEN "over" ELSE prov[r]]
    BY <1>1 DEF KillTree
  <2>2. S \in SUBSET Requests /\ (\A r \in S : prov[r] = "on") /\ UNCHANGED <<limit, ticket>>
    BY <1>1 DEF KillTree, appVars
  <2> QED BY <2>1, <2>2, StopStep
<1>2. ASSUME NEW r \in Requests, LoseReq(r) PROVE LeaseStep
  BY <1>2, LeaseSame DEF LoseReq, appVars
<1>3. ASSUME NEW o \in Orgs, NEW h \in Hosts, Unfence(o, h) PROVE LeaseStep
  BY <1>3, LeaseSame DEF Unfence
<1> QED BY <1>1, <1>2, <1>3, ReclaimStep DEF Recovery

LEMMA NextStep == TypeOK /\ IInv /\ [Next]_vars => LeaseStep
<1> SUFFICES ASSUME TypeOK, IInv, [Next]_vars PROVE LeaseStep
  OBVIOUS
<1>1. ASSUME NEW r \in Requests, Bridge(r) PROVE LeaseStep
  BY <1>1, ForwardStep, LeaseSame DEF Bridge, ClaimJob, RunJob, RetryJob, EndUnrunnable, Confirm,
     Synced, appVars
<1>2. ASSUME NEW r \in Requests, OrphanEnds(r) PROVE LeaseStep
  <2>1. prov' = [q \in Requests |-> IF q \in {r} THEN "over" ELSE prov[q]]
    BY <1>2, TypeParts DEF OrphanEnds, ProvTypes
  <2> QED BY <1>2, <2>1, StopStep DEF OrphanEnds, appVars
<1>3. ASSUME NEW r \in Requests, CancelTurn(r) PROVE LeaseStep
  BY <1>3, LeaseSame DEF CancelTurn, appVars
<1>4. ASSUME NEW h \in Hosts, Crash(h) PROVE LeaseStep
  BY <1>4, LeaseSame DEF Crash, appVars
<1>5. CASE SetLimit
  <2>1. leaseOf' = leaseOf
    BY <1>5, LeaseByTurn DEF SetLimit
  <2> QED BY <1>5, <2>1 DEF LeaseStep, Leases!Next, Leases!SetLimit, SetLimit
<1>6. CASE UNCHANGED vars
  BY <1>6, LeaseSame DEF vars, appVars
<1> QED BY <1>1, <1>2, <1>3, <1>4, <1>5, <1>6, CallerStep, HostStep DEF Next

\* Two databases, a bridge that repeats itself and processes that crash implement one
\* lease per turn, without crashes and in one place (LeaseSpec, TurnLeases).
THEOREM TicketsAreLeases == Spec => LeaseSpec
<1>1. Init => Leases!Init
  BY LimitAssumption, LeaseByTurn DEF Init, Leases!Init, LeaseOf, Occupied
<1>2. TypeOK /\ IInv /\ [Next]_vars => [Leases!Next]_(Leases!leaseVars)
  BY NextStep DEF LeaseStep
<1> QED BY <1>1, <1>2, HalvesAgree, PTL DEF Spec, LeaseSpec, Leases!Spec

(* Who closes what a turn has opened. *)

\* what one step may do to a turn's ticket
TicketMoved(q) ==
  /\ ticket[q] \in EndedTicket => ticket'[q] \in EndedTicket
  /\ ticket[q] \notin OpenTicket /\ ticket'[q] \in OpenTicket
       => host'[HostOf[q]] # "dead" /\ ticket[q] = "none"
  /\ ticket[q] = "none" /\ ticket'[q] # "none" => versions[q] # {} \/ req[q] \notin {"none", "pending"}

LEMMA TicketStays == ASSUME NEW q, ticket'[q] = ticket[q] PROVE TicketMoved(q)
BY DEF TicketMoved, OpenTicket, Occupied

LEMMA TicketSet ==
  ASSUME TypeOK, NEW r \in Requests, NEW st, SetTicket(r, st), NEW q \in Requests,
         ticket[r] \in EndedTicket => st \in EndedTicket,
         st \in OpenTicket => ticket[r] \in OpenTicket,
         ticket[r] = "none" /\ st # "none" => versions[r] # {} \/ req[r] \notin {"none", "pending"}
  PROVE  TicketMoved(q)
<1>1. ticket' = [ticket EXCEPT ![r] = st] /\ ticket \in [Requests -> TicketStates]
  BY TypeParts DEF SetTicket, AppTypes
<1>2. CASE q = r
  BY <1>1, <1>2 DEF TicketMoved
<1>3. CASE q # r
  BY <1>1, <1>3, TicketStays
<1> QED BY <1>2, <1>3

LEMMA TicketAsked ==
  ASSUME TypeOK, NEW r \in Requests, EnqueueTicket(r), NEW q \in Requests, UNCHANGED host,
         versions[r] # {} \/ req[r] \notin {"none", "pending"}
  PROVE  TicketMoved(q)
<1>1. ticket \in [Requests -> TicketStates]
  BY TypeParts DEF AppTypes
<1>2. CASE ticket[r] = "none" /\ q = r
  <2>1. ticket'[r] = "waiting" /\ host[HostOf[r]] # "dead"
    BY <1>1, <1>2 DEF EnqueueTicket, MayEnqueue
  <2> QED BY <1>2, <2>1 DEF TicketMoved, EndedTicket
<1>3. CASE ticket[r] # "none" \/ q # r
  <2>1. ticket'[q] = ticket[q]
    BY <1>1, <1>3 DEF EnqueueTicket
  <2> QED BY <2>1, TicketStays
<1> QED BY <1>2, <1>3

LEMMA NextClosed ==
  \A st \in TicketStates :
    /\ {Cancelled(st), Acknowledged(st), Finished(st)} \cap OpenTicket # {} => st \in OpenTicket
    /\ st \in EndedTicket => {Cancelled(st), Acknowledged(st), Finished(st), Acknowledged(Cancelled(st))} \subseteq EndedTicket
    /\ st = "none" => Acknowledged(st) = "none" /\ Finished(st) = "none"
    /\ Acknowledged(Cancelled(st)) \in OpenTicket => st \in OpenTicket
BY DEF TicketStates, OpenTicket, EndedTicket, Occupied, Cancelled, Acknowledged, Finished

LEMMA TicketMoves ==
  ASSUME TypeOK, IInv, [Next]_vars, NEW q \in Requests
  PROVE  TicketMoved(q)
<1>0. \A r \in Requests : ticket[r] \in TicketStates
  BY TypeParts DEF AppTypes
<1>1. ASSUME NEW r \in Requests, Forward(r)
      PROVE  TicketMoved(q)
  <2>1. CASE ForwardQueued(r)
    <3>1. versions[r] # {}
      BY <2>1 DEF ForwardQueued
    <3> QED BY <1>1, <2>1, <3>1, TicketAsked DEF Forward, ForwardQueued
  <2>2. CASE ForwardCancel(r)
    <3>1. versions[r] # {}
      BY <2>2 DEF ForwardCancel
    <3> QED BY <1>0, <2>2, <3>1, NextClosed, TicketSet DEF ForwardCancel
  <2>3. CASE ForwardAck(r) \/ ForwardDone(r)
    BY <2>3, TicketSet DEF ForwardAck, ForwardDone, OpenTicket, EndedTicket, Occupied
  <2> QED BY <1>1, <2>1, <2>2, <2>3 DEF Forward
<1>2. ASSUME NEW r \in Requests, Enqueue(r)
      PROVE  TicketMoved(q)
  <2>1. req[r] \notin {"none", "pending"}
    BY <1>2 DEF IInv, Staged, Enqueue, Active
  <2> QED BY <1>2, <2>1, TicketAsked DEF Enqueue
<1>3. ASSUME NEW r \in Requests, Claim(r)
      PROVE  TicketMoved(q)
  <2>1. ticket[r] = "waiting" /\ ticket' = [ticket EXCEPT ![r] = "running"]
    BY <1>3 DEF Claim, ClaimTicket, FairHead, Firsts
  <2> QED BY <2>1, <1>0, TypeParts DEF AppTypes, TicketMoved, OpenTicket, EndedTicket, Occupied
<1>4. ASSUME NEW r \in Requests, GuardForward(r)
      PROVE  TicketMoved(q)
  <2>1. req[r] \in EndedReq
    BY <1>4 DEF IInv, Staged, GuardForward
  <2>2. CASE UNCHANGED appVars
    BY <2>2, TicketStays DEF appVars
  <2>3. CASE SetTicket(r, Finished(ticket[r])) \/ SetTicket(r, Acknowledged(Cancelled(ticket[r])))
    BY <1>0, <2>1, <2>3, NextClosed, TicketSet DEF EndedReq
  <2> QED BY <1>4, <2>2, <2>3 DEF GuardForward
<1>5. ASSUME NEW r \in Requests, FreeSlot(r)
      PROVE  TicketMoved(q)
  BY <1>0, <1>5, NextClosed, TicketSet DEF FreeSlot
<1>6. ASSUME NEW r \in Requests, Unclaim(r)
      PROVE  TicketMoved(q)
  BY <1>0, <1>6, TicketSet DEF Unclaim, OpenTicket, EndedTicket, Occupied
<1>7. ASSUME NEW h \in Hosts, Reclaim(h)
      PROVE  TicketMoved(q)
  <2>1. ticket'[q] = IF HostOf[q] = h /\ ticket[q] \in OpenTicket THEN "lost" ELSE ticket[q]
    BY <1>7 DEF Reclaim
  <2> QED BY <2>1 DEF TicketMoved, OpenTicket, EndedTicket, Occupied
<1>8. ASSUME \/ UNCHANGED vars \/ SetLimit
             \/ \E h \in Hosts : Crash(h) \/ KillTree(h)
             \/ \E o \in Orgs, h \in Hosts : Unfence(o, h)
             \/ \E r \in Requests :
                  \/ ClaimJob(r) \/ RunJob(r) \/ RetryJob(r) \/ EndUnrunnable(r) \/ Confirm(r) \/ Synced(r)
                  \/ Open(r) \/ Prepare(r) \/ QueueOne(r) \/ Prepared(r) \/ GiveUp(r) \/ Refused(r)
                  \/ Clear(r) \/ Begin(r) \/ Launch(r) \/ BackOut(r) \/ EndTurn(r) \/ StopSignal(r)
                  \/ GuardOrg(r) \/ Abandon(r) \/ CancelTurn(r) \/ OrphanEnds(r) \/ LoseReq(r)
      PROVE  ticket' = ticket
  BY <1>8 DEF vars, appVars, SetLimit, Crash, KillTree, Unfence, ClaimJob, RunJob, RetryJob,
     EndUnrunnable, Confirm, Synced, Open, Prepare, QueueOne, Prepared, GiveUp, Refused, Clear, Begin,
     Launch, BackOut, EndTurn, StopSignal, Ends, GuardOrg, Abandon, CancelTurn, OrphanEnds, LoseReq
<1> QED
  BY <1>1, <1>2, <1>3, <1>4, <1>5, <1>6, <1>7, <1>8, TicketStays
     DEF Next, Bridge, Caller, Recovery

\* ... and to its request
RequestMoved(q) ==
  \/ UNCHANGED <<req[q], pending[q], versions[q], ok[q]>>
  \/ req[q] \in OpenReq /\ req'[q] \in Marks /\ pending'[q] /\ ~ok'[q]
  \/ Prepare(q) /\ req[q] = "none" /\ req'[q] = "pending" /\ UNCHANGED <<versions[q], ticket[q]>>
  \/ /\ UNCHANGED <<req[q], versions[q]>>
     /\ (pending[q] /\ ok[q]) \/ ticket'[q] \in Settles(req[q])
  \/ req[q] = "queued" /\ req'[q] = "running"

LEMMA Committed ==
  ASSUME ReqTypes, NEW r \in Requests, NEW st \in Marks, NEW q \in Requests,
         req[r] \in OpenReq, Commit(r, st)
  PROVE  RequestMoved(q)
<1>1. CASE q = r
  BY <1>1 DEF ReqTypes, Commit, RequestMoved, Marks
<1>2. CASE q # r
  BY <1>2 DEF ReqTypes, Commit, RequestMoved
<1> QED BY <1>1, <1>2

LEMMA SameRequest ==
  ASSUME UNCHANGED <<req, pending, versions, ok>>, NEW q PROVE RequestMoved(q)
BY DEF RequestMoved

LEMMA OrgOperationMoves ==
  ASSUME ReqTypes, NEW r \in Requests, NEW claimed \in BOOLEAN, NEW q \in Requests,
         CancelReq(r) \/ AbortReq(r, claimed) \/ CompleteReq(r) \/ QueueJob(r)
  PROVE  RequestMoved(q)
<1>1. CASE SameOrgHalf
  BY <1>1, SameRequest DEF SameOrgHalf
<1>2. CASE \E st \in Marks : Commit(r, st) /\ req[r] \in OpenReq
  BY <1>2, Committed
<1> QED
  BY <1>1, <1>2 DEF CancelReq, AbortReq, CompleteReq, QueueJob, Marks, OpenReq

LEMMA RequestMoves ==
  ASSUME TypeOK, IInv, [Next]_vars, NEW q \in Requests
  PROVE  RequestMoved(q)
<1>0. ReqTypes
  BY TypeParts
<1>1. ASSUME NEW r \in Requests, RunJob(r) \/ EndUnrunnable(r) \/ QueueOne(r) \/ GuardOrg(r)
                                 \/ Abandon(r) \/ CancelTurn(r)
      PROVE  RequestMoved(q)
  BY <1>0, <1>1, OrgOperationMoves DEF RunJob, EndUnrunnable, QueueOne, GuardOrg, Abandon, CancelTurn
<1>2. ASSUME NEW r \in Requests, LoseReq(r)
      PROVE  RequestMoved(q)
  BY <1>0, <1>2, Committed DEF LoseReq, Marks
<1>3. ASSUME NEW r \in Requests, Prepare(r)
      PROVE  RequestMoved(q)
  <2>1. req[r] = "none"
    BY <1>3 DEF Prepare, IInv, Staged
  <2> QED BY <1>0, <1>3, <2>1 DEF Prepare, Create, RequestMoved, ReqTypes, appVars
<1>4. ASSUME NEW r \in Requests, Confirm(r) \/ Synced(r)
      PROVE  RequestMoved(q)
  BY <1>0, <1>4 DEF Confirm, Synced, RequestMoved, ReqTypes, appVars
<1>5. ASSUME NEW r \in Requests, Begin(r)
      PROVE  RequestMoved(q)
  BY <1>0, <1>5 DEF Begin, RequestMoved, ReqTypes
<1>6. ASSUME \/ UNCHANGED vars \/ SetLimit
             \/ \E h \in Hosts : Crash(h) \/ KillTree(h) \/ Reclaim(h)
             \/ \E o \in Orgs, h \in Hosts : Unfence(o, h)
             \/ \E r \in Requests :
                  \/ ClaimJob(r) \/ RetryJob(r) \/ Forward(r) \/ Open(r) \/ Prepared(r) \/ Enqueue(r)
                  \/ Claim(r) \/ GiveUp(r) \/ Refused(r) \/ Clear(r) \/ Launch(r) \/ BackOut(r)
                  \/ EndTurn(r) \/ StopSignal(r) \/ GuardForward(r) \/ FreeSlot(r) \/ Unclaim(r)
                  \/ OrphanEnds(r)
      PROVE  UNCHANGED <<req, pending, versions, ok>>
  BY <1>6 DEF vars, orgVars, SetLimit, Crash, KillTree, Reclaim, Unfence, ClaimJob, RetryJob, Forward,
     Open, Prepared, Enqueue, Claim, GiveUp, Refused, Clear, Launch, BackOut, EndTurn, StopSignal, Ends,
     GuardForward, FreeSlot, Unclaim, OrphanEnds
<1> QED
  BY <1>1, <1>2, <1>3, <1>4, <1>5, <1>6, SameRequest
     DEF Next, Bridge, Caller, Recovery

\* a process dies once, and its open tickets with it
LEMMA HostMoves ==
  ASSUME TypeOK, [Next]_vars, NEW q \in Requests
  PROVE  /\ host[HostOf[q]] = "dead" => host'[HostOf[q]] = "dead"
         /\ host'[HostOf[q]] = "dead" => host[HostOf[q]] = "dead" \/ ticket'[q] \notin OpenTicket
<1>1. CASE UNCHANGED host
  BY <1>1
<1>2. ASSUME NEW h \in Hosts, Crash(h) \/ KillTree(h)
      PROVE  host[HostOf[q]] = "dead" <=> host'[HostOf[q]] = "dead"
  BY <1>2, TypeParts, OrgType DEF HostTypes, Crash, KillTree
<1>3. ASSUME NEW h \in Hosts, Reclaim(h)
      PROVE  /\ host[HostOf[q]] = "dead" => host'[HostOf[q]] = "dead"
             /\ host'[HostOf[q]] = "dead" => host[HostOf[q]] = "dead" \/ ticket'[q] \notin OpenTicket
  <2>1. host' = [host EXCEPT ![h] = "dead"]
        /\ ticket'[q] = IF HostOf[q] = h /\ ticket[q] \in OpenTicket THEN "lost" ELSE ticket[q]
    BY <1>3 DEF Reclaim
  <2> QED BY <2>1, TypeParts, OrgType DEF HostTypes, OpenTicket, Occupied
<1> QED
  BY <1>1, <1>2, <1>3
     DEF Next, Bridge, Caller, Recovery, vars, SetLimit, Unfence, ClaimJob, RunJob, RetryJob,
     EndUnrunnable, Forward, Confirm, Synced, Open, Prepare, QueueOne, Prepared, Enqueue, Claim, GiveUp,
     Refused, Clear, Begin, Launch, BackOut, EndTurn, StopSignal, Ends, GuardOrg, GuardForward, FreeSlot,
     Unclaim, Abandon, CancelTurn, OrphanEnds, LoseReq

LEMMA HalvesCloseKeeps ==
  ASSUME TypeOK, IInv, Closing, [Next]_vars
  PROVE  Unasked' /\ HandedOver' /\ DeadClosed'
<1>0. \A r \in Requests : TicketMoved(r) /\ RequestMoved(r)
  BY TicketMoves, RequestMoves
<1>1. ASSUME NEW r \in Requests, req'[r] \in {"none", "pending"}
      PROVE  versions'[r] = {} /\ ticket'[r] = "none"
  <2>1. req[r] \in {"none", "pending"} /\ versions'[r] = versions[r]
    BY <1>0, <1>1 DEF RequestMoved, Marks
  <2> QED BY <1>0, <2>1 DEF Closing, Unasked, TicketMoved
<1>2. ASSUME NEW r \in Requests, req'[r] \in EndedReq, ok'[r] \/ ~pending'[r]
      PROVE  ticket'[r] \in EndedTicket \/ host'[HostOf[r]] = "dead"
  <2>1. ticket[r] \in EndedTicket \/ host[HostOf[r]] = "dead"
          => ticket'[r] \in EndedTicket \/ host'[HostOf[r]] = "dead"
    BY <1>0, HostMoves DEF TicketMoved
  <2>2. CASE req[r] \in EndedReq /\ (ok[r] \/ ~pending[r])
    BY <2>1, <2>2 DEF Closing, HandedOver
  <2>3. CASE ticket'[r] \in Settles(req[r]) /\ req'[r] = req[r]
    <3>1. req[r] = "lost" => host[HostOf[r]] = "dead"
      BY DEF IInv, Staged
    <3> QED BY <1>2, <2>1, <2>3, <3>1 DEF Settles, EndedReq, EndedTicket
  <2> QED BY <1>0, <1>2, <2>2, <2>3 DEF RequestMoved, EndedReq
<1>3. ASSUME NEW r \in Requests, host'[HostOf[r]] = "dead"
      PROVE  ticket'[r] \notin OpenTicket
  BY <1>0, <1>3, HostMoves DEF Closing, DeadClosed, TicketMoved
<1> QED BY <1>1, <1>2, <1>3 DEF Unasked, HandedOver, DeadClosed

\* a caller that lives answers for the request of its turn
Answers(q) == Up(q) /\ (pc[q] \in Active \/ "abandon" \in due[q])

LEMMA CallMoves ==
  ASSUME TypeOK, IInv, [Next]_vars, NEW q \in Requests, Answers(q), req'[q] \in OpenReq
  PROVE  Answers(q)' \/ host'[HostOf[q]] \in {"crashed", "killed"}
<1> USE TypeParts DEF CallTypes
<1>1. ASSUME NEW r \in Requests,
             \/ Open(r) \/ Prepared(r) \/ Clear(r) \/ Begin(r) \/ Launch(r) \/ BackOut(r)
             \/ EndTurn(r) \/ StopSignal(r) \/ GuardOrg(r) \/ GuardForward(r)
      PROVE  Answers(q)'
  <2>1. UNCHANGED <<host, due>> /\ \E to \in Active : Goes(r, to)
    BY <1>1 DEF Open, Prepared, Clear, Begin, Launch, BackOut, EndTurn, StopSignal, Ends, GuardOrg,
       GuardForward, Active
  <2> QED BY <2>1 DEF Goes, Answers, Up
<1>2. ASSUME NEW r \in Requests, Prepare(r) \/ Claim(r) \/ GiveUp(r) \/ Refused(r)
      PROVE  Answers(q)'
  <2>1. UNCHANGED host /\ \/ UNCHANGED due /\ \E to \in Active : Goes(r, to)
                          \/ \E asked \in BOOLEAN : Leaves(r, asked)
    BY <1>2 DEF Prepare, Claim, GiveUp, Refused, Active
  <2>2. CASE UNCHANGED due /\ \E to \in Active : Goes(r, to)
    BY <2>1, <2>2 DEF Goes, Answers, Up
  <2>3. CASE \E asked \in BOOLEAN : Leaves(r, asked)
    BY <2>1, <2>3 DEF Leaves, Goes, Answers, Up
  <2> QED BY <2>1, <2>2, <2>3
<1>3. ASSUME NEW r \in Requests, FreeSlot(r)
      PROVE  Answers(q)'
  <2>1. req[r] \in EndedReq /\ req' = req
    BY <1>3 DEF IInv, Staged, FreeSlot, orgVars
  <2>2. q # r
    BY <2>1 DEF OpenReq, EndedReq
  <2> QED BY <1>3, <2>2 DEF FreeSlot, Goes, Answers, Up
<1>4. ASSUME NEW r \in Requests, Unclaim(r)
      PROVE  Answers(q)'
  BY <1>4 DEF Unclaim, Answers, Up
<1>5. ASSUME NEW r \in Requests, Abandon(r)
      PROVE  Answers(q)'
  <2>1. CASE q = r
    <3>1. pc[r] = "left" /\ req[r] \notin Occupied
      BY <1>5 DEF Abandon, IInv, Staged
    <3>2. req'[r] \notin OpenReq
      BY <1>5, <3>1 DEF Abandon, AbortReq, Commit, SameOrgHalf, ReqTypes, Occupied, OpenReq
    <3> QED BY <2>1, <3>2
  <2>2. CASE q # r
    BY <1>5, <2>2 DEF Abandon, Answers, Up
  <2> QED BY <2>1, <2>2
<1>6. ASSUME NEW h \in Hosts, Crash(h)
      PROVE  Answers(q)' \/ host'[HostOf[q]] \in {"crashed", "killed"}
  BY <1>6, OrgType DEF Crash, Answers, Up, HostTypes
<1>7. ASSUME NEW h \in Hosts, KillTree(h) \/ Reclaim(h)
      PROVE  Answers(q)'
  BY <1>7, OrgType DEF KillTree, Reclaim, Answers, Up, HostTypes
<1>8. ASSUME \/ UNCHANGED vars \/ SetLimit
             \/ \E o \in Orgs, h \in Hosts : Unfence(o, h)
             \/ \E r \in Requests : \/ Bridge(r) \/ QueueOne(r) \/ Enqueue(r) \/ CancelTurn(r)
                                    \/ OrphanEnds(r) \/ LoseReq(r)
      PROVE  UNCHANGED <<host, pc, due>>
  BY <1>8 DEF vars, SetLimit, Unfence, Bridge, ClaimJob, RunJob, RetryJob, EndUnrunnable, Forward,
     Confirm, Synced, QueueOne, Enqueue, CancelTurn, OrphanEnds, LoseReq
<1>9. UNCHANGED <<host, pc, due>> => Answers(q)'
  BY DEF Answers, Up
<1> QED
  BY <1>1, <1>2, <1>3, <1>4, <1>5, <1>6, <1>7, <1>8, <1>9 DEF Next, Caller, Recovery

\* a dead process is fenced, and stays so while a request of it is open
LEMMA FenceMoves ==
  ASSUME TypeOK, IInv, [Next]_vars, NEW q \in Requests, req'[q] \in OpenReq,
         host[HostOf[q]] \in {"crashed", "killed"} \/ Fenced(q)
  PROVE  host'[HostOf[q]] \in {"crashed", "killed"} \/ Fenced(q)'
<1>1. CASE UNCHANGED <<host, fences>>
  BY <1>1 DEF Fenced
<1>2. ASSUME NEW h \in Hosts, Crash(h) \/ KillTree(h)
      PROVE  host'[HostOf[q]] \in {"crashed", "killed"} \/ Fenced(q)'
  BY <1>2, TypeParts, OrgType DEF Crash, KillTree, HostTypes, Fenced, appVars
<1>3. ASSUME NEW h \in Hosts, Reclaim(h)
      PROVE  host'[HostOf[q]] \in {"crashed", "killed"} \/ Fenced(q)'
  BY <1>3, TypeParts, OrgType DEF Reclaim, HostTypes, Fenced
<1>4. ASSUME NEW o \in Orgs, NEW h \in Hosts, Unfence(o, h)
      PROVE  host'[HostOf[q]] \in {"crashed", "killed"} \/ Fenced(q)'
  <2>1. \/ host[HostOf[q]] \in {"crashed", "killed"}
        \/ <<Org(q), HostOf[q]>> # <<o, h>>
    BY <1>4 DEF Unfence, orgVars, Fenced
  <2> QED BY <1>4, <2>1 DEF Unfence, Fenced
<1> QED
  BY <1>1, <1>2, <1>3, <1>4
     DEF Next, Bridge, Caller, Recovery, vars, appVars, SetLimit, ClaimJob, RunJob, RetryJob, EnqueueTicket,
     SetTicket, ClaimTicket, ForwardQueued, ForwardCancel, ForwardAck, ForwardDone,
     EndUnrunnable, Forward, Confirm, Synced, Open, Prepare, QueueOne, Prepared, Enqueue, Claim, GiveUp,
     Refused, Clear, Begin, Launch, BackOut, EndTurn, StopSignal, Ends, GuardOrg, GuardForward, FreeSlot,
     Unclaim, Abandon, CancelTurn, OrphanEnds, LoseReq

LEMMA ReqClosedKeeps ==
  ASSUME TypeOK, IInv, Closing, [Next]_vars
  PROVE  ReqClosed'
<1>1. SUFFICES ASSUME NEW q \in Requests, req'[q] \in OpenReq
              PROVE  Answers(q)' \/ host'[HostOf[q]] \in {"crashed", "killed"} \/ Fenced(q)'
  BY DEF ReqClosed, Answers, Up
<1>2. CASE req[q] \in OpenReq
  <2>1. Answers(q) \/ host[HostOf[q]] \in {"crashed", "killed"} \/ Fenced(q)
    BY <1>2 DEF Closing, ReqClosed, Answers
  <2> QED BY <1>1, <2>1, CallMoves, FenceMoves
<1>3. CASE req[q] \notin OpenReq
  <2>1. Prepare(q)
    BY <1>1, <1>3, RequestMoves DEF RequestMoved, OpenReq
  <2> QED BY <2>1, TypeParts DEF Prepare, Leaves, Goes, Answers, Up, CallTypes, Active
<1> QED BY <1>2, <1>3

LEMMA InitClosing == Init => Closing
BY DEF Init, Closing, Unasked, HandedOver, DeadClosed, ReqClosed, OpenReq, EndedReq, OpenTicket, Occupied

\* Every open half of a turn has somebody who closes it: its caller, its host's
\* retained cleanups, the bridge or the recovery of its dead process (NothingStranded).
THEOREM NothingIsStranded == Spec => []NothingStranded
<1>1. Init => Closing
  BY InitClosing
<1>2. TypeOK /\ IInv /\ Closing /\ [Next]_vars => Closing'
  BY HalvesCloseKeeps, ReqClosedKeeps DEF Closing
<1>3. TypeOK /\ IInv /\ Closing => NothingStranded
  <2> SUFFICES ASSUME TypeOK, IInv, Closing, NEW r \in Requests
               PROVE  /\ ticket[r] \in OpenTicket =>
                           \/ Up(r) /\ (pc[r] \in Active \/ due[r] # {} \/ (pending[r] /\ req[r] \in EndedReq))
                           \/ host[HostOf[r]] \in {"crashed", "killed"}
                      /\ req[r] \in OpenReq =>
                           \/ Up(r) /\ (pc[r] \in Active \/ "abandon" \in due[r])
                           \/ host[HostOf[r]] \in {"crashed", "killed"}
                           \/ Fenced(r)
    BY DEF NothingStranded
  <2>1. req[r] \in OpenReq =>
          \/ Up(r) /\ (pc[r] \in Active \/ "abandon" \in due[r])
          \/ host[HostOf[r]] \in {"crashed", "killed"}
          \/ Fenced(r)
    BY DEF Closing, ReqClosed
  <2>2. ASSUME ticket[r] \in OpenTicket, host[HostOf[r]] \notin {"crashed", "killed"}
        PROVE  Up(r)
    BY <2>2, TypeParts, OrgType DEF HostTypes, Closing, DeadClosed, Up
  <2>3. ASSUME ticket[r] \in OpenTicket, Up(r), pc[r] \notin Active, due[r] = {}
        PROVE  pending[r] /\ req[r] \in EndedReq
    <3>1. ~Fenced(r) /\ host[HostOf[r]] \notin {"crashed", "killed", "dead"}
      BY <2>3, OrgType DEF IInv, HostsKnown, Fenced, Up
    <3>2. req[r] \notin OpenReq
      BY <2>1, <2>3, <3>1
    <3>3. req[r] # "none"
      BY <2>3 DEF Closing, Unasked, OpenTicket, Occupied
    <3>4. req[r] \in EndedReq
      BY <3>2, <3>3, TypeParts DEF ReqTypes, ReqStates
    <3> QED BY <2>3, <3>1, <3>4 DEF Closing, HandedOver, OpenTicket, EndedTicket, Occupied
  <2> QED BY <2>1, <2>2, <2>3
<1> QED BY <1>1, <1>2, <1>3, HalvesAgree, PTL DEF Spec
=============================================================================
