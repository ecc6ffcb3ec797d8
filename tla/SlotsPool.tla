----------------------------- MODULE SlotsPool -----------------------------
(***************************************************************************)
(* The slots implement the permit pool: a claim is held while its lease is *)
(* active, and done when the lease has ended.                              *)
(***************************************************************************)
EXTENDS Slots

Granted(r) == claim[r].lease \/ claim[r].st = "inline"

phaseOf == [r \in Requests |-> IF slot[r] # 0 THEN "held"
                               ELSE IF Granted(r) THEN "done" ELSE "idle"]

sizeOf == [r \in Requests |-> claim[r].n]

Pool == INSTANCE PermitPool WITH Takers <- Requests, MaxPermits <- MaxCap,
                                 cap <- cap, size <- sizeOf, phase <- phaseOf

\* Every grant pass, release, reclaim, edit and crash of the slots is a step of
\* the permit pool or none: leases are whole, given once, and fit.
PoolSpec == Pool!Spec

-----------------------------------------------------------------------------
(* The inductive invariant, in parts. *)

\* an active lease was marked in its dog's memo by the grant, or has no dog
LeaseMarked == \A r \in Requests : slot[r] # 0 => Granted(r)

NewUnmarked == \A r \in Requests : claim[r].st \in {"none", "creating"} => ~claim[r].lease

\* what a pass read as waiting is still waiting or gone, never granted since
LineUnmarked ==
  \A r \in pass.waiting \cup pass.inline :
    /\ ~Granted(r)
    /\ claim[r].st # "none"
    /\ <<"claim", r>> \notin due /\ <<"insert", r>> \notin due
    /\ r \notin pass.inline => claim[r].st # "creating"

PassLocal == /\ Unlocked => pass.waiting = {} /\ pass.inline = {}
             /\ \A r \in pass.inline : claim[r].st = "creating"

CallsOnNew ==
  \A r \in Requests :
    /\ <<"claim", r>> \in due \/ <<"insert", r>> \in due => claim[r].st = "creating"
    /\ ~(<<"claim", r>> \in due /\ <<"insert", r>> \in due)

\* a pause or remove call in flight is about a dog, and never the user's hold
ActsOnDogs ==
  \A r \in Requests :
    <<"pause", r>> \in due \/ <<"remove", r>> \in due
      => claim[r].owner # User /\ claim[r].st \notin {"none", "creating", "inline"}

\* No lease comes without its mark and no marked claim is waiting, whatever
\* happens between the two steps of a grant pass: what makes a grant final.
IInv == LeaseMarked /\ NewUnmarked /\ LineUnmarked /\ PassLocal /\ CallsOnNew /\ ActsOnDogs
=============================================================================
