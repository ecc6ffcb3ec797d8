------------------------- MODULE ProjectQueueProofs -------------------------
(***************************************************************************)
(* The project queues and their relays, for any agents, projects, batches  *)
(* and tasks: one heir per job, both ends of a relay settle together,      *)
(* batches hold, acknowledgements are final, and no mail waits for an      *)
(* agent that has room once no queue runs.                                 *)
(***************************************************************************)
EXTENDS ProjectQueue, TLAPS, FiniteSetTheorems, SequenceTheorems

(* The jobs above and below a job. *)

\* From a claimed job the walk up goes on.
LEMMA AboveClosed ==
  ASSUME NEW j, NEW S, NEW k \in Above(j, S) \cup {j}, Claimed(k, S)
  PROVE  jobs[k].parent \in Above(j, S)
<1>1. jobs[k].parent \in DOMAIN jobs
  BY DEF Claimed
<1>2. ASSUME NEW A \in SUBSET (DOMAIN jobs),
             \A i \in A \cup {j} : Claimed(i, S) => jobs[i].parent \in A
      PROVE  jobs[k].parent \in A
  <2>1. k \in A \cup {j}
    BY <1>2 DEF Above
  <2> QED BY <1>2, <2>1
<1> QED BY <1>1, <1>2 DEF Above

\* Every job above is reached from one that is claimed by it.
LEMMA AboveReached ==
  ASSUME NEW j, NEW S, NEW f \in Above(j, S)
  PROVE  /\ f \in DOMAIN jobs /\ jobs[f].st \in S
         /\ jobs[f].child \in Above(j, S) \cup {j}
<1> DEFINE A == {i \in DOMAIN jobs : \E x \in Above(j, S) \cup {j} : Claimed(x, S) /\ i = jobs[x].parent}
<1>1. A \subseteq Above(j, S)
  BY AboveClosed
<1>2. \A k \in A \cup {j} : Claimed(k, S) => jobs[k].parent \in A
  BY <1>1 DEF Claimed
<1>3. f \in A
  BY <1>2 DEF Above
<1> QED BY <1>3 DEF Claimed

\* From a job taken on the walk down goes on.
LEMMA BelowClosed ==
  ASSUME NEW j, NEW k \in Below(j) \cup {j}, jobs[k].child \in DOMAIN jobs, jobs[k].child # 0
  PROVE  jobs[k].child \in Below(j)
<1>1. ASSUME NEW A \in SUBSET (DOMAIN jobs),
             \A i \in A \cup {j} : jobs[i].child # 0 => jobs[i].child \in A
      PROVE  jobs[k].child \in A
  <2>1. k \in A \cup {j}
    BY <1>1 DEF Below
  <2> QED BY <1>1, <2>1
<1> QED BY <1>1 DEF Below

LEMMA JobsShape ==
  ASSUME IInv
  PROVE  /\ jobs \in Seq(Rows) /\ Len(jobs) \in Nat /\ DOMAIN jobs = 1..Len(jobs)
         /\ \A j \in DOMAIN jobs : jobs[j] \in Rows
         /\ IsFiniteSet(DOMAIN jobs)
<1>1. jobs \in Seq(Rows)
  BY DEF IInv
<1>2. Len(jobs) \in Nat /\ DOMAIN jobs = 1..Len(jobs)
  BY <1>1, LenProperties
<1>3. \A j \in DOMAIN jobs : jobs[j] \in Rows
  BY <1>1, <1>2, ElementOfSeq
<1>4. IsFiniteSet(DOMAIN jobs)
  BY <1>2, FS_Interval
<1> QED BY <1>1, <1>2, <1>3, <1>4

\* What is below a job came later.
LEMMA BelowLater ==
  ASSUME IInv, NEW j \in DOMAIN jobs, NEW i \in Below(j)
  PROVE  i > j
<1> DEFINE A == {k \in DOMAIN jobs : k > j}
<1>1. DOMAIN jobs \subseteq Nat
  BY JobsShape
<1>2. \A k \in A \cup {j} : jobs[k].child # 0 => jobs[k].child \in A
  BY <1>1 DEF IInv, ChildrenLater
<1> QED BY <1>2 DEF Below

-----------------------------------------------------------------------------
(* Steps that hand nothing out. *)

\* Rows are rewritten in place, and none is handed out.
Moved ==
  /\ jobs' \in Seq(Rows) /\ DOMAIN jobs' = DOMAIN jobs
  /\ \A j \in DOMAIN jobs :
       /\ jobs'[j].at = jobs[j].at /\ jobs'[j].parent = jobs[j].parent
       /\ jobs'[j].child \in {jobs[j].child, 0}
       /\ jobs'[j].st = "relayed" =>
            jobs[j].st = "relayed" /\ jobs'[j].by = jobs[j].by /\ jobs'[j].child = jobs[j].child
       /\ jobs'[j].st = "held" => jobs[j].st = "held" /\ jobs'[j].by = jobs[j].by
       /\ jobs[j].st = "acked" => jobs'[j].st \in {"acked", "withdrawn"}
       /\ Live(j)' => Live(j)

\* Whoever is still worked on is still claimed.
HeirsKept ==
  \A j \in DOMAIN jobs :
    Live(j)' /\ Claimed(j, {"relayed", "passed"}) => Claimed(j, {"relayed", "passed"})'

\* No relay outlives the end of its child.
EndsMeet ==
  \A j \in DOMAIN jobs : jobs'[j].st = "relayed" =>
    LET c == jobs[j].child IN
    jobs'[c].st \notin {"dead", "dropped"} /\ (jobs'[c].st = "acked" => jobs'[c].by = User)

JobParts ==
  jobs \in Seq(Rows) /\ HoldersKnown /\ ChildrenLater /\ RelaysLinked /\ LiveLinked /\ RelaySettles

LEMMA MovedKeeps ==
  ASSUME IInv, Moved, HeirsKept, EndsMeet
  PROVE  /\ JobParts'
         /\ \A j \in DOMAIN jobs : jobs[j].st = "acked" => jobs'[j].st \in {"acked", "withdrawn"}
         /\ \A w \in Listeners : HeldBy(w)' \subseteq HeldBy(w)
<1>1. HoldersKnown'
  BY DEF IInv, Moved, HoldersKnown
<1>2. RelaysLinked'
  BY DEF IInv, Moved, RelaysLinked
<1>3. LiveLinked'
  BY DEF IInv, Moved, HeirsKept, LiveLinked
<1>4. RelaySettles'
  BY DEF IInv, Moved, EndsMeet, RelaySettles
<1>5. \A w \in Listeners : HeldBy(w)' \subseteq HeldBy(w)
  BY DEF Moved, HeldBy, InState
<1>6. ChildrenLater'
  BY DEF IInv, Moved, ChildrenLater
<1> QED BY <1>1, <1>2, <1>3, <1>4, <1>5, <1>6 DEF Moved, JobParts

\* What a step reads of a row.
Alike(r, s) ==
  /\ r.at = s.at /\ r.st = s.st /\ r.by = s.by /\ r.parent = s.parent /\ r.child = s.child
  /\ r.revoked = s.revoked /\ r.retried = s.retried

LEMMA Untouched ==
  ASSUME IInv, jobs' = jobs
  PROVE  Moved /\ HeirsKept /\ EndsMeet
<1>1. Moved
  BY DEF IInv, Moved, Live
<1>2. HeirsKept
  BY DEF HeirsKept, Claimed
<1>3. EndsMeet
  BY DEF IInv, EndsMeet, RelaySettles
<1> QED BY <1>1, <1>2, <1>3

LEMMA RowsSeq ==
  ASSUME IInv, NEW f, f \in [DOMAIN jobs -> Rows]
  PROVE  f \in Seq(Rows) /\ DOMAIN f = DOMAIN jobs
<1>1. f \in [1..Len(jobs) -> Rows] /\ Len(jobs) \in Nat
  BY JobsShape
<1>2. f \in Seq(Rows)
  BY <1>1
<1> QED BY <1>2

-----------------------------------------------------------------------------
(* Giving jobs back. *)

LEMMA DeadFacts ==
  ASSUME IInv, NEW S \in SUBSET (DOMAIN jobs)
  PROVE  /\ \A i \in Dead(S) : i \in DOMAIN jobs /\ (i \in S \/ jobs[i].st \in {"relayed", "passed"})
         /\ \A i \in Dead(S) : i \notin S => jobs[i].child \in Dead(S)
         /\ \A k \in Dead(S) : Claimed(k, {"relayed", "passed"}) => jobs[k].parent \in Dead(S)
<1> DEFINE last == {j \in S : jobs[j].hands - jobs[j].base >= MaxAttempts}
           T == {"relayed", "passed"}
<1>1. Dead(S) = last \cup UNION {Above(j, T) : j \in last}
  BY DEF Dead
<1>2. ASSUME NEW i \in Dead(S), i \notin S
      PROVE  i \in DOMAIN jobs /\ jobs[i].st \in T /\ jobs[i].child \in Dead(S)
  <2>1. PICK l \in last : i \in Above(l, T)
    BY <1>1, <1>2
  <2>2. i \in DOMAIN jobs /\ jobs[i].st \in T /\ jobs[i].child \in Above(l, T) \cup {l}
    BY <2>1, AboveReached
  <2> QED BY <1>1, <2>2
<1>3. ASSUME NEW k \in Dead(S), Claimed(k, T)
      PROVE  jobs[k].parent \in Dead(S)
  <2>1. PICK l \in last : k \in Above(l, T) \cup {l}
    BY <1>1
  <2>2. jobs[k].parent \in Above(l, T)
    BY <1>3, <2>1, AboveClosed
  <2> QED BY <1>1, <2>2
<1> QED BY <1>2, <1>3

LEMMA GaveBackRows ==
  ASSUME IInv, NEW S \in SUBSET (DOMAIN jobs)
  PROVE  GaveBack(S) \in [DOMAIN jobs -> Rows]
<1>1. \A i \in DOMAIN jobs : jobs[i] \in Rows
  BY JobsShape
<1>2. ASSUME NEW r \in Rows, NEW s \in {"dead", "waiting"}
      PROVE  [r EXCEPT !.st = s, !.by = None, !.wakes = 0] \in Rows
  BY DEF Rows, JobStates
<1> QED BY <1>1, <1>2 DEF GaveBack

LEMMA GaveBackMoves ==
  ASSUME IInv, NEW S \in SUBSET (DOMAIN jobs), \A i \in S : jobs[i].st = "held",
         jobs' \in Seq(Rows), DOMAIN jobs' = DOMAIN jobs,
         \A i \in DOMAIN jobs : Alike(jobs'[i], GaveBack(S)[i])
  PROVE  Moved /\ HeirsKept /\ EndsMeet
<1> DEFINE T == {"relayed", "passed"}
<1>1. \A i \in DOMAIN jobs : jobs[i] \in Rows
  BY JobsShape
<1>2. \A i \in DOMAIN jobs :
        /\ jobs'[i].at = jobs[i].at /\ jobs'[i].parent = jobs[i].parent /\ jobs'[i].child = jobs[i].child
        /\ jobs'[i].revoked = jobs[i].revoked /\ jobs'[i].retried = jobs[i].retried
        /\ jobs'[i].st = IF i \in Dead(S) THEN "dead" ELSE IF i \in S THEN "waiting" ELSE jobs[i].st
        /\ i \notin Dead(S) \cup S => jobs'[i].by = jobs[i].by
  BY <1>1 DEF Alike, GaveBack, Rows
<1>3. /\ \A i \in Dead(S) : i \in DOMAIN jobs /\ (i \in S \/ jobs[i].st \in T)
      /\ \A i \in Dead(S) : i \notin S => jobs[i].child \in Dead(S)
      /\ \A k \in Dead(S) : Claimed(k, T) => jobs[k].parent \in Dead(S)
  BY DeadFacts
<1>4. Moved
  BY <1>2, <1>3 DEF Moved, Live
<1>5. HeirsKept
  <2> SUFFICES ASSUME NEW j \in DOMAIN jobs, Live(j)', Claimed(j, T)
               PROVE  Claimed(j, T)'
    BY DEF HeirsKept
  <2> DEFINE f == jobs[j].parent
  <2>1. f \in DOMAIN jobs /\ jobs[f].child = j /\ jobs[f].st \in T
    BY DEF Claimed
  <2>2. j \notin Dead(S)
    BY <1>2 DEF Live
  <2>3. f \notin S /\ f \notin Dead(S)
    BY <1>3, <2>1, <2>2
  <2> QED BY <1>2, <2>1, <2>3 DEF Claimed
<1>6. EndsMeet
  <2> SUFFICES ASSUME NEW j \in DOMAIN jobs, jobs'[j].st = "relayed"
               PROVE  LET c == jobs[j].child IN
                      jobs'[c].st \notin {"dead", "dropped"} /\ (jobs'[c].st = "acked" => jobs'[c].by = User)
    BY DEF EndsMeet
  <2> DEFINE c == jobs[j].child
  <2>1. jobs[j].st = "relayed" /\ j \notin Dead(S)
    BY <1>2
  <2>2. c \in DOMAIN jobs /\ jobs[c].parent = j
    BY <2>1 DEF IInv, RelaysLinked
  <2>3. c \notin Dead(S)
    BY <1>3, <2>1, <2>2 DEF Claimed
  <2>4. jobs[c].st \notin {"dead", "dropped"} /\ (jobs[c].st = "acked" => jobs[c].by = User)
    BY <2>1 DEF IInv, RelaySettles
  <2> QED BY <1>2, <2>2, <2>3, <2>4
<1> QED BY <1>4, <1>5, <1>6

LEMMA GaveBackStep ==
  ASSUME IInv, NEW S \in SUBSET (DOMAIN jobs), \A i \in S : jobs[i].st = "held", jobs' = GaveBack(S)
  PROVE  Moved /\ HeirsKept /\ EndsMeet
<1>1. jobs' \in [DOMAIN jobs -> Rows]
  BY GaveBackRows
<1>2. jobs' \in Seq(Rows) /\ DOMAIN jobs' = DOMAIN jobs
  BY <1>1, RowsSeq
<1>3. \A i \in DOMAIN jobs : Alike(jobs'[i], GaveBack(S)[i])
  BY DEF Alike
<1> QED BY <1>2, <1>3, GaveBackMoves

-----------------------------------------------------------------------------
(* Acknowledgements. *)

LEMMA AckMoves ==
  ASSUME IInv, NEW j \in DOMAIN jobs, jobs[j].st = "held", jobs' = Acked(j)
  PROVE  Moved /\ HeirsKept /\ EndsMeet
<1> DEFINE T == {"relayed"}
           B == Above(j, T) \cup {j}
<1>1. \A i \in DOMAIN jobs : jobs[i] \in Rows
  BY JobsShape
<1>2. /\ DOMAIN jobs' = DOMAIN jobs
      /\ \A i \in DOMAIN jobs : jobs'[i] = IF i \in B THEN [jobs[i] EXCEPT !.st = "acked"] ELSE jobs[i]
  BY DEF Acked
<1>3. jobs' \in Seq(Rows)
  <2>1. \A r \in Rows : [r EXCEPT !.st = "acked"] \in Rows
    BY DEF Rows, JobStates
  <2>2. Acked(j) \in [DOMAIN jobs -> Rows]
    BY <1>1, <2>1 DEF Acked
  <2> QED BY <2>2, RowsSeq
<1>4. \A i \in DOMAIN jobs :
        /\ jobs'[i].at = jobs[i].at /\ jobs'[i].parent = jobs[i].parent /\ jobs'[i].child = jobs[i].child
        /\ jobs'[i].revoked = jobs[i].revoked /\ jobs'[i].retried = jobs[i].retried /\ jobs'[i].by = jobs[i].by
        /\ jobs'[i].st = IF i \in B THEN "acked" ELSE jobs[i].st
  BY <1>1, <1>2 DEF Rows
<1>5. /\ \A i \in B : i # j => jobs[i].st = "relayed" /\ jobs[i].child \in B
      /\ \A k \in B : Claimed(k, T) => jobs[k].parent \in B
  BY AboveReached, AboveClosed
<1>6. Moved
  BY <1>2, <1>3, <1>4 DEF Moved, Live
<1>7. HeirsKept
  <2> SUFFICES ASSUME NEW i \in DOMAIN jobs, Live(i)', Claimed(i, {"relayed", "passed"})
               PROVE  Claimed(i, {"relayed", "passed"})'
    BY DEF HeirsKept
  <2>1. i \notin B
    BY <1>4 DEF Live
  <2>2. jobs[i].parent \notin B
    BY <1>5, <2>1 DEF Claimed
  <2> QED BY <1>4, <1>2, <2>2 DEF Claimed
<1>8. EndsMeet
  <2> SUFFICES ASSUME NEW i \in DOMAIN jobs, jobs'[i].st = "relayed"
               PROVE  LET c == jobs[i].child IN
                      jobs'[c].st \notin {"dead", "dropped"} /\ (jobs'[c].st = "acked" => jobs'[c].by = User)
    BY DEF EndsMeet
  <2> DEFINE c == jobs[i].child
  <2>1. jobs[i].st = "relayed" /\ i \notin B
    BY <1>4
  <2>2. c \in DOMAIN jobs /\ jobs[c].parent = i
    BY <2>1 DEF IInv, RelaysLinked
  <2>3. c \notin B
    BY <1>5, <2>1, <2>2 DEF Claimed
  <2>4. jobs[c].st \notin {"dead", "dropped"} /\ (jobs[c].st = "acked" => jobs[c].by = User)
    BY <2>1 DEF IInv, RelaySettles
  <2> QED BY <1>4, <2>2, <2>3, <2>4
<1> QED BY <1>6, <1>7, <1>8

-----------------------------------------------------------------------------
(* The other changes of single rows. *)

\* Who has a job, and what it is related to, stay; its state changes in one of these ways.
Plain(i) ==
  /\ jobs'[i].at = jobs[i].at /\ jobs'[i].by = jobs[i].by /\ jobs'[i].revoked = jobs[i].revoked
  /\ jobs'[i].parent = jobs[i].parent /\ jobs'[i].child = jobs[i].child
  /\ jobs'[i].retried = jobs[i].retried \/ jobs'[i].retried = TRUE
  /\ \/ jobs'[i].st = jobs[i].st
     \/ jobs[i].st = "held" /\ jobs'[i].st = "acked" /\ jobs[i].by = User
     \/ jobs[i].st = "dead" /\ jobs'[i].st = "waiting" /\ jobs'[i].retried = TRUE
     \/ jobs[i].st = "dead" /\ jobs'[i].st = "dropped"
     \/ jobs[i].st = "waiting" /\ jobs'[i].st = "retracted"
     \/ jobs[i].st \in {"held", "relayed"} /\ jobs'[i].st = "passed"

LEMMA PlainMoves ==
  ASSUME IInv, jobs' \in Seq(Rows), DOMAIN jobs' = DOMAIN jobs,
         \A i \in DOMAIN jobs : Plain(i)
  PROVE  Moved /\ HeirsKept /\ EndsMeet
<1>1. Moved
  BY DEF Plain, Moved, Live
<1>2. HeirsKept
  BY DEF Plain, HeirsKept, Claimed, Live
<1>3. EndsMeet
  <2> SUFFICES ASSUME NEW i \in DOMAIN jobs, jobs'[i].st = "relayed"
               PROVE  LET c == jobs[i].child IN
                      jobs'[c].st \notin {"dead", "dropped"} /\ (jobs'[c].st = "acked" => jobs'[c].by = User)
    BY DEF EndsMeet
  <2> DEFINE c == jobs[i].child
  <2>1. jobs[i].st = "relayed"
    BY DEF Plain
  <2>2. c \in DOMAIN jobs
    BY <2>1 DEF IInv, RelaysLinked
  <2>3. jobs[c].st \notin {"dead", "dropped"} /\ (jobs[c].st = "acked" => jobs[c].by = User)
    BY <2>1 DEF IInv, RelaySettles
  <2> QED BY <2>2, <2>3 DEF Plain
<1> QED BY <1>1, <1>2, <1>3

LEMMA UserAckMoves ==
  ASSUME IInv, NEW j \in DOMAIN jobs, jobs[j].st = "held", jobs[j].by = User,
         jobs' = [jobs EXCEPT ![j].st = "acked"]
  PROVE  Moved /\ HeirsKept /\ EndsMeet
<1>1. \A i \in DOMAIN jobs : jobs[i] \in Rows
  BY JobsShape
<1>2. jobs' \in [DOMAIN jobs -> Rows]
  <2>1. [jobs[j] EXCEPT !.st = "acked"] \in Rows
    BY <1>1 DEF Rows, JobStates
  <2> QED BY <1>1, <2>1
<1>3. jobs' \in Seq(Rows) /\ DOMAIN jobs' = DOMAIN jobs
  BY <1>2, RowsSeq
<1>4. \A i \in DOMAIN jobs : jobs'[i] = IF i = j THEN [jobs[i] EXCEPT !.st = "acked"] ELSE jobs[i]
  OBVIOUS
<1>5. \A r \in Rows : LET s == [r EXCEPT !.st = "acked"] IN
        /\ s.at = r.at /\ s.by = r.by /\ s.revoked = r.revoked /\ s.parent = r.parent
        /\ s.child = r.child /\ s.retried = r.retried /\ s.st = "acked"
  BY DEF Rows
<1>6. \A i \in DOMAIN jobs : Plain(i)
  BY <1>1, <1>4, <1>5 DEF Plain
<1> QED BY <1>3, <1>6, PlainMoves

LEMMA RemindMoves ==
  ASSUME IInv, NEW j \in DOMAIN jobs, Remind(j)
  PROVE  Moved /\ HeirsKept /\ EndsMeet
<1>1. \A i \in DOMAIN jobs : jobs[i] \in Rows
  BY JobsShape
<1> DEFINE to(r) == [r EXCEPT !.wakes = r.wakes + 1]
<1>2. jobs' = [jobs EXCEPT ![j] = to(jobs[j])]
  BY DEF Remind
<1>3. \A r \in Rows :
        /\ to(r) \in Rows
        /\ to(r).at = r.at /\ to(r).by = r.by /\ to(r).revoked = r.revoked /\ to(r).parent = r.parent
        /\ to(r).child = r.child /\ to(r).retried = r.retried /\ to(r).st = r.st
  BY DEF Rows
<1>4. \A i \in DOMAIN jobs : jobs'[i] = IF i = j THEN to(jobs[i]) ELSE jobs[i]
  BY <1>2
<1> HIDE DEF to
<1>5. jobs' \in [DOMAIN jobs -> Rows]
  BY <1>1, <1>2, <1>3
<1>6. jobs' \in Seq(Rows) /\ DOMAIN jobs' = DOMAIN jobs
  BY <1>5, RowsSeq
<1>7. \A i \in DOMAIN jobs : Plain(i)
  BY <1>1, <1>3, <1>4 DEF Plain
<1> QED BY <1>6, <1>7, PlainMoves

LEMMA RetryMoves ==
  ASSUME IInv, NEW t \in Tasks, NEW j \in DOMAIN jobs, Retry(t, j)
  PROVE  Moved /\ HeirsKept /\ EndsMeet
<1>1. \A i \in DOMAIN jobs : jobs[i] \in Rows
  BY JobsShape
<1> DEFINE to(r) == [r EXCEPT !.st = "waiting", !.base = r.hands, !.retried = TRUE]
<1>2. jobs' = [jobs EXCEPT ![j] = to(jobs[j])] /\ jobs[j].st = "dead"
  BY DEF Retry
<1>3. \A r \in Rows :
        /\ to(r) \in Rows
        /\ to(r).at = r.at /\ to(r).by = r.by /\ to(r).revoked = r.revoked /\ to(r).parent = r.parent
        /\ to(r).child = r.child /\ to(r).retried = TRUE /\ to(r).st = "waiting"
  BY DEF Rows, JobStates
<1>4. \A i \in DOMAIN jobs : jobs'[i] = IF i = j THEN to(jobs[i]) ELSE jobs[i]
  BY <1>2
<1> HIDE DEF to
<1>5. jobs' \in [DOMAIN jobs -> Rows]
  BY <1>1, <1>2, <1>3
<1>6. jobs' \in Seq(Rows) /\ DOMAIN jobs' = DOMAIN jobs
  BY <1>5, RowsSeq
<1>7. \A i \in DOMAIN jobs : Plain(i)
  BY <1>1, <1>2, <1>3, <1>4 DEF Plain
<1> QED BY <1>6, <1>7, PlainMoves

\* A change of the states of a set of jobs.
LEMMA RestatedMoves ==
  ASSUME IInv, NEW S \in SUBSET (DOMAIN jobs), NEW st \in JobStates,
         jobs' = [i \in DOMAIN jobs |-> IF i \in S THEN [jobs[i] EXCEPT !.st = st] ELSE jobs[i]],
         \A i \in S : \/ jobs[i].st = "dead" /\ st = "dropped"
                      \/ jobs[i].st = "waiting" /\ st = "retracted"
                      \/ jobs[i].st \in {"held", "relayed"} /\ st = "passed"
  PROVE  Moved /\ HeirsKept /\ EndsMeet
<1>1. \A i \in DOMAIN jobs : jobs[i] \in Rows
  BY JobsShape
<1>2. \A r \in Rows : LET s == [r EXCEPT !.st = st] IN
        /\ s \in Rows
        /\ s.at = r.at /\ s.by = r.by /\ s.revoked = r.revoked /\ s.parent = r.parent
        /\ s.child = r.child /\ s.retried = r.retried /\ s.st = st
  BY DEF Rows
<1>3. \A i \in DOMAIN jobs : jobs'[i] = IF i \in S THEN [jobs[i] EXCEPT !.st = st] ELSE jobs[i]
  OBVIOUS
<1>4. jobs' \in [DOMAIN jobs -> Rows]
  BY <1>1, <1>2
<1>5. jobs' \in Seq(Rows) /\ DOMAIN jobs' = DOMAIN jobs
  BY <1>4, RowsSeq
<1>6. \A i \in DOMAIN jobs : Plain(i)
  BY <1>1, <1>2, <1>3 DEF Plain
<1> QED BY <1>5, <1>6, PlainMoves

\* A job is taken back from its relay, and all below it revoked.
LEMMA RelayTakeBackMoves ==
  ASSUME IInv, NEW j \in DOMAIN jobs, RelayTakeBack(j)
  PROVE  Moved /\ HeirsKept /\ EndsMeet
<1> DEFINE to(r) == [r EXCEPT !.st = "waiting", !.by = None, !.wakes = 0, !.child = 0, !.avoid = @ \cup {r.by}]
<1>1. \A i \in DOMAIN jobs : jobs[i] \in Rows
  BY JobsShape
<1>2. /\ jobs[j].st = "relayed"
      /\ jobs' = [i \in DOMAIN jobs |-> IF i = j THEN to(jobs[i])
                                        ELSE IF i \in Below(j) THEN Withdrawn(i) ELSE jobs[i]]
  BY DEF RelayTakeBack
<1>3. /\ to(jobs[j]) \in Rows
      /\ to(jobs[j]).at = jobs[j].at /\ to(jobs[j]).parent = jobs[j].parent /\ to(jobs[j]).st = "waiting"
      /\ to(jobs[j]).child = 0
      /\ to(jobs[j]).revoked = jobs[j].revoked /\ to(jobs[j]).retried = jobs[j].retried
  <2>1. jobs[j].by \in Owners
    BY <1>2 DEF IInv, HoldersKnown, Owners
  <2> QED BY <1>1, <2>1 DEF Rows, JobStates
<1>4. \A i \in DOMAIN jobs :
        /\ Withdrawn(i) \in Rows
        /\ Withdrawn(i).at = jobs[i].at /\ Withdrawn(i).parent = jobs[i].parent
        /\ Withdrawn(i).revoked = TRUE /\ Withdrawn(i).child = jobs[i].child
        /\ \/ Withdrawn(i).st = "withdrawn"
           \/ /\ Withdrawn(i).st = jobs[i].st /\ jobs[i].st # "waiting" /\ jobs[i].by \notin Projects
              /\ Withdrawn(i).by = jobs[i].by
  BY <1>1 DEF Withdrawn, Rows, JobStates
<1>5. \A i \in DOMAIN jobs : jobs'[i] = IF i = j THEN to(jobs[i])
                                        ELSE IF i \in Below(j) THEN Withdrawn(i) ELSE jobs[i]
  BY <1>2
<1> HIDE DEF to
<1>6. jobs' \in [DOMAIN jobs -> Rows]
  BY <1>1, <1>2, <1>3, <1>4
<1>7. jobs' \in Seq(Rows) /\ DOMAIN jobs' = DOMAIN jobs
  BY <1>6, RowsSeq
<1>8. \A i \in DOMAIN jobs : jobs[i].st = "relayed" => jobs[i].by \in Projects
  BY DEF IInv, HoldersKnown
<1>9. \A k \in Below(j) \cup {j} : jobs[k].child \in DOMAIN jobs /\ jobs[k].child # 0 => jobs[k].child \in Below(j)
  BY BelowClosed
<1>10. 0 \notin DOMAIN jobs
  BY JobsShape
<1>11. Moved
  <2> SUFFICES ASSUME NEW i \in DOMAIN jobs
               PROVE  /\ jobs'[i].at = jobs[i].at /\ jobs'[i].parent = jobs[i].parent
                      /\ jobs'[i].child \in {jobs[i].child, 0}
                      /\ jobs'[i].st = "relayed" =>
                           jobs[i].st = "relayed" /\ jobs'[i].by = jobs[i].by /\ jobs'[i].child = jobs[i].child
                      /\ jobs'[i].st = "held" => jobs[i].st = "held" /\ jobs'[i].by = jobs[i].by
                      /\ jobs[i].st = "acked" => jobs'[i].st \in {"acked", "withdrawn"}
                      /\ Live(i)' => Live(i)
    BY <1>7 DEF Moved
  <2>1. CASE i = j
    BY <1>2, <1>3, <1>5, <2>1 DEF Live
  <2>2. CASE i # j /\ i \in Below(j)
    BY <1>4, <1>5, <1>8, <2>2 DEF Live
  <2>3. CASE i # j /\ i \notin Below(j)
    BY <1>5, <2>3 DEF Live
  <2> QED BY <2>1, <2>2, <2>3
<1>12. HeirsKept
  <2> SUFFICES ASSUME NEW i \in DOMAIN jobs, Live(i)', Claimed(i, {"relayed", "passed"})
               PROVE  Claimed(i, {"relayed", "passed"})'
    BY DEF HeirsKept
  <2> DEFINE f == jobs[i].parent
  <2>1. f \in DOMAIN jobs /\ jobs[f].child = i
    BY DEF Claimed
  <2>2. i \notin Below(j) \/ i = j
    BY <1>4, <1>5 DEF Live
  <2>3. CASE f \in Below(j) \cup {j}
    <3>1. i \in Below(j)
      BY <1>9, <1>10, <2>1, <2>3
    <3>2. i > j
      BY <3>1, BelowLater
    <3>3. i = j
      BY <2>2, <3>1
    <3> QED BY <3>2, <3>3, JobsShape
  <2>4. CASE f \notin Below(j) \cup {j}
    BY <1>5, <1>7, <1>11, <2>1, <2>4 DEF Claimed, Moved
  <2> QED BY <2>3, <2>4
<1>13. EndsMeet
  <2> SUFFICES ASSUME NEW i \in DOMAIN jobs, jobs'[i].st = "relayed"
               PROVE  LET c == jobs[i].child IN
                      jobs'[c].st \notin {"dead", "dropped"} /\ (jobs'[c].st = "acked" => jobs'[c].by = User)
    BY DEF EndsMeet
  <2> DEFINE c == jobs[i].child
  <2>1. jobs[i].st = "relayed"
    BY <1>11 DEF Moved
  <2>2. c \in DOMAIN jobs
    BY <2>1 DEF IInv, RelaysLinked
  <2>3. jobs[c].st \notin {"dead", "dropped"} /\ (jobs[c].st = "acked" => jobs[c].by = User)
    BY <2>1 DEF IInv, RelaySettles
  <2> QED BY <1>3, <1>4, <1>5, <2>2, <2>3
<1> QED BY <1>11, <1>12, <1>13

-----------------------------------------------------------------------------
(* New mail. *)

LEMMA SendKeeps ==
  ASSUME IInv, NEW p \in Projects, jobs' = Append(jobs, NewJob(p, 0))
  PROVE  /\ JobParts'
         /\ \A j \in DOMAIN jobs : jobs'[j] = jobs[j]
         /\ \A w \in Listeners : HeldBy(w)' \subseteq HeldBy(w)
<1> DEFINE n == Len(jobs)
           r == NewJob(p, 0)
<1>1. jobs \in Seq(Rows) /\ n \in Nat /\ DOMAIN jobs = 1..n /\ \A j \in DOMAIN jobs : jobs[j] \in Rows
  BY JobsShape
<1>2. /\ r \in Rows /\ r.at = p /\ r.st = "waiting" /\ r.parent = 0 /\ r.child = 0
  BY DEF NewJob, Rows, JobStates
<1> HIDE DEF r
<1>3. /\ jobs' \in Seq(Rows) /\ DOMAIN jobs' = 1..(n + 1)
      /\ \A j \in DOMAIN jobs : jobs'[j] = jobs[j]
      /\ jobs'[n + 1] = r
  BY <1>1, <1>2 DEF r
<1>4. HoldersKnown'
  BY <1>1, <1>2, <1>3 DEF IInv, HoldersKnown
<1>5. ChildrenLater'
  BY <1>1, <1>2, <1>3 DEF IInv, ChildrenLater
<1>6. RelaysLinked'
  BY <1>1, <1>2, <1>3 DEF IInv, RelaysLinked
<1>7. LiveLinked'
  BY <1>1, <1>2, <1>3 DEF IInv, LiveLinked, Live, Claimed
<1>8. RelaySettles'
  BY <1>1, <1>2, <1>3 DEF IInv, RelaySettles, RelaysLinked
<1>9. \A w \in Listeners : HeldBy(w)' \subseteq HeldBy(w)
  BY <1>1, <1>2, <1>3 DEF HeldBy, InState
<1> QED BY <1>3, <1>4, <1>5, <1>6, <1>7, <1>8, <1>9 DEF JobParts

-----------------------------------------------------------------------------
(* Hand-outs. *)

\* The members of a finite set of numbers have ranks 1, 2, ..., one each.
LEMMA Ranks ==
  ASSUME NEW R \in SUBSET Nat, IsFiniteSet(R)
  PROVE  LET rank(j) == Cardinality({i \in R : i <= j}) IN
         /\ Cardinality(R) \in Nat
         /\ \A j \in R : rank(j) \in 1..Cardinality(R)
         /\ \A i, j \in R : rank(i) = rank(j) => i = j
         /\ \A k \in 1..Cardinality(R) : \E j \in R : rank(j) = k
<1> DEFINE rank(j) == Cardinality({i \in R : i <= j})
           f == [j \in R |-> rank(j)]
           T == 1..Cardinality(R)
<1>1. IsFiniteSet(R) /\ Cardinality(R) \in Nat
  BY FS_CardinalityType
<1>2. \A j \in R : /\ IsFiniteSet({i \in R : i <= j})
                   /\ rank(j) \in Nat /\ rank(j) <= Cardinality(R)
  BY <1>1, FS_Subset, FS_CardinalityType
<1>3. ASSUME NEW i \in R, NEW j \in R, i < j
      PROVE  rank(i) < rank(j)
  <2> DEFINE A == {k \in R : k <= i}
             B == {k \in R : k <= j}
  <2>1. i \in Nat /\ j \in Nat /\ \A k \in R : k \in Nat
    OBVIOUS
  <2>2. A \in SUBSET B /\ j \in B /\ j \notin A
    <3>1. ASSUME NEW k \in A PROVE k \in B
      BY <1>3, <2>1
    <3>2. j \in B /\ j \notin A
      BY <1>3, <2>1
    <3> QED BY <3>1, <3>2
  <2>3. IsFiniteSet(B)
    BY <1>2
  <2>4. Cardinality(A) <= Cardinality(B) /\ (Cardinality(B) = Cardinality(A) => B = A)
    BY <2>2, <2>3, FS_Subset
  <2>5. Cardinality(A) # Cardinality(B)
    BY <2>2, <2>4
  <2> QED BY <1>2, <2>4, <2>5
<1>4. \A i, j \in R : rank(i) = rank(j) => i = j
  <2> SUFFICES ASSUME NEW i \in R, NEW j \in R, rank(i) = rank(j), i # j
               PROVE  FALSE
    OBVIOUS
  <2>1. i < j \/ j < i
    OBVIOUS
  <2>2. rank(i) < rank(j) \/ rank(j) < rank(i)
    BY <1>3, <2>1
  <2> QED BY <1>2, <2>2
<1>5. \A j \in R : rank(j) \in T
  <2> SUFFICES ASSUME NEW j \in R PROVE rank(j) \in T
    OBVIOUS
  <2>1. {i \in R : i <= j} # {}
    OBVIOUS
  <2>2. rank(j) # 0
    BY <1>2, <2>1, FS_EmptySet
  <2> QED BY <1>1, <1>2, <2>2
<1>6. f \in Injection(R, T)
  BY <1>4, <1>5 DEF Injection, IsInjective
<1>7. IsFiniteSet(T) /\ Cardinality(T) = Cardinality(R)
  BY <1>1, FS_Interval
<1>8. f \in Surjection(R, T)
  BY <1>6, <1>7, FS_Injection
<1>9. \A k \in T : \E j \in R : rank(j) = k
  BY <1>8 DEF Surjection
<1> QED BY <1>1, <1>4, <1>5, <1>9

LEMMA PlacesFinite ==
  ASSUME NEW n \in Nat, NEW R \in SUBSET (1..n)
  PROVE  R \in SUBSET Nat /\ IsFiniteSet(R)
<1>1. IsFiniteSet(1..n)
  BY FS_Interval
<1>2. IsFiniteSet(R)
  BY <1>1, FS_Subset
<1> QED BY <1>2

\* the jobs of a hand-out that go to relays; the job each becomes; the jobs it settles
ToRelays(given) == {j \in Dealt(given) : Relay(given[j])}
ChildOf(given, j) == Len(jobs) + Cardinality({i \in ToRelays(given) : i <= j})
Settling(p, given) == IF p \in acking THEN {} ELSE UNION {Above(j, {"relayed"}) : j \in Dealt(given)}

\* what a hand-out of project p, with room for its listeners, writes
HandOut(p, room, given) ==
  /\ p \in Projects
  /\ \A w \in DOMAIN room : w \in Listeners /\ w[2] = p /\ room[w] \in Nat
  /\ given \in Deals(p, room)
  /\ jobs' = HandedOut(p, given)

LEMMA DealtTo ==
  ASSUME IInv, NEW p, NEW room, NEW given, HandOut(p, room, given)
  PROVE  /\ given \in [Waits(p) -> DOMAIN room \cup {None}]
         /\ \A j \in Dealt(given) : /\ j \in DOMAIN jobs /\ jobs[j].st = "waiting" /\ jobs[j].at = p
                                    /\ given[j] \in DOMAIN room /\ given[j] \in Listeners
                                    /\ given[j][2] = p /\ given[j][1] \in Owners
         /\ ToRelays(given) \subseteq Dealt(given) /\ Dealt(given) \subseteq DOMAIN jobs
         /\ \A j \in ToRelays(given) : given[j][1] \in Projects
<1>1. given \in [Waits(p) -> DOMAIN room \cup {None}]
  BY DEF HandOut, Deals
<1>2. \A w \in DOMAIN room : w \in Listeners /\ w[2] = p /\ w[1] \in Owners
  BY ListenersAssumption DEF HandOut
<1> QED BY <1>1, <1>2 DEF Dealt, Waits, InState, ToRelays, Relay

LEMMA Children ==
  ASSUME IInv, NEW p, NEW room, NEW given, HandOut(p, room, given)
  PROVE  LET n == Len(jobs)
             m == Cardinality(ToRelays(given))
         IN  /\ m \in Nat
             /\ \A j \in ToRelays(given) : ChildOf(given, j) \in (n + 1)..(n + m)
             /\ \A i, j \in ToRelays(given) : ChildOf(given, i) = ChildOf(given, j) => i = j
             /\ \A k \in (n + 1)..(n + m) : \E j \in ToRelays(given) : ChildOf(given, j) = k
<1> DEFINE n == Len(jobs)
           R == ToRelays(given)
           m == Cardinality(R)
           rank(j) == Cardinality({i \in R : i <= j})
<1>1. n \in Nat /\ R \in SUBSET (1..n)
  BY JobsShape, DealtTo
<1>2. /\ m \in Nat
      /\ \A j \in R : rank(j) \in 1..m
      /\ \A i, j \in R : rank(i) = rank(j) => i = j
      /\ \A k \in 1..m : \E j \in R : rank(j) = k
  <2>1. R \in SUBSET Nat /\ IsFiniteSet(R)
    BY <1>1, PlacesFinite
  <2> HIDE DEF R
  <2> QED BY <2>1, Ranks
<1>3. \A j \in R : ChildOf(given, j) = n + rank(j)
  BY DEF ChildOf
<1> HIDE DEF rank, R
<1>4. \A j \in R : ChildOf(given, j) \in (n + 1)..(n + m)
  BY <1>1, <1>2, <1>3
<1>5. \A i, j \in R : ChildOf(given, i) = ChildOf(given, j) => i = j
  BY <1>1, <1>2, <1>3
<1>6. ASSUME NEW k \in (n + 1)..(n + m)
      PROVE  \E j \in R : ChildOf(given, j) = k
  <2>1. k - n \in 1..m
    BY <1>1, <1>2
  <2>2. PICK j \in R : rank(j) = k - n
    BY <1>2, <2>1
  <2> QED BY <1>1, <1>3, <2>2
<1> QED BY <1>2, <1>4, <1>5, <1>6 DEF R

LEMMA FunctionSeq ==
  ASSUME NEW k \in Nat, NEW S, NEW f \in [1..k -> S]
  PROVE  f \in Seq(S) /\ Len(f) = k
OBVIOUS

\* The row of a job handed out.
Handed(r, s, b, c) == [r EXCEPT !.st = s, !.by = b, !.hands = @ + 1, !.wakes = 0, !.child = c]

LEMMA HandedRow ==
  ASSUME NEW r \in Rows, NEW s \in JobStates, NEW b \in Owners, NEW c \in Nat
  PROVE  /\ Handed(r, s, b, c) \in Rows
         /\ Handed(r, s, b, c).at = r.at /\ Handed(r, s, b, c).parent = r.parent
         /\ Handed(r, s, b, c).revoked = r.revoked /\ Handed(r, s, b, c).retried = r.retried
         /\ Handed(r, s, b, c).st = s /\ Handed(r, s, b, c).by = b /\ Handed(r, s, b, c).child = c
<1> DEFINE Same(y, q, F) == \A f \in {"at", "parent", "revoked", "retried", "st", "by", "child"} \ F : y[f] = q[f]
           u == [r EXCEPT !.st = s]
           v == [u EXCEPT !.by = b]
           h == [v EXCEPT !.hands = v.hands + 1]
           x == [h EXCEPT !.wakes = 0]
<1>1. u \in Rows /\ Same(u, r, {"st"}) /\ u.st = s /\ u.hands = r.hands
  BY DEF Rows
<1>2. v.hands = u.hands
  BY DEF Rows
<1>3. Handed(r, s, b, c) = [x EXCEPT !.child = c]
  BY <1>1, <1>2 DEF Handed, Rows
<1> HIDE DEF u
<1>4. v \in Rows /\ Same(v, u, {"by"}) /\ v.by = b
  BY <1>1 DEF Rows
<1> HIDE DEF v
<1>5. h \in Rows /\ Same(h, v, {})
  BY <1>4 DEF Rows
<1> HIDE DEF h
<1>6. x \in Rows /\ Same(x, h, {})
  BY <1>5 DEF Rows
<1> HIDE DEF x
<1>7. [x EXCEPT !.child = c] \in Rows /\ Same([x EXCEPT !.child = c], x, {"child"}) /\ [x EXCEPT !.child = c].child = c
  BY <1>6 DEF Rows
<1> QED BY <1>1, <1>3, <1>4, <1>5, <1>6, <1>7

LEMMA HandOutFacts ==
  ASSUME IInv, NEW p, NEW room, NEW given, HandOut(p, room, given)
  PROVE  LET n == Len(jobs)
             m == Cardinality(ToRelays(given))
             old(i) == jobs'[i].at = jobs[i].at /\ jobs'[i].parent = jobs[i].parent
                       /\ jobs'[i].revoked = jobs[i].revoked /\ jobs'[i].retried = jobs[i].retried
         IN  /\ jobs' \in Seq(Rows) /\ DOMAIN jobs' = 1..(n + m)
             /\ \A i \in Dealt(given) :
                  /\ old(i)
                  /\ jobs'[i].st = IF p \notin acking THEN "passed"
                                   ELSE IF i \in ToRelays(given) THEN "relayed" ELSE "held"
                  /\ jobs'[i].by = given[i][1]
                  /\ jobs'[i].child = IF i \in ToRelays(given) THEN ChildOf(given, i) ELSE jobs[i].child
             /\ \A i \in DOMAIN jobs \ Dealt(given) :
                  /\ old(i)
                  /\ jobs'[i].st = IF i \in Settling(p, given) THEN "acked" ELSE jobs[i].st
                  /\ jobs'[i].by = jobs[i].by /\ jobs'[i].child = jobs[i].child
                  /\ i \notin Settling(p, given) => jobs'[i] = jobs[i]
             /\ \A j \in ToRelays(given) :
                  jobs'[ChildOf(given, j)] = NewJob(given[j][1], j)
<1> DEFINE n == Len(jobs)
           R == ToRelays(given)
           m == Cardinality(R)
           X(i) == [jobs[i] EXCEPT !.st = IF p \notin acking THEN "passed"
                                          ELSE IF i \in R THEN "relayed" ELSE "held",
                                   !.by = given[i][1], !.hands = @ + 1, !.wakes = 0,
                                   !.child = IF i \in R THEN ChildOf(given, i) ELSE jobs[i].child]
           Y(i) == [jobs[i] EXCEPT !.st = "acked"]
           old == [i \in DOMAIN jobs |-> IF i \in Dealt(given) THEN X(i)
                                         ELSE IF i \in Settling(p, given) THEN Y(i) ELSE jobs[i]]
           heir(k) == CHOOSE i \in R : ChildOf(given, i) = n + k
           new == [k \in 1..m |-> NewJob(given[heir(k)][1], heir(k))]
<1>1. n \in Nat /\ DOMAIN jobs = 1..n /\ \A i \in DOMAIN jobs : jobs[i] \in Rows
  BY JobsShape
<1>2. /\ m \in Nat
      /\ \A j \in R : ChildOf(given, j) \in (n + 1)..(n + m)
      /\ \A i, j \in R : ChildOf(given, i) = ChildOf(given, j) => i = j
      /\ \A k \in (n + 1)..(n + m) : \E j \in R : ChildOf(given, j) = k
  BY Children
<1>3. jobs' = old \o new
  BY DEF HandOut, HandedOut, ToRelays, ChildOf, Settling
<1>4. \A i \in Dealt(given) : i \in DOMAIN jobs /\ given[i][1] \in Owners
  BY DealtTo
<1>5. \A i \in Dealt(given) :
        /\ X(i) \in Rows
        /\ X(i).at = jobs[i].at /\ X(i).parent = jobs[i].parent
        /\ X(i).revoked = jobs[i].revoked /\ X(i).retried = jobs[i].retried
        /\ X(i).st = IF p \notin acking THEN "passed" ELSE IF i \in R THEN "relayed" ELSE "held"
        /\ X(i).by = given[i][1]
        /\ X(i).child = IF i \in R THEN ChildOf(given, i) ELSE jobs[i].child
  <2> SUFFICES ASSUME NEW i \in Dealt(given)
               PROVE  /\ X(i) \in Rows
                      /\ X(i).at = jobs[i].at /\ X(i).parent = jobs[i].parent
                      /\ X(i).revoked = jobs[i].revoked /\ X(i).retried = jobs[i].retried
                      /\ X(i).st = IF p \notin acking THEN "passed" ELSE IF i \in R THEN "relayed" ELSE "held"
                      /\ X(i).by = given[i][1]
                      /\ X(i).child = IF i \in R THEN ChildOf(given, i) ELSE jobs[i].child
    OBVIOUS
  <2>1. jobs[i] \in Rows /\ given[i][1] \in Owners /\ (i \in R => ChildOf(given, i) \in Nat)
    BY <1>1, <1>2, <1>4
  <2> DEFINE s == IF p \notin acking THEN "passed" ELSE IF i \in R THEN "relayed" ELSE "held"
             c == IF i \in R THEN ChildOf(given, i) ELSE jobs[i].child
  <2>2. s \in JobStates
    BY DEF JobStates
  <2>3. c \in Nat
    BY <2>1 DEF Rows
  <2>4. X(i) = Handed(jobs[i], s, given[i][1], c)
    BY DEF Handed
  <2> HIDE DEF X, s, c
  <2>5. /\ X(i) \in Rows
        /\ X(i).at = jobs[i].at /\ X(i).parent = jobs[i].parent
        /\ X(i).revoked = jobs[i].revoked /\ X(i).retried = jobs[i].retried
        /\ X(i).st = s /\ X(i).by = given[i][1] /\ X(i).child = c
    BY <2>1, <2>2, <2>3, <2>4, HandedRow
  <2> QED BY <2>5 DEF s, c
<1>6. \A i \in DOMAIN jobs :
        /\ Y(i) \in Rows
        /\ Y(i).at = jobs[i].at /\ Y(i).parent = jobs[i].parent
        /\ Y(i).revoked = jobs[i].revoked /\ Y(i).retried = jobs[i].retried
        /\ Y(i).st = "acked" /\ Y(i).by = jobs[i].by /\ Y(i).child = jobs[i].child
  BY <1>1 DEF Rows, JobStates
<1> HIDE DEF X, Y
<1>7. old \in Seq(Rows) /\ Len(old) = n
  <2>1. old \in [1..n -> Rows]
    BY <1>1, <1>5, <1>6
  <2> QED BY <1>1, <2>1
<1>8. \A j \in R : \E k \in 1..m : n + k = ChildOf(given, j) /\ heir(k) = j
  <2> SUFFICES ASSUME NEW j \in R PROVE \E k \in 1..m : n + k = ChildOf(given, j) /\ heir(k) = j
    OBVIOUS
  <2>1. ChildOf(given, j) - n \in 1..m /\ n + (ChildOf(given, j) - n) = ChildOf(given, j)
    BY <1>1, <1>2
  <2>2. heir(ChildOf(given, j) - n) = j
    BY <1>2, <2>1
  <2> QED BY <2>1, <2>2
<1>9. \A k \in 1..m : heir(k) \in R
  <2> SUFFICES ASSUME NEW k \in 1..m PROVE heir(k) \in R
    OBVIOUS
  <2>1. n + k \in (n + 1)..(n + m)
    BY <1>1, <1>2
  <2> QED BY <1>2, <2>1
<1>10. new \in Seq(Rows) /\ Len(new) = m
  <2>1. \A j \in R : j \in Nat /\ given[j][1] \in Projects
    BY <1>1, DealtTo
  <2>2. \A q \in Projects, j \in Nat : NewJob(q, j) \in Rows
    BY DEF NewJob, Rows, JobStates
  <2>3. new \in [1..m -> Rows]
    BY <1>9, <2>1, <2>2
  <2> HIDE DEF new
  <2> QED BY <1>2, <2>3, FunctionSeq
<1> HIDE DEF R, old, new
<1>11. /\ jobs' \in Seq(Rows) /\ DOMAIN jobs' = 1..(n + m)
       /\ \A i \in 1..n : jobs'[i] = old[i]
       /\ \A k \in 1..m : jobs'[n + k] = new[k]
  <2>1. old \o new \in Seq(Rows) /\ Len(old \o new) = n + m
    BY <1>7, <1>10, ConcatProperties
  <2>2. \A i \in 1..(n + m) : (old \o new)[i] = IF i <= n THEN old[i] ELSE new[i - n]
    BY <1>7, <1>10, ConcatProperties
  <2> QED BY <1>1, <1>2, <1>3, <2>1, <2>2
<1>12. \A i \in Dealt(given) : jobs'[i] = X(i)
  BY <1>1, <1>4, <1>11 DEF old
<1>13. \A i \in DOMAIN jobs \ Dealt(given) : jobs'[i] = IF i \in Settling(p, given) THEN Y(i) ELSE jobs[i]
  BY <1>1, <1>11 DEF old
<1>14. \A j \in R : jobs'[ChildOf(given, j)] = NewJob(given[j][1], j)
  BY <1>8, <1>11 DEF new
<1> QED BY <1>5, <1>6, <1>11, <1>12, <1>13, <1>14 DEF R

LEMMA SettlingFacts ==
  ASSUME NEW p, NEW given
  PROVE  /\ \A f \in Settling(p, given) :
              /\ p \notin acking /\ f \in DOMAIN jobs /\ jobs[f].st = "relayed"
              /\ jobs[f].child \in Settling(p, given) \cup Dealt(given)
         /\ p \notin acking =>
              \A k \in Settling(p, given) \cup Dealt(given) :
                Claimed(k, {"relayed"}) => jobs[k].parent \in Settling(p, given)
<1>1. ASSUME NEW f \in Settling(p, given)
      PROVE  /\ p \notin acking /\ f \in DOMAIN jobs /\ jobs[f].st = "relayed"
             /\ jobs[f].child \in Settling(p, given) \cup Dealt(given)
  <2>1. p \notin acking /\ \E j \in Dealt(given) : f \in Above(j, {"relayed"})
    BY DEF Settling
  <2>2. PICK j \in Dealt(given) : f \in Above(j, {"relayed"})
    BY <2>1
  <2>3. f \in DOMAIN jobs /\ jobs[f].st = "relayed" /\ jobs[f].child \in Above(j, {"relayed"}) \cup {j}
    BY <2>2, AboveReached
  <2> QED BY <2>1, <2>3 DEF Settling
<1>2. ASSUME p \notin acking, NEW k \in Settling(p, given) \cup Dealt(given), Claimed(k, {"relayed"})
      PROVE  jobs[k].parent \in Settling(p, given)
  <2>1. PICK j \in Dealt(given) : k \in Above(j, {"relayed"}) \cup {j}
    BY <1>2 DEF Settling
  <2>2. jobs[k].parent \in Above(j, {"relayed"})
    BY <1>2, <2>1, AboveClosed
  <2> QED BY <1>2, <2>2 DEF Settling
<1> QED BY <1>1, <1>2

\* A hand-out keeps the relays linked, and adds to what is held only what is dealt.
LEMMA HandOutKeeps ==
  ASSUME IInv, NEW p, NEW room, NEW given, HandOut(p, room, given)
  PROVE  /\ JobParts'
         /\ \A j \in DOMAIN jobs : jobs[j].st = "acked" => jobs'[j].st \in {"acked", "withdrawn"}
         /\ \A w \in Listeners : \A j \in HeldBy(w)' :
              j \in HeldBy(w) \/ (p \in acking /\ ~Relay(w) /\ j \in Dealt(given) /\ given[j] = w)
<1> DEFINE n == Len(jobs)
           R == ToRelays(given)
           m == Cardinality(R)
           D == Dealt(given)
           S == Settling(p, given)
           T == {"relayed", "passed"}
<1>1. n \in Nat /\ DOMAIN jobs = 1..n /\ \A j \in DOMAIN jobs : jobs[j] \in Rows
  BY JobsShape
<1>2. /\ m \in Nat
      /\ \A j \in R : ChildOf(given, j) \in (n + 1)..(n + m)
      /\ \A i, j \in R : ChildOf(given, i) = ChildOf(given, j) => i = j
      /\ \A k \in (n + 1)..(n + m) : \E j \in R : ChildOf(given, j) = k
  BY Children
<1>3. /\ \A j \in D : /\ j \in DOMAIN jobs /\ jobs[j].st = "waiting" /\ jobs[j].at = p
                      /\ given[j] \in Listeners /\ given[j][2] = p /\ given[j][1] \in Owners
      /\ R \subseteq D
      /\ \A j \in R : given[j][1] \in Projects
  BY DealtTo
<1>4. \A j \in D : j \notin R => given[j][1] \notin Projects
  BY DEF ToRelays, Relay
<1>5. jobs' \in Seq(Rows) /\ DOMAIN jobs' = 1..(n + m)
  BY HandOutFacts
<1>6. \A i \in D :
        /\ jobs'[i].at = jobs[i].at /\ jobs'[i].parent = jobs[i].parent
        /\ jobs'[i].revoked = jobs[i].revoked /\ jobs'[i].retried = jobs[i].retried
        /\ jobs'[i].st = IF p \notin acking THEN "passed" ELSE IF i \in R THEN "relayed" ELSE "held"
        /\ jobs'[i].by = given[i][1]
        /\ jobs'[i].child = IF i \in R THEN ChildOf(given, i) ELSE jobs[i].child
  BY HandOutFacts
<1>7. \A i \in DOMAIN jobs \ D :
        /\ jobs'[i].at = jobs[i].at /\ jobs'[i].parent = jobs[i].parent
        /\ jobs'[i].revoked = jobs[i].revoked /\ jobs'[i].retried = jobs[i].retried
        /\ jobs'[i].st = IF i \in S THEN "acked" ELSE jobs[i].st
        /\ jobs'[i].by = jobs[i].by /\ jobs'[i].child = jobs[i].child
  BY HandOutFacts
<1>8. \A k \in DOMAIN jobs' \ DOMAIN jobs :
        \E j \in R : /\ k = ChildOf(given, j)
                     /\ jobs'[k].st = "waiting" /\ jobs'[k].parent = j /\ jobs'[k].child = 0
  <2>1. \A j \in R : jobs'[ChildOf(given, j)] = NewJob(given[j][1], j)
    BY HandOutFacts
  <2>2. \A q, j : NewJob(q, j).st = "waiting" /\ NewJob(q, j).parent = j /\ NewJob(q, j).child = 0
    BY DEF NewJob
  <2>3. \A k \in DOMAIN jobs' \ DOMAIN jobs : k \in (n + 1)..(n + m)
    BY <1>1, <1>2, <1>5
  <2> QED BY <1>2, <2>1, <2>2, <2>3
<1>9. \A j \in R : /\ ChildOf(given, j) \in DOMAIN jobs' \ DOMAIN jobs
                   /\ jobs'[ChildOf(given, j)].parent = j /\ jobs'[ChildOf(given, j)].st = "waiting"
                   /\ ChildOf(given, j) > j /\ j # 0
  <2>1. \A j \in R : ChildOf(given, j) \in DOMAIN jobs' \ DOMAIN jobs /\ ChildOf(given, j) > j /\ j # 0
    BY <1>1, <1>2, <1>3, <1>5
  <2> QED BY <1>2, <1>8, <2>1
<1>10. DOMAIN jobs \subseteq DOMAIN jobs'
  BY <1>1, <1>2, <1>5
<1>11. /\ \A f \in S : /\ p \notin acking /\ f \in DOMAIN jobs /\ jobs[f].st = "relayed"
                       /\ jobs[f].child \in S \cup D
       /\ p \notin acking => \A k \in S \cup D : Claimed(k, {"relayed"}) => jobs[k].parent \in S
  BY SettlingFacts
<1> HIDE DEF R, D, S, m
<1>12. HoldersKnown'
  BY <1>3, <1>4, <1>6, <1>7, <1>8 DEF IInv, HoldersKnown
<1>13. ChildrenLater'
  BY <1>3, <1>6, <1>7, <1>8, <1>9, <1>10 DEF IInv, ChildrenLater
<1>14. RelaysLinked'
  BY <1>3, <1>6, <1>7, <1>8, <1>9, <1>10 DEF IInv, RelaysLinked
<1>15. LiveLinked'
  <2> SUFFICES ASSUME NEW i \in DOMAIN jobs', Live(i)' PROVE Claimed(i, T)'
    BY DEF LiveLinked
  <2>1. CASE i \in DOMAIN jobs
    <3> DEFINE f == jobs[i].parent
    <3>1. Live(i) /\ i \notin S
      BY <1>3, <1>6, <1>7, <1>11, <2>1 DEF Live
    <3>2. f \in DOMAIN jobs /\ jobs[f].child = i /\ jobs[f].st \in T /\ f \notin D
      BY <1>3, <2>1, <3>1 DEF IInv, LiveLinked, Claimed
    <3>3. f \notin S
      BY <1>6, <1>11, <3>1, <3>2 DEF Live
    <3>4. jobs'[i].parent = f
      BY <1>6, <1>7, <2>1
    <3> QED BY <1>7, <1>10, <3>2, <3>3, <3>4 DEF Claimed
  <2>2. CASE i \notin DOMAIN jobs
    BY <1>3, <1>6, <1>8, <1>10, <2>2 DEF Claimed
  <2> QED BY <2>1, <2>2
<1>16. RelaySettles'
  <2> SUFFICES ASSUME NEW i \in DOMAIN jobs', jobs'[i].st = "relayed"
               PROVE  LET c == jobs'[i].child IN
                      jobs'[c].st \notin {"dead", "dropped"} /\ (jobs'[c].st = "acked" => jobs'[c].by = User)
    BY DEF RelaySettles
  <2>1. i \in DOMAIN jobs
    BY <1>8
  <2>2. CASE i \in D
    BY <1>6, <1>9, <2>2
  <2>3. CASE i \notin D
    <3> DEFINE c == jobs[i].child
    <3>1. jobs[i].st = "relayed" /\ i \notin S /\ jobs'[i].child = c
      BY <1>7, <2>1, <2>3
    <3>2. c \in DOMAIN jobs /\ jobs[c].parent = i
      BY <2>1, <3>1 DEF IInv, RelaysLinked
    <3>3. jobs[c].st \notin {"dead", "dropped"} /\ (jobs[c].st = "acked" => jobs[c].by = User)
      BY <2>1, <3>1 DEF IInv, RelaySettles
    <3>4. c \notin S
      BY <1>11, <2>1, <3>1, <3>2 DEF Claimed
    <3> QED BY <1>6, <1>7, <3>1, <3>2, <3>3, <3>4
  <2> QED BY <2>2, <2>3
<1>17. \A j \in DOMAIN jobs : jobs[j].st = "acked" => jobs'[j].st \in {"acked", "withdrawn"}
  BY <1>3, <1>7
<1>18. ASSUME NEW w \in Listeners, NEW j \in HeldBy(w)'
       PROVE  j \in HeldBy(w) \/ (p \in acking /\ ~Relay(w) /\ j \in D /\ given[j] = w)
  <2>1. j \in DOMAIN jobs' /\ jobs'[j].at = w[2] /\ jobs'[j].st = "held" /\ jobs'[j].by = w[1]
    BY DEF HeldBy, InState
  <2>2. j \in DOMAIN jobs
    BY <1>8, <2>1
  <2>3. CASE j \in D
    <3>1. p \in acking /\ j \notin R /\ given[j][1] = w[1] /\ given[j][2] = w[2]
      BY <1>3, <1>6, <2>1, <2>3
    <3>2. given[j] = w
      BY <1>3, <2>3, <3>1, ListenersAssumption
    <3> QED BY <1>4, <2>3, <3>1, <3>2 DEF Relay
  <2>4. CASE j \notin D
    BY <1>7, <2>1, <2>2, <2>4 DEF HeldBy, InState
  <2> QED BY <2>3, <2>4
<1> QED BY <1>5, <1>12, <1>13, <1>14, <1>15, <1>16, <1>17, <1>18 DEF JobParts, D

\* Nobody is given more than it had room for.
LEMMA DealtWithin ==
  ASSUME IInv, NEW p, NEW room, NEW given, HandOut(p, room, given), NEW w \in DOMAIN room
  PROVE  LET G == {j \in Dealt(given) : given[j] = w} IN
         IsFiniteSet(G) /\ Cardinality(G) \in Nat /\ Cardinality(G) <= room[w]
<1> DEFINE n == Len(jobs)
           G == {j \in Dealt(given) : given[j] = w}
           rank(j) == Cardinality({i \in G : i <= j})
           had(j) == {i \in Waits(p) : i < j /\ given[i] = w}
<1>1. n \in Nat /\ DOMAIN jobs = 1..n /\ room[w] \in Nat
  BY JobsShape DEF HandOut
<1>2. DOMAIN given = Waits(p) /\ Waits(p) \subseteq 1..n /\ G \in SUBSET (1..n) /\ G \subseteq Waits(p)
  <2>1. given \in [Waits(p) -> DOMAIN room \cup {None}]
    BY DealtTo
  <2>2. DOMAIN given = Waits(p)
    BY <2>1
  <2>3. Waits(p) \subseteq DOMAIN jobs
    BY DEF Waits, InState
  <2>4. G \subseteq Waits(p)
    BY <2>2 DEF Dealt
  <2> QED BY <1>1, <2>2, <2>3, <2>4
<1>3. IsFiniteSet(G) /\ Cardinality(G) \in Nat
  BY <1>1, <1>2, FS_Interval, FS_Subset, FS_CardinalityType, IsFiniteSet(1..n)
<1>4. \A k \in 1..Cardinality(G) : \E j \in G : rank(j) = k
  <2> HIDE DEF G
  <2>1. G \in SUBSET Nat /\ IsFiniteSet(G)
    BY <1>1, <1>2, PlacesFinite
  <2> QED BY <2>1, Ranks
<1>5. CASE Cardinality(G) = 0
  BY <1>1, <1>3, <1>5
<1>6. CASE Cardinality(G) # 0
  <2>1. PICK j \in G : rank(j) = Cardinality(G)
    <3> HIDE DEF G, rank
    <3>1. Cardinality(G) \in 1..Cardinality(G)
      BY <1>3, <1>6
    <3> QED BY <1>4, <3>1
  <2>2. Cardinality(had(j)) < room[w]
    <3> DEFINE has(v) == {i \in Waits(p) : i < j /\ given[i] = v}
               can   == {v \in DOMAIN room : Cardinality(has(v)) < room[v]}
               other == {v \in can : v[1] \notin jobs[j].avoid}
               best  == IF other # {} THEN other ELSE can
    <3>1. j \in Waits(p) /\ given[j] = w /\ given[j] # None
      BY <1>2, <2>1 DEF Dealt
    <3>2. best = {} => given[j] = None
      BY <3>1 DEF HandOut, Deals
    <3>3. best # {} => given[j] \in best
      BY <3>1 DEF HandOut, Deals
    <3>4. best \subseteq can
      OBVIOUS
    <3>5. w \in can
      BY <3>1, <3>2, <3>3, <3>4
    <3> QED BY <3>5
  <2>3. {i \in G : i <= j} = had(j) \cup {j} /\ j \notin had(j)
    BY <1>1, <1>2, <2>1 DEF Dealt
  <2>4. IsFiniteSet(had(j)) /\ Cardinality(had(j)) \in Nat
    <3>1. had(j) \subseteq G
      BY <2>3
    <3> QED BY <1>3, <3>1, FS_Subset, FS_CardinalityType
  <2>5. rank(j) = Cardinality(had(j)) + 1
    BY <2>3, <2>4, FS_AddElement
  <2> QED BY <1>1, <1>3, <2>1, <2>2, <2>4, <2>5
<1> QED BY <1>3, <1>5, <1>6

-----------------------------------------------------------------------------
(* Tasks. *)

\* No hand-out begins.
Calm ==
  /\ DOMAIN task' = Tasks /\ TaskRows'
  /\ \A u \in Tasks : Running(u, "deal")' => task'[u] = task[u]
  /\ \A u \in Tasks : \A r \in task'[u].rel : r \in task[u].rel \/ r[1] \in DOMAIN jobs

LEMMA CalmUnchanged == ASSUME IInv, task' = task PROVE Calm
BY DEF IInv, Calm, TaskRows

LEMMA CalmDoing ==
  ASSUME IInv, NEW t \in Tasks, NEW todo, NEW who, task' = [task EXCEPT ![t] = Doing(todo, who)]
  PROVE  Calm
BY DEF IInv, Calm, TaskRows, Doing, Running

LEMMA CalmDone == ASSUME IInv, NEW t \in Tasks, NEW S, Done(t, S) PROVE Calm
BY CalmDoing DEF Done

LEMMA CalmStart == ASSUME IInv, NEW t \in Tasks, NEW todo, NEW who, Start(t, todo, who) PROVE Calm
BY CalmDoing DEF Start

LEMMA CalmStartAll == ASSUME IInv, NEW t \in Tasks, NEW S, StartAll(t, S) PROVE Calm
BY CalmStart DEF StartAll

LEMMA RowOf ==
  ASSUME NEW y, NEW a, NEW b, NEW c, NEW d, NEW e, NEW f
  PROVE  y \in [todo : {a}, at : {b}, rel : {c}, room : {d}, to : {e}, who : {f}]
         <=> y = [todo |-> a, at |-> b, rel |-> c, room |-> d, to |-> e, who |-> f]
OBVIOUS

LEMMA StepRow ==
  ASSUME IInv, NEW t \in Tasks, NEW step, NEW rel, NEW room, Step(t, step, rel, room)
  PROVE  /\ DOMAIN task' = Tasks /\ TaskRows'
         /\ \A u \in Tasks \ {t} : task'[u] = task[u]
         /\ task'[t].todo = task[t].todo /\ task'[t].at = step /\ task'[t].room = room
         /\ task'[t].rel = rel /\ task'[t].to = task[t].to /\ task'[t].who = task[t].who
         /\ task' = [task EXCEPT ![t] = task'[t]]
<1> DEFINE r == [todo |-> task[t].todo, at |-> step, rel |-> rel,
                 room |-> room, to |-> task[t].to, who |-> task[t].who]
           y == [task[t] EXCEPT !.at = step, !.rel = rel, !.room = room]
<1>1. task' = [task EXCEPT ![t] = r]
  <2>1. task[t] = [todo |-> task[t].todo, at |-> task[t].at, rel |-> task[t].rel,
                   room |-> task[t].room, to |-> task[t].to, who |-> task[t].who]
    BY DEF IInv, TaskRows
  <2>2. task[t] \in [todo : {task[t].todo}, at : {task[t].at}, rel : {task[t].rel},
                     room : {task[t].room}, to : {task[t].to}, who : {task[t].who}]
    BY <2>1, RowOf
  <2>3. y \in [todo : {task[t].todo}, at : {step}, rel : {rel},
               room : {room}, to : {task[t].to}, who : {task[t].who}]
    BY <2>2
  <2> HIDE DEF y
  <2>4. y = r
    BY <2>3, RowOf
  <2>5. task' = [task EXCEPT ![t] = y]
    BY DEF Step, y
  <2> QED BY <2>4, <2>5
<1>2. DOMAIN task = Tasks
  BY DEF IInv
<1>3. /\ \A u \in Tasks \ {t} : task'[u] = task[u]
      /\ task'[t] = r /\ DOMAIN task' = Tasks
  BY <1>1, <1>2
<1>4. TaskRows'
  BY <1>3 DEF IInv, TaskRows
<1>5. task' = [task EXCEPT ![t] = task'[t]]
  <2> HIDE DEF r
  <2> QED BY <1>1, <1>3
<1> QED BY <1>3, <1>4, <1>5

LEMMA CalmStep ==
  ASSUME IInv, NEW t \in Tasks, NEW step, step # "deal", NEW rel, NEW room, Step(t, step, rel, room),
         \A r \in rel : r \in task[t].rel \/ r[1] \in DOMAIN jobs
  PROVE  Calm
BY StepRow DEF Calm, Running

LEMMA HeldFinite ==
  ASSUME IInv, NEW w
  PROVE  IsFiniteSet(HeldBy(w)) /\ Cardinality(HeldBy(w)) \in Nat
<1>1. IsFiniteSet(DOMAIN jobs) /\ HeldBy(w) \subseteq DOMAIN jobs
  BY JobsShape DEF HeldBy, InState
<1> QED BY <1>1, FS_Subset, FS_CardinalityType

LEMMA HeldLess ==
  ASSUME IInv, NEW w, HeldBy(w)' \subseteq HeldBy(w)
  PROVE  Cardinality(HeldBy(w)') \in Nat /\ Cardinality(HeldBy(w)') <= Cardinality(HeldBy(w))
BY HeldFinite, FS_Subset, FS_CardinalityType

\* A step that starts no hand-out and hands nothing out.
LEMMA CalmKeeps ==
  ASSUME IInv, JobParts', Calm, DOMAIN jobs \subseteq DOMAIN jobs', \A w \in Listeners : HeldBy(w)' \subseteq HeldBy(w),
         \A t \in Tasks : Running(t, "deal") /\ Here(t) \in acking' => Here(t) \in acking
  PROVE  IInv'
<1>1. \A t \in Tasks : Running(t, "deal")' => Running(t, "deal") /\ task'[t] = task[t] /\ Here(t)' = Here(t)
  BY DEF Calm, Running, At, Here
<1>2. OneHandOut'
  BY <1>1 DEF IInv, OneHandOut
<1>3. \A w \in Listeners : /\ Cardinality(HeldBy(w)') \in Nat /\ Cardinality(HeldBy(w)) \in Nat
                           /\ Cardinality(HeldBy(w)') <= Cardinality(HeldBy(w)) /\ Batch[w] \in Nat
  BY HeldLess, HeldFinite, ListenersAssumption
<1>4. RoomCounted'
  <2> SUFFICES ASSUME NEW t \in Tasks, Running(t, "deal")', NEW w \in DOMAIN task'[t].room
               PROVE  /\ w \in Listeners /\ w[2] = Here(t)' /\ task'[t].room[w] \in Nat
                      /\ Here(t)' \in acking' /\ ~Relay(w) =>
                           Cardinality(HeldBy(w)') + task'[t].room[w] <= Batch[w]
    BY DEF RoomCounted, Relay
  <2>1. Running(t, "deal") /\ task'[t] = task[t] /\ Here(t)' = Here(t) /\ w \in DOMAIN task[t].room
    BY <1>1
  <2>2. /\ w \in Listeners /\ w[2] = Here(t) /\ task[t].room[w] \in Nat
        /\ Here(t) \in acking /\ ~Relay(w) => Cardinality(HeldBy(w)) + task[t].room[w] <= Batch[w]
    BY <2>1 DEF IInv, RoomCounted
  <2> QED BY <1>3, <2>1, <2>2
<1>5. BatchKept'
  <2> SUFFICES ASSUME NEW w \in Listeners, ~Relay(w) PROVE Cardinality(HeldBy(w)') <= Batch[w]
    BY DEF BatchKept, Relay
  <2>1. Cardinality(HeldBy(w)) <= Batch[w]
    BY DEF IInv, BatchKept
  <2> QED BY <1>3, <2>1
<1>6. ClaimsKnown'
  BY DEF IInv, ClaimsKnown, Calm
<1> QED BY <1>2, <1>4, <1>5, <1>6 DEF IInv, JobParts, Calm

\* No acknowledged job is handed out again.
AcksStay == \A j \in DOMAIN jobs : jobs[j].st = "acked" => jobs'[j].st \in {"acked", "withdrawn"}

LEMMA MovedStep ==
  ASSUME IInv, Moved, HeirsKept, EndsMeet, Calm,
         \A t \in Tasks : Running(t, "deal") /\ Here(t) \in acking' => Here(t) \in acking
  PROVE  IInv' /\ AcksStay
<1>1. DOMAIN jobs \subseteq DOMAIN jobs'
  BY DEF Moved
<1> QED BY <1>1, MovedKeeps, CalmKeeps DEF AcksStay

LEMMA SameJobs ==
  ASSUME IInv, jobs' = jobs, acking' = acking, Calm
  PROVE  IInv' /\ AcksStay
BY Untouched, MovedStep

-----------------------------------------------------------------------------
(* The hand-out. *)

LEMMA RoomFits ==
  ASSUME IInv, NEW w \in Listeners
  PROVE  /\ Room(w) \in Nat
         /\ w[2] \in acking /\ ~Relay(w) => Cardinality(HeldBy(w)) + Room(w) <= Batch[w]
<1>1. Batch[w] \in Nat
  BY ListenersAssumption
<1>2. Cardinality(HeldBy(w)) \in Nat
  BY HeldFinite
<1>3. Cardinality(Waits(w[1])) \in Nat
  <2>1. IsFiniteSet(DOMAIN jobs) /\ Waits(w[1]) \subseteq DOMAIN jobs
    BY JobsShape DEF Waits, InState
  <2> QED BY <2>1, FS_Subset, FS_CardinalityType
<1>4. Used(w) \in Nat
  BY <1>2, <1>3 DEF Used
<1>5. w[2] \in acking /\ ~Relay(w) => Used(w) = Cardinality(HeldBy(w)) /\ Cardinality(HeldBy(w)) <= Batch[w]
  BY DEF Used, IInv, BatchKept
<1> QED BY <1>1, <1>2, <1>4, <1>5 DEF Room

LEMMA HandBeginKeeps ==
  ASSUME IInv, NEW t \in Tasks, HandBegin(t)
  PROVE  IInv' /\ AcksStay
<1> DEFINE p == Here(t)
           W == {w \in Watching(p) : Fit(w)}
           room == [w \in W |-> Room(w)]
<1>1. /\ Step(t, "deal", {}, room) /\ ~Locked(p) /\ At(t, "run")
      /\ jobs' = jobs /\ acking' = acking
  BY DEF HandBegin, Running
<1>2. /\ DOMAIN task' = Tasks /\ TaskRows'
      /\ \A u \in Tasks \ {t} : task'[u] = task[u]
      /\ task'[t].todo = task[t].todo /\ task'[t].at = "deal" /\ task'[t].room = room /\ task'[t].rel = {}
  BY <1>1, StepRow
<1>3. JobParts' /\ AcksStay
  BY <1>1, Untouched, MovedKeeps DEF AcksStay
<1>4. /\ \A u \in Tasks : Here(u)' = Here(u)
      /\ \A u \in Tasks \ {t} : Running(u, "deal")' <=> Running(u, "deal")
  BY <1>2 DEF Here, Running, At
<1>5. \A u \in Tasks : Running(u, "deal") => Here(u) # p
  BY <1>1 DEF Locked
<1>6. OneHandOut'
  BY <1>4, <1>5 DEF IInv, OneHandOut
<1>7. \A w : HeldBy(w)' = HeldBy(w)
  BY <1>1 DEF HeldBy, InState
<1>8. RoomCounted'
  <2> SUFFICES ASSUME NEW u \in Tasks, Running(u, "deal")', NEW w \in DOMAIN task'[u].room
               PROVE  /\ w \in Listeners /\ w[2] = Here(u)' /\ task'[u].room[w] \in Nat
                      /\ Here(u)' \in acking' /\ ~Relay(w) =>
                           Cardinality(HeldBy(w)') + task'[u].room[w] <= Batch[w]
    BY DEF RoomCounted, Relay
  <2>1. CASE u = t
    <3>1. w \in W /\ task'[u].room[w] = Room(w)
      BY <1>2, <2>1
    <3>2. w \in Listeners /\ w[2] = p
      BY <3>1 DEF Watching
    <3> QED BY <1>1, <1>4, <1>7, <2>1, <3>1, <3>2, RoomFits
  <2>2. CASE u # t
    BY <1>1, <1>2, <1>4, <1>7, <2>2 DEF IInv, RoomCounted
  <2> QED BY <2>1, <2>2
<1>9. BatchKept'
  BY <1>7 DEF IInv, BatchKept, Relay
<1>10. ClaimsKnown'
  BY <1>1, <1>2 DEF IInv, ClaimsKnown
<1> QED BY <1>2, <1>3, <1>6, <1>8, <1>9, <1>10 DEF IInv, JobParts

LEMMA HandCommitKeeps ==
  ASSUME IInv, NEW t \in Tasks, HandCommit(t)
  PROVE  IInv' /\ AcksStay
<1> DEFINE p == Here(t)
           room == task[t].room
<1>1. PICK given \in Deals(p, room) :
        \/ Done(t, task[t].to) /\ jobs' = jobs
        \/ (\E j \in DOMAIN given : given[j] # None) /\ jobs' = HandedOut(p, given) /\ \E S : NextHand(t, S)
  <2>1. PICK given \in Deals(p, room) :
          LET got == {given[j] : j \in Dealt(given)} IN
          IF got = {}
          THEN Done(t, task[t].to) /\ UNCHANGED <<jobs, dog, turns>>
          ELSE /\ jobs' = HandedOut(p, given)
               /\ dog' = [w \in Listeners |-> IF w \in got \cap Once THEN "spent" ELSE dog[w]]
               /\ turns' = [turns EXCEPT ![p] = Served(p, given)]
               /\ NextHand(t, {w[1] : w \in {v \in got : Relay(v)}})
    BY DEF HandCommit
  <2>2. {given[j] : j \in Dealt(given)} # {} => \E j \in DOMAIN given : given[j] # None
    BY DEF Dealt
  <2> HIDE DEF room, p
  <2>3. CASE {given[j] : j \in Dealt(given)} = {}
    BY <2>1, <2>3
  <2>4. CASE {given[j] : j \in Dealt(given)} # {}
    BY <2>1, <2>2, <2>4
  <2> QED BY <2>3, <2>4
<1>2. acking' = acking /\ Running(t, "deal")
  BY DEF HandCommit
<1>3. CASE Done(t, task[t].to) /\ jobs' = jobs
  BY <1>2, <1>3, CalmDone, SameJobs
<1>4. CASE (\E j \in DOMAIN given : given[j] # None) /\ jobs' = HandedOut(p, given) /\ \E S : NextHand(t, S)
  <2>1. \A w \in DOMAIN room : w \in Listeners /\ w[2] = p /\ room[w] \in Nat
    BY <1>2 DEF IInv, RoomCounted
  <2>2. p \in Projects
    <3>1. given \in [Waits(p) -> DOMAIN room \cup {None}]
      BY DEF Deals
    <3>2. PICK w \in DOMAIN room : TRUE
      BY <1>4, <3>1
    <3> QED BY <2>1, <3>2, ListenersAssumption
  <2>3. HandOut(p, room, given)
    BY <1>4, <2>1, <2>2 DEF HandOut
  <2>4. /\ JobParts' /\ AcksStay
        /\ \A w \in Listeners : \A j \in HeldBy(w)' :
              j \in HeldBy(w) \/ (p \in acking /\ ~Relay(w) /\ j \in Dealt(given) /\ given[j] = w)
    BY <2>3, HandOutKeeps DEF AcksStay
  <2>5. DOMAIN jobs \subseteq DOMAIN jobs'
    <3>1. DOMAIN jobs' = 1..(Len(jobs) + Cardinality(ToRelays(given))) /\ Cardinality(ToRelays(given)) \in Nat
      BY <2>3, HandOutFacts, Children
    <3> QED BY <3>1, JobsShape
  <2>6. Calm /\ ~Running(t, "deal")'
    <3>1. PICK S : NextHand(t, S)
      BY <1>4
    <3> DEFINE a == task[t].todo
               f == task[t].who
               to == task[t].to \cup S
               y == [Doing(a, f) EXCEPT !.at = "hand", !.to = to]
    <3>2. y = [todo |-> a, at |-> "hand", rel |-> {}, room |-> NoRoom, to |-> to, who |-> f]
      <4> HIDE DEF a, f, to
      <4>1. Doing(a, f) = [todo |-> a, at |-> "release", rel |-> {}, room |-> NoRoom, to |-> {}, who |-> f]
        BY DEF Doing
      <4>2. Doing(a, f) \in [todo : {a}, at : {"release"}, rel : {{}}, room : {NoRoom}, to : {{}}, who : {f}]
        BY <4>1, RowOf
      <4>3. y \in [todo : {a}, at : {"hand"}, rel : {{}}, room : {NoRoom}, to : {to}, who : {f}]
        BY <4>2
      <4> HIDE DEF y
      <4> QED BY <4>3, RowOf
    <3>3. task' = [task EXCEPT ![t] = y]
      BY <3>1 DEF NextHand
    <3> HIDE DEF y
    <3>4. /\ \A u \in Tasks \ {t} : task'[u] = task[u]
          /\ task'[t] = y /\ DOMAIN task' = Tasks
      BY <3>3 DEF IInv
    <3>5. y = [todo |-> y.todo, at |-> y.at, rel |-> y.rel, room |-> y.room, to |-> y.to, who |-> y.who]
          /\ y.at = "hand" /\ y.rel = {}
      BY <3>2
    <3>6. TaskRows'
      BY <3>4, <3>5 DEF IInv, TaskRows
    <3> QED BY <3>4, <3>5, <3>6 DEF Calm, Running
  <2>7. ASSUME NEW u \in Tasks, Running(u, "deal")'
        PROVE  u # t /\ Running(u, "deal") /\ task'[u] = task[u] /\ Here(u)' = Here(u) /\ Here(u) # p
    <3>1. u # t /\ task'[u] = task[u]
      BY <2>6, <2>7 DEF Calm
    <3>2. Running(u, "deal") /\ Here(u)' = Here(u)
      BY <2>7, <3>1 DEF Running, At, Here
    <3>3. Here(u) # p
      BY <1>2, <3>1, <3>2 DEF IInv, OneHandOut
    <3> QED BY <3>1, <3>2, <3>3
  <2>8. OneHandOut'
    BY <2>7 DEF IInv, OneHandOut
  <2>9. RoomCounted'
    <3> SUFFICES ASSUME NEW u \in Tasks, Running(u, "deal")', NEW w \in DOMAIN task'[u].room
                 PROVE  /\ w \in Listeners /\ w[2] = Here(u)' /\ task'[u].room[w] \in Nat
                        /\ Here(u)' \in acking' /\ ~Relay(w) =>
                             Cardinality(HeldBy(w)') + task'[u].room[w] <= Batch[w]
      BY DEF RoomCounted, Relay
    <3>1. Running(u, "deal") /\ task'[u] = task[u] /\ Here(u)' = Here(u) /\ Here(u) # p
      BY <2>7
    <3>2. /\ w \in Listeners /\ w[2] = Here(u) /\ task[u].room[w] \in Nat
          /\ Here(u) \in acking /\ ~Relay(w) => Cardinality(HeldBy(w)) + task[u].room[w] <= Batch[w]
      BY <3>1 DEF IInv, RoomCounted
    <3>3. HeldBy(w)' \subseteq HeldBy(w)
      <4>1. \A j \in Dealt(given) : given[j][2] = p
        BY <2>3, DealtTo
      <4> QED BY <2>4, <3>1, <3>2, <4>1
    <3>4. Cardinality(HeldBy(w)') \in Nat /\ Cardinality(HeldBy(w)') <= Cardinality(HeldBy(w))
          /\ Cardinality(HeldBy(w)) \in Nat /\ Batch[w] \in Nat
      BY <3>2, <3>3, HeldLess, HeldFinite, ListenersAssumption
    <3> QED BY <1>2, <3>1, <3>2, <3>4
  <2>10. BatchKept'
    <3> SUFFICES ASSUME NEW w \in Listeners, ~Relay(w) PROVE Cardinality(HeldBy(w)') <= Batch[w]
      BY DEF BatchKept, Relay
    <3> DEFINE G == {j \in Dealt(given) : given[j] = w}
    <3>1. Cardinality(HeldBy(w)) <= Batch[w] /\ Cardinality(HeldBy(w)) \in Nat /\ Batch[w] \in Nat
      <4>1. Cardinality(HeldBy(w)) \in Nat
        BY HeldFinite
      <4>2. Cardinality(HeldBy(w)) <= Batch[w]
        BY DEF IInv, BatchKept
      <4>3. Batch[w] \in Nat
        BY ListenersAssumption
      <4> QED BY <4>1, <4>2, <4>3
    <3>2. CASE p \in acking /\ G # {}
      <4>1. w \in DOMAIN room
        BY <2>3, <3>2, DealtTo
      <4>2. w[2] = p /\ room[w] \in Nat /\ Cardinality(HeldBy(w)) + room[w] <= Batch[w]
        BY <1>2, <3>2, <4>1 DEF IInv, RoomCounted
      <4>3. IsFiniteSet(G) /\ Cardinality(G) \in Nat /\ Cardinality(G) <= room[w]
        BY <2>3, <4>1, DealtWithin
      <4>4. HeldBy(w)' \subseteq HeldBy(w) \cup G
        BY <2>4
      <4>5. /\ IsFiniteSet(HeldBy(w) \cup G) /\ Cardinality(HeldBy(w) \cup G) \in Nat
            /\ Cardinality(HeldBy(w) \cup G) <= Cardinality(HeldBy(w)) + Cardinality(G)
        <5> HIDE DEF G
        <5>1. IsFiniteSet(HeldBy(w) \cap G) /\ Cardinality(HeldBy(w) \cap G) \in Nat
          BY <4>3, FS_Subset, FS_CardinalityType, HeldBy(w) \cap G \subseteq G
        <5>2. IsFiniteSet(HeldBy(w))
          BY HeldFinite
        <5>3. /\ IsFiniteSet(HeldBy(w) \cup G)
              /\ Cardinality(HeldBy(w) \cup G)
                 = Cardinality(HeldBy(w)) + Cardinality(G) - Cardinality(HeldBy(w) \cap G)
          BY <4>3, <5>2, FS_Union
        <5>4. Cardinality(HeldBy(w) \cup G) \in Nat
          BY <5>3, FS_CardinalityType
        <5> QED BY <3>1, <4>3, <5>1, <5>3, <5>4
      <4>6. Cardinality(HeldBy(w)') \in Nat /\ Cardinality(HeldBy(w)') <= Cardinality(HeldBy(w) \cup G)
        BY <4>4, <4>5, FS_Subset, FS_CardinalityType
      <4> QED BY <3>1, <4>2, <4>3, <4>5, <4>6
    <3>3. CASE ~(p \in acking /\ G # {})
      <4>1. HeldBy(w)' \subseteq HeldBy(w)
        BY <2>4, <3>3
      <4> QED BY <3>1, <4>1, HeldLess
    <3> QED BY <3>2, <3>3
  <2>11. ClaimsKnown'
    BY <2>5, <2>6 DEF IInv, ClaimsKnown, Calm
  <2> QED BY <2>4, <2>6, <2>8, <2>9, <2>10, <2>11 DEF IInv, JobParts, Calm
<1> QED BY <1>1, <1>3, <1>4

-----------------------------------------------------------------------------
(* Every step. *)

LEMMA QueueKeeps ==
  ASSUME IInv, NEW t \in Tasks, Queue(t)
  PROVE  IInv' /\ AcksStay
<1>1. CASE Release(t)
  <2> DEFINE gone == {j \in InState(Here(t), {"held"}) : Here(t) \in acking /\ Stale(j)}
             rel  == {<<j, jobs[j].hands>> : j \in gone}
             step == IF gone = {} THEN "hand" ELSE "reclaim"
  <2>1. Step(t, step, rel, NoRoom) /\ jobs' = jobs /\ acking' = acking
    BY <1>1 DEF Release
  <2>2. \A r \in rel : r[1] \in DOMAIN jobs
    BY DEF InState
  <2>3. Calm
    <3>1. step # "deal"
      OBVIOUS
    <3> HIDE DEF rel, step
    <3> QED BY <2>1, <2>2, <3>1, CalmStep
  <2> QED BY <2>1, <2>3, SameJobs
<1>2. CASE Reclaim(t)
  <2>1. PICK r \in task[t].rel :
          /\ jobs' = IF StaleClaim(Here(t), r) THEN GaveBack({r[1]}) ELSE jobs
          /\ Step(t, IF task[t].rel \ {r} = {} THEN "hand" ELSE "reclaim", task[t].rel \ {r}, NoRoom)
    BY <1>2 DEF Reclaim
  <2>2. Calm
    <3> DEFINE step == IF task[t].rel \ {r} = {} THEN "hand" ELSE "reclaim"
               rel == task[t].rel \ {r}
    <3>1. step # "deal" /\ \A s \in rel : s \in task[t].rel
      OBVIOUS
    <3>2. Step(t, step, rel, NoRoom)
      BY <2>1
    <3> HIDE DEF rel, step
    <3> QED BY <3>1, <3>2, CalmStep
  <2>3. acking' = acking
    BY <1>2 DEF Reclaim
  <2>4. CASE StaleClaim(Here(t), r)
    <3> DEFINE S == {r[1]}
    <3>1. S \in SUBSET (DOMAIN jobs) /\ \A i \in S : jobs[i].st = "held"
      BY <2>4 DEF IInv, ClaimsKnown, StaleClaim
    <3>2. jobs' = GaveBack(S)
      BY <2>1, <2>4
    <3> HIDE DEF S
    <3>3. Moved /\ HeirsKept /\ EndsMeet
      BY <3>1, <3>2, GaveBackStep
    <3> QED BY <2>2, <2>3, <3>3, MovedStep
  <2>5. CASE ~StaleClaim(Here(t), r)
    BY <2>1, <2>2, <2>3, <2>5, SameJobs
  <2> QED BY <2>4, <2>5
<1>3. CASE HandBegin(t)
  BY <1>3, HandBeginKeeps
<1>4. CASE HandCommit(t)
  BY <1>4, HandCommitKeeps
<1>5. CASE Waive(t)
  <2> DEFINE S == InState(Here(t), {"held", "relayed"})
  <2>1. /\ S \in SUBSET (DOMAIN jobs) /\ \A i \in S : jobs[i].st \in {"held", "relayed"}
        /\ "passed" \in JobStates
    BY DEF InState, JobStates
  <2>2. /\ jobs' = [i \in DOMAIN jobs |-> IF i \in S THEN [jobs[i] EXCEPT !.st = "passed"] ELSE jobs[i]]
        /\ acking' = acking /\ Done(t, {})
    BY <1>5 DEF Waive
  <2> HIDE DEF S
  <2>3. Moved /\ HeirsKept /\ EndsMeet
    BY <2>1, <2>2, RestatedMoves
  <2> QED BY <2>2, <2>3, CalmDone, MovedStep
<1>6. CASE DropDogs(t)
  BY <1>6, CalmDone, SameJobs DEF DropDogs
<1>7. CASE DeathRelease(t)
  <2> DEFINE S == {j \in InState(Here(t), {"held"}) : jobs[j].by = task[t].who}
  <2>1. S \in SUBSET (DOMAIN jobs) /\ \A i \in S : jobs[i].st = "held"
    BY DEF InState
  <2>2. jobs' = GaveBack(S) /\ acking' = acking /\ \E Q : Done(t, Q)
    BY <1>7 DEF DeathRelease
  <2> HIDE DEF S
  <2>3. Moved /\ HeirsKept /\ EndsMeet
    BY <2>1, <2>2, GaveBackStep
  <2> QED BY <2>2, <2>3, CalmDone, MovedStep
<1> QED BY <1>1, <1>2, <1>3, <1>4, <1>5, <1>6, <1>7 DEF Queue

LEMMA JobMoves ==
  ASSUME IInv, NEW t \in Tasks, NEW j \in DOMAIN jobs, Job(t, j)
  PROVE  Moved /\ HeirsKept /\ EndsMeet
<1>1. CASE Ack(t, j)
  BY <1>1, AckMoves DEF Ack
<1>2. CASE UserAck(t, j)
  BY <1>2, UserAckMoves DEF UserAck
<1>3. CASE TimeOut(t, j)
  <2> DEFINE S == {j}
  <2>1. S \in SUBSET (DOMAIN jobs) /\ \A i \in S : jobs[i].st = "held"
    BY <1>3 DEF TimeOut
  <2>2. jobs' = GaveBack(S)
    BY <1>3 DEF TimeOut
  <2> HIDE DEF S
  <2> QED BY <2>1, <2>2, GaveBackStep
<1>4. CASE TakeBack(t, j)
  <2> DEFINE S == {j}
             B == GaveBack(S)
  <2>1. S \in SUBSET (DOMAIN jobs) /\ (\A i \in S : jobs[i].st = "held") /\ jobs[j].by \in Owners
    <3>1. jobs[j].st = "held" /\ jobs[j].by \in Agents
      BY <1>4 DEF TakeBack
    <3> QED BY <3>1 DEF Owners
  <2>2. jobs' = [B EXCEPT ![j].avoid = B[j].avoid \cup {jobs[j].by}]
    BY <1>4 DEF TakeBack
  <2> HIDE DEF S, B
  <2>3. B \in [DOMAIN jobs -> Rows]
    BY <2>1, GaveBackRows DEF B
  <2>4. \A r \in Rows : LET x == [r EXCEPT !.avoid = r.avoid \cup {jobs[j].by}] IN x \in Rows /\ Alike(x, r)
    BY <2>1 DEF Rows, Alike
  <2>5. \A i \in DOMAIN jobs : jobs'[i] = IF i = j THEN [B[i] EXCEPT !.avoid = B[i].avoid \cup {jobs[j].by}] ELSE B[i]
    BY <2>2, <2>3
  <2>6. jobs' \in [DOMAIN jobs -> Rows]
    BY <2>2, <2>3, <2>4
  <2>7. \A i \in DOMAIN jobs : Alike(jobs'[i], B[i])
    <3> SUFFICES ASSUME NEW i \in DOMAIN jobs PROVE Alike(jobs'[i], B[i])
      OBVIOUS
    <3>1. B[i] \in Rows
      BY <2>3
    <3>2. CASE i = j
      BY <2>4, <2>5, <3>1, <3>2
    <3>3. CASE i # j
      BY <2>5, <3>3 DEF Alike
    <3> QED BY <3>2, <3>3
  <2>8. jobs' \in Seq(Rows) /\ DOMAIN jobs' = DOMAIN jobs
    BY <2>6, RowsSeq
  <2> QED BY <2>1, <2>7, <2>8, GaveBackMoves DEF B
<1>5. CASE Retry(t, j)
  BY <1>5, RetryMoves
<1> QED BY <1>1, <1>2, <1>3, <1>4, <1>5 DEF Job

LEMMA JobKeeps ==
  ASSUME IInv, NEW t \in Tasks, NEW j \in DOMAIN jobs, Job(t, j)
  PROVE  IInv' /\ AcksStay
<1>1. Moved /\ HeirsKept /\ EndsMeet
  BY JobMoves
<1>2. acking' = acking /\ \E todo : Start(t, todo, None)
  <2>1. CASE Ack(t, j)
    BY <2>1 DEF Ack
  <2>2. CASE UserAck(t, j)
    BY <2>2 DEF UserAck
  <2>3. CASE TimeOut(t, j)
    BY <2>3 DEF TimeOut
  <2>4. CASE TakeBack(t, j)
    BY <2>4 DEF TakeBack
  <2>5. CASE Retry(t, j)
    BY <2>5 DEF Retry
  <2> QED BY <2>1, <2>2, <2>3, <2>4, <2>5 DEF Job
<1> QED BY <1>1, <1>2, CalmStart, MovedStep

LEMMA SendStep ==
  ASSUME IInv, NEW t \in Tasks, NEW p \in Projects, Send(t, p)
  PROVE  IInv' /\ AcksStay
<1>1. jobs' = Append(jobs, NewJob(p, 0)) /\ acking' = acking /\ Start(t, <<Run(p)>>, None)
  BY DEF Send
<1>2. /\ JobParts'
      /\ \A j \in DOMAIN jobs : jobs'[j] = jobs[j]
      /\ \A w \in Listeners : HeldBy(w)' \subseteq HeldBy(w)
  BY <1>1, SendKeeps
<1>3. DOMAIN jobs \subseteq DOMAIN jobs'
  BY <1>1, JobsShape
<1> QED BY <1>1, <1>2, <1>3, CalmStart, CalmKeeps DEF AcksStay

\* The mode of a queue changes only between its hand-outs.
LEMMA SetModeStep ==
  ASSUME IInv, NEW t \in Tasks, NEW p \in Projects, SetMode(t, p)
  PROVE  IInv' /\ AcksStay
<1>1. /\ jobs' = jobs /\ ~Locked(p) /\ \E todo : Start(t, todo, None)
      /\ acking' = IF p \in acking THEN acking \ {p} ELSE acking \cup {p}
  BY DEF SetMode
<1>2. \A u \in Tasks : Running(u, "deal") /\ Here(u) \in acking' => Here(u) \in acking
  BY <1>1 DEF Locked
<1> QED BY <1>1, <1>2, CalmStart, Untouched, MovedStep

LEMMA NextKeeps ==
  ASSUME IInv, [Next]_vars
  PROVE  IInv' /\ AcksStay
<1>1. CASE UNCHANGED vars
  BY <1>1, CalmUnchanged, SameJobs DEF vars
<1>2. ASSUME NEW t \in Tasks, Queue(t)
      PROVE  IInv' /\ AcksStay
  BY <1>2, QueueKeeps
<1>3. ASSUME NEW t \in Tasks, Crash(t)
      PROVE  IInv' /\ AcksStay
  <2>1. PICK s : task' = [u \in Tasks |-> IF u = t THEN Doing(Runs(s), None) ELSE Idle]
    BY <1>3 DEF Crash
  <2>2. DOMAIN task' = Tasks /\ \A u \in Tasks : task'[u] = Doing(Runs(s), None) \/ task'[u] = Doing(<<>>, None)
    BY <2>1 DEF Idle
  <2>3. Calm
    <3>1. ASSUME NEW todo, NEW x, x = Doing(todo, None)
          PROVE  /\ x = [todo |-> x.todo, at |-> x.at, rel |-> x.rel, room |-> x.room, to |-> x.to, who |-> x.who]
                 /\ x.at = "release" /\ x.rel = {}
      BY <3>1 DEF Doing
    <3>2. \A u \in Tasks :
            /\ task'[u] = [todo |-> task'[u].todo, at |-> task'[u].at, rel |-> task'[u].rel,
                           room |-> task'[u].room, to |-> task'[u].to, who |-> task'[u].who]
            /\ task'[u].at = "release" /\ task'[u].rel = {}
      BY <2>2, <3>1
    <3> QED BY <2>2, <3>2 DEF Calm, TaskRows, Running
  <2> QED BY <1>3, <2>3, SameJobs DEF Crash
<1>4. ASSUME NEW t \in Tasks, NEW j \in DOMAIN jobs, Job(t, j)
      PROVE  IInv' /\ AcksStay
  BY <1>4, JobKeeps
<1>5. ASSUME NEW t \in Tasks, NEW p \in Projects, Send(t, p) \/ SetMode(t, p)
      PROVE  IInv' /\ AcksStay
  BY <1>5, SendStep, SetModeStep
<1>6. ASSUME NEW t \in Tasks, NEW w \in Listeners, Pause(t, w) \/ Resume(t, w)
      PROVE  IInv' /\ AcksStay
  <2>1. jobs' = jobs /\ acking' = acking
    BY <1>6 DEF Pause, Resume
  <2>2. (\E S : StartAll(t, S)) \/ (\E todo, who : Start(t, todo, who)) \/ task' = task
    BY <1>6 DEF Pause, Resume
  <2> QED BY <2>1, <2>2, CalmUnchanged, CalmStart, CalmStartAll, SameJobs
<1>7. ASSUME NEW t \in Tasks, NEW a \in Agents,
             Halt(t, a) \/ Unhalt(t, a) \/ Move(t, a) \/ (\E p \in Projects : Die(t, a, p))
      PROVE  IInv' /\ AcksStay
  <2>1. jobs' = jobs /\ acking' = acking
    BY <1>7 DEF Halt, Unhalt, Move, Die
  <2>2. (\E S : StartAll(t, S)) \/ (\E todo, who : Start(t, todo, who))
    <3>1. CASE Halt(t, a) \/ Unhalt(t, a)
      BY <3>1 DEF Halt, Unhalt
    <3>2. CASE Move(t, a)
      BY <3>2 DEF Move
    <3>3. CASE \E p \in Projects : Die(t, a, p)
      BY <3>3 DEF Die
    <3> QED BY <1>7, <3>1, <3>2, <3>3
  <2> QED BY <2>1, <2>2, CalmStart, CalmStartAll, SameJobs
<1>8. ASSUME NEW j \in DOMAIN jobs, Remind(j)
      PROVE  IInv' /\ AcksStay
  BY <1>8, RemindMoves, CalmUnchanged, MovedStep DEF Remind
<1>9. ASSUME NEW j \in DOMAIN jobs, RelayTakeBack(j)
      PROVE  IInv' /\ AcksStay
  <2>1. Moved /\ HeirsKept /\ EndsMeet
    BY <1>9, RelayTakeBackMoves
  <2>2. acking' = acking /\ task' = task
    BY <1>9, Zenon DEF RelayTakeBack
  <2> QED BY <2>1, <2>2, CalmUnchanged, MovedStep
<1>10. ASSUME NEW j \in DOMAIN jobs, DropLetter(j)
       PROVE  IInv' /\ AcksStay
  <2> DEFINE S == {j}
  <2>1. /\ S \in SUBSET (DOMAIN jobs) /\ \A i \in S : jobs[i].st = "dead"
        /\ "dropped" \in JobStates
    BY <1>10 DEF DropLetter, JobStates
  <2>2. /\ jobs' = [i \in DOMAIN jobs |-> IF i \in S THEN [jobs[i] EXCEPT !.st = "dropped"] ELSE jobs[i]]
        /\ acking' = acking /\ task' = task
    BY <1>10 DEF DropLetter
  <2> HIDE DEF S
  <2>3. Moved /\ HeirsKept /\ EndsMeet
    BY <2>1, <2>2, RestatedMoves
  <2> QED BY <2>2, <2>3, CalmUnchanged, MovedStep
<1>11. ASSUME NEW p \in Projects, Purge(p)
       PROVE  IInv' /\ AcksStay
  <2> DEFINE S == Waits(p)
  <2>1. /\ S \in SUBSET (DOMAIN jobs) /\ \A i \in S : jobs[i].st = "waiting"
        /\ "retracted" \in JobStates
    BY DEF Waits, InState, JobStates
  <2>2. /\ jobs' = [i \in DOMAIN jobs |-> IF i \in S THEN [jobs[i] EXCEPT !.st = "retracted"] ELSE jobs[i]]
        /\ acking' = acking /\ task' = task
    BY <1>11 DEF Purge
  <2> HIDE DEF S
  <2>3. Moved /\ HeirsKept /\ EndsMeet
    BY <2>1, <2>2, RestatedMoves
  <2> QED BY <2>2, <2>3, CalmUnchanged, MovedStep
<1>12. ASSUME NEW a \in Agents, HaltAlone(a) \/ ContinueOn(a)
       PROVE  IInv' /\ AcksStay
  BY <1>12, CalmUnchanged, SameJobs DEF HaltAlone, ContinueOn
<1> QED BY <1>1, <1>2, <1>3, <1>4, <1>5, <1>6, <1>7, <1>8, <1>9, <1>10, <1>11, <1>12 DEF Next

LEMMA InitInv == Init => IInv
<1> SUFFICES ASSUME Init PROVE IInv
  OBVIOUS
<1>1. jobs = <<>> /\ task = [t \in Tasks |-> Idle]
  BY DEF Init
<1>2. jobs \in Seq(Rows) /\ DOMAIN jobs = {}
  BY <1>1
<1>3. HoldersKnown /\ ChildrenLater /\ RelaysLinked /\ LiveLinked /\ RelaySettles
  BY <1>2 DEF HoldersKnown, ChildrenLater, RelaysLinked, LiveLinked, RelaySettles
<1>4. DOMAIN task = Tasks /\ TaskRows /\ ClaimsKnown /\ OneHandOut /\ RoomCounted
  BY <1>1 DEF Idle, Doing, TaskRows, ClaimsKnown, OneHandOut, RoomCounted, Running
<1>5. BatchKept
  <2>1. \A w : HeldBy(w) = {}
    BY <1>2 DEF HeldBy, InState
  <2>2. \A w \in Listeners : Cardinality({}) <= Batch[w]
    BY FS_EmptySet, ListenersAssumption
  <2> QED BY <2>1, <2>2 DEF BatchKept
<1> QED BY <1>2, <1>3, <1>4, <1>5 DEF IInv

\* The inductive invariant holds in every state of every run.
LEMMA Inductive == Spec => []IInv
<1>1. IInv /\ [Next]_vars => IInv'
  BY NextKeeps
<1> QED BY InitInv, <1>1, PTL DEF Spec

\* One heir, for any projects and relays: a job below another that waits or is held is
\* the one the job above is claimed for, over give-backs, dead letters, take-backs,
\* purges and switches of mode (relay::take_back, relay::settle).
THEOREM HeirsLinked == Spec => []HeirLinked
<1>1. IInv => HeirLinked
  BY DEF IInv, LiveLinked, HeirLinked, Live, Open
<1> QED BY <1>1, Inductive, PTL

\* Both ends of a relay settle together, for any projects and relays: no job stays
\* relayed whose child is a dead letter or was acknowledged by an agent (relay::settle,
\* dead_lettered).
THEOREM RelaysSettle == Spec => []RelaySettles
<1>1. IInv => RelaySettles
  BY DEF IInv
<1> QED BY <1>1, Inductive, PTL

\* No batch is exceeded, whatever the batches and however many tasks hand out at once:
\* the room a hand-out counted under the project's lock is still there when it gives
\* (hand_batch_in).
THEOREM BatchesKept == Spec => []BatchKept
<1>1. IInv => BatchKept
  BY DEF IInv
<1> QED BY <1>1, Inductive, PTL

\* An acknowledgement is final, for any number of tasks and attempts: no give-back,
\* timeout, retry or hand-out brings the job back (reclaim_in).
THEOREM AcksFinal == Spec => AckFinal
<1>1. IInv /\ [Next]_vars => [\A j \in DOMAIN jobs : jobs[j].st = "acked" => jobs'[j].st \in {"acked", "withdrawn"}]_vars
  BY NextKeeps DEF AcksStay
<1> QED BY <1>1, Inductive, PTL DEF AckFinal, Spec

-----------------------------------------------------------------------------
(* Lists. *)

\* InOrder lists the members of a finite set of numbers.
LEMMA Ordered ==
  ASSUME NEW S \in SUBSET Nat, IsFiniteSet(S)
  PROVE  /\ InOrder(S) \in Seq(S)
         /\ DOMAIN InOrder(S) = 1..Cardinality(S)
         /\ \A n \in S : \E k \in DOMAIN InOrder(S) : InOrder(S)[k] = n
<1> DEFINE rank(j) == Cardinality({i \in S : i <= j})
           at(k) == CHOOSE n \in S : rank(n) = k
           T == 1..Cardinality(S)
<1>1. /\ Cardinality(S) \in Nat
      /\ \A j \in S : rank(j) \in T
      /\ \A i, j \in S : rank(i) = rank(j) => i = j
      /\ \A k \in T : \E j \in S : rank(j) = k
  BY Ranks
<1>2. InOrder(S) = [k \in T |-> at(k)]
  BY DEF InOrder
<1> HIDE DEF rank
<1>3. \A k \in T : at(k) \in S /\ rank(at(k)) = k
  BY <1>1
<1>4. \A n \in S : at(rank(n)) = n
  BY <1>1, <1>3
<1> HIDE DEF at
<1>5. InOrder(S) \in [T -> S]
  BY <1>2, <1>3
<1>6. InOrder(S) \in Seq(S)
  BY <1>1, <1>5, FunctionSeq
<1> QED BY <1>1, <1>2, <1>4, <1>6

LEMMA Selected ==
  ASSUME NEW T, NEW s \in Seq(T), NEW P \in SUBSET (DOMAIN s)
  PROVE  Select(s, P) \in Seq(T)
<1> DEFINE at == InOrder(P)
<1>1. Len(s) \in Nat /\ DOMAIN s = 1..Len(s) /\ \A k \in DOMAIN s : s[k] \in T
  BY LenProperties, ElementOfSeq
<1>2. P \in SUBSET Nat /\ IsFiniteSet(P)
  BY <1>1, PlacesFinite
<1>3. at \in Seq(P) /\ DOMAIN at = 1..Len(at) /\ Len(at) \in Nat
  BY <1>2, Ordered, LenProperties
<1>4. \A k \in DOMAIN at : at[k] \in P
  BY <1>3, ElementOfSeq
<1>5. Select(s, P) = [k \in DOMAIN at |-> s[at[k]]]
  BY DEF Select
<1> HIDE DEF at
<1>6. Select(s, P) \in [1..Len(at) -> T]
  BY <1>1, <1>3, <1>4, <1>5
<1> QED BY <1>3, <1>6, FunctionSeq

LEMMA WithoutSeq ==
  ASSUME NEW T, NEW s \in Seq(T), NEW S
  PROVE  Without(s, S) \in Seq(T)
BY Selected DEF Without

\* A list of a finite set has each member.
LEMMA Listing ==
  ASSUME NEW S, IsFiniteSet(S), NEW s \in SetToSeqs(S)
  PROVE  s \in Seq(S) /\ \A x \in S : \E k \in DOMAIN s : s[k] = x
<1> DEFINE T == 1..Cardinality(S)
<1>1. Cardinality(S) \in Nat
  BY FS_CardinalityType
<1>2. s \in [T -> S] /\ \A i, j \in T : i # j => s[i] # s[j]
  BY DEF SetToSeqs
<1>3. s \in Injection(T, S)
  BY <1>2 DEF Injection, IsInjective
<1>4. IsFiniteSet(T) /\ Cardinality(T) = Cardinality(S)
  BY <1>1, FS_Interval
<1>5. s \in Surjection(T, S)
  BY <1>3, <1>4, FS_Injection
<1> QED BY <1>1, <1>2, <1>5, FunctionSeq DEF Surjection

\* The projects that somebody listens to, and those that listen, are finitely many.
LEMMA ProjectsFinite ==
  /\ \A o : TargetsOf(o) \in SUBSET Projects /\ IsFiniteSet(TargetsOf(o))
  /\ \A W \in SUBSET Listeners : IsFiniteSet({w[1] : w \in W}) /\ IsFiniteSet({w[2] : w \in W})
<1>1. IsFiniteSet(Listeners)
  BY ListenersAssumption
<1>2. ASSUME NEW W \in SUBSET Listeners
      PROVE  IsFiniteSet({w[1] : w \in W}) /\ IsFiniteSet({w[2] : w \in W})
  <2>1. IsFiniteSet(W)
    BY <1>1, FS_Subset
  <2>2. [w \in W |-> w[1]] \in Surjection(W, {w[1] : w \in W})
    BY DEF Surjection
  <2>3. [w \in W |-> w[2]] \in Surjection(W, {w[2] : w \in W})
    BY DEF Surjection
  <2> QED BY <2>1, <2>2, <2>3, FS_Surjection
<1>3. ASSUME NEW o
      PROVE  TargetsOf(o) \in SUBSET Projects /\ IsFiniteSet(TargetsOf(o))
  <2>1. TargetsOf(o) \subseteq {w[2] : w \in Listeners}
    BY DEF TargetsOf
  <2>2. IsFiniteSet({w[2] : w \in Listeners})
    BY <1>2
  <2> QED BY <2>1, <2>2, FS_Subset DEF TargetsOf
<1> QED BY <1>2, <1>3

-----------------------------------------------------------------------------
(* What tasks keep, and what they owe. *)

\* a queue runs after the acks owed in it are waived
WaiversRun(s) ==
  \A i \in DOMAIN s : s[i][1] = "waive" => \E k \in DOMAIN s : k > i /\ s[k] = Run(s[i][2])

TodoTyped(s) == s \in Seq(Todo) /\ WaiversRun(s)

\* the projects that may take jobs from others
Takers == {w[1] : w \in Listeners}

\* the type of a task, and where it is when it has claims to judge, room or projects to run
TaskTyped(y) ==
  /\ y = [todo |-> y.todo, at |-> y.at, rel |-> y.rel, room |-> y.room, to |-> y.to, who |-> y.who]
  /\ TodoTyped(y.todo)
  /\ y.at \in {"release", "reclaim", "hand", "deal"}
  /\ y.rel \subseteq (DOMAIN jobs) \X Nat /\ \A r \in y.rel : jobs[r[1]].at = Head(y.todo)[2]
  /\ DOMAIN y.room \subseteq Listeners /\ \A w \in DOMAIN y.room : y.room[w] \in 0..Batch[w]
  /\ y.to \subseteq Projects /\ y.to \subseteq Takers
  /\ y.who \in Agents \cup {None}
  /\ y.at # "release" \/ y.to # {} => y.todo # <<>> /\ Head(y.todo)[1] = "run"

TasksTyped == DOMAIN task = Tasks /\ \A t \in Tasks : TaskTyped(task[t])

\* the types of what the tasks share
SharedTypes ==
  /\ acking \subseteq Projects
  /\ dog \in [Listeners -> {"armed", "paused", "spent"}]
  /\ turns \in [Projects -> Seq(Listeners)]
  /\ halted \subseteq Agents /\ away \subseteq Agents /\ unrun \subseteq Listeners
  /\ acts \in 0..MaxActs

\* a job's parent is a job
ParentsKnown == \A j \in DOMAIN jobs : jobs[j].parent # 0 => jobs[j].parent \in DOMAIN jobs

TInv == IInv /\ ParentsKnown /\ SharedTypes /\ TasksTyped

\* jobs stay where they are
JobsStay == DOMAIN jobs \subseteq DOMAIN jobs' /\ \A j \in DOMAIN jobs : jobs'[j].at = jobs[j].at

Lists(s, p) == \E i \in DOMAIN s : s[i] = Run(p)

\* a task will read the listeners of p
Owes(y, p) == \/ \E i \in DOMAIN y.todo : y.todo[i] = Run(p) /\ ~(i = 1 /\ y.at = "deal")
              \/ p \in y.to

Owed(p) == \E t \in Tasks : Owes(task[t], p)

\* task t has read w, and means to give it a job
Serving(t, w) == Running(t, "deal") /\ w[2] = Here(t) /\ w \in DOMAIN task[t].room /\ task[t].room[w] > 0

\* w could take a job of its project, and was not made fit with no run of its queue
Idles(w) == /\ w \notin unrun
            /\ w[1] \in Agents /\ dog[w] = "armed" /\ Fit(w) /\ Room(w) > 0
            /\ \E j \in Waits(w[2]) : jobs[j].avoid \cap Projects = {}

\* No listener idles unless its queue is to run, or is being dealt to it.
RunsOwed == \A w \in Listeners : Idles(w) => Owed(w[2]) \/ \E t \in Tasks : Serving(t, w)

WakeInv == TInv /\ RunsOwed

\* the task t is at y now
Puts(t, y) == task' = [task EXCEPT ![t] = y]

LEMMA PutsOne ==
  ASSUME DOMAIN task = Tasks, NEW t \in Tasks, NEW y, Puts(t, y)
  PROVE  DOMAIN task' = Tasks /\ task'[t] = y /\ \A u \in Tasks : u # t => task'[u] = task[u]
BY DEF Puts

LEMMA DoingRow ==
  ASSUME NEW todo, NEW who
  PROVE  LET y == Doing(todo, who) IN
         /\ y = [todo |-> todo, at |-> "release", rel |-> {}, room |-> NoRoom, to |-> {}, who |-> who]
         /\ y.todo = todo /\ y.at = "release" /\ y.rel = {} /\ y.room = NoRoom /\ y.to = {} /\ y.who = who
BY DEF Doing

LEMMA DoingTyped ==
  ASSUME NEW todo, TodoTyped(todo), NEW who \in Agents \cup {None}
  PROVE  TaskTyped(Doing(todo, who))' /\ TaskTyped(Doing(todo, who))
<1> DEFINE y == Doing(todo, who)
<1>1. /\ y = [todo |-> todo, at |-> "release", rel |-> {}, room |-> NoRoom, to |-> {}, who |-> who]
      /\ y.todo = todo /\ y.at = "release" /\ y.rel = {} /\ y.room = NoRoom /\ y.to = {} /\ y.who = who
  BY DoingRow
<1>2. DOMAIN NoRoom = {}
  BY DEF NoRoom
<1> HIDE DEF y
<1>3. TaskTyped(y)' /\ TaskTyped(y)
  BY <1>1, <1>2 DEF TaskTyped, TodoTyped, WaiversRun, Takers
<1> QED BY <1>3 DEF y

LEMMA DoingOwes ==
  ASSUME NEW todo, NEW who, NEW p
  PROVE  Owes(Doing(todo, who), p) <=> Lists(todo, p)
<1> DEFINE y == Doing(todo, who)
<1>1. y.todo = todo /\ y.at = "release" /\ y.to = {}
  BY DoingRow
<1> HIDE DEF y
<1>2. Owes(y, p) <=> Lists(todo, p)
  BY <1>1 DEF Owes, Lists
<1> QED BY <1>2 DEF y

LEMMA StaysTyped ==
  ASSUME JobsStay, NEW u \in Tasks, TaskTyped(task[u]), task'[u] = task[u]
  PROVE  TaskTyped(task[u])'
<1>1. \A y : TaskTyped(y) => TaskTyped(y)'
  <2> SUFFICES ASSUME NEW y, TaskTyped(y) PROVE TaskTyped(y)'
    OBVIOUS
  <2>1. y.rel \subseteq (DOMAIN jobs') \X Nat /\ \A r \in y.rel : jobs'[r[1]].at = Head(y.todo)[2]
    BY DEF JobsStay, TaskTyped
  <2> QED BY <2>1 DEF TaskTyped, TodoTyped, WaiversRun, Takers
<1>2. TaskTyped(task[u])' <=> (\E y : y = task[u] /\ TaskTyped(y)')
  BY DEF TaskTyped
<1> QED BY <1>1, <1>2

\* The tasks keep their types, and what they owe.
Kept == /\ TasksTyped'
        /\ \A p : Owed(p) => Owed(p)'
        /\ \A u \in Tasks : \A w : Serving(u, w) => Serving(u, w)'

\* When one task changes, and owes no less, only what it serves may be lost.
LEMMA OneMoves ==
  ASSUME TasksTyped, JobsStay, NEW t \in Tasks, NEW y, Puts(t, y),
         TaskTyped(y)', \A p : Owes(task[t], p) => Owes(y, p)
  PROVE  /\ TasksTyped'
         /\ \A p : Owed(p) => Owed(p)'
         /\ \A p : Owes(y, p) => Owed(p)'
         /\ \A u \in Tasks \ {t} : \A w : Serving(u, w) => Serving(u, w)'
<1>1. DOMAIN task' = Tasks /\ task'[t] = y /\ \A u \in Tasks : u # t => task'[u] = task[u]
  BY PutsOne DEF TasksTyped
<1>2. ASSUME NEW u \in Tasks
      PROVE  TaskTyped(task[u])'
  <2>1. CASE u = t
    BY <1>1, <2>1 DEF TaskTyped
  <2>2. CASE u # t
    <3>1. TaskTyped(task[u])
      BY DEF TasksTyped
    <3>2. task'[u] = task[u]
      BY <1>1, <2>2
    <3> QED BY <3>1, <3>2, StaysTyped
  <2> QED BY <2>1, <2>2
<1>3. \A p : Owed(p) => Owed(p)'
  BY <1>1 DEF Owed, Owes
<1>4. \A u \in Tasks \ {t} : \A w : Serving(u, w) => Serving(u, w)'
  BY <1>1 DEF Serving, Running, At, Here
<1>5. \A p : Owes(y, p) => Owed(p)'
  BY <1>1 DEF Owed, Owes
<1> QED BY <1>1, <1>2, <1>3, <1>4, <1>5 DEF TasksTyped

\* When it was at no hand-out, nothing is.
LEMMA OneChanges ==
  ASSUME TasksTyped, JobsStay, NEW t \in Tasks, NEW y, Puts(t, y),
         TaskTyped(y)', ~Running(t, "deal"), \A p : Owes(task[t], p) => Owes(y, p)
  PROVE  Kept /\ \A p : Owes(y, p) => Owed(p)'
<1>1. \A w : ~Serving(t, w)
  BY DEF Serving
<1> QED BY <1>1, OneMoves DEF Kept

LEMMA NoneChanges ==
  ASSUME TasksTyped, JobsStay, task' = task
  PROVE  Kept
<1>1. \A u \in Tasks : TaskTyped(task[u])'
  <2> SUFFICES ASSUME NEW u \in Tasks PROVE TaskTyped(task[u])'
    OBVIOUS
  <2>1. TaskTyped(task[u])
    BY DEF TasksTyped
  <2> QED BY <2>1, StaysTyped
<1> QED BY <1>1 DEF Kept, TasksTyped, Owed, Owes, Serving, Running, At, Here

LEMMA Starts ==
  ASSUME TasksTyped, JobsStay, NEW t \in Tasks, NEW todo, TodoTyped(todo),
         NEW who \in Agents \cup {None}, Start(t, todo, who)
  PROVE  Kept /\ \A p : Lists(todo, p) => Owed(p)'
<1> DEFINE y == Doing(todo, who)
<1>1. Puts(t, y) /\ task[t] = Doing(<<>>, None)
  BY DEF Start, Puts, Idle
<1>2. TaskTyped(y)'
  BY DoingTyped DEF TaskTyped
<1>3. \A p : Owes(y, p) <=> Lists(todo, p)
  BY DoingOwes
<1>4. \A p : ~Owes(task[t], p)
  <2>1. \A p : Owes(Doing(<<>>, None), p) <=> Lists(<<>>, p)
    BY DoingOwes
  <2>2. \A p : ~Lists(<<>>, p)
    BY DEF Lists
  <2> QED BY <1>1, <2>1, <2>2
<1>5. ~Running(t, "deal")
  BY <1>1, DoingRow DEF Running
<1> HIDE DEF y
<1> QED BY <1>1, <1>2, <1>3, <1>4, <1>5, OneChanges

LEMMA RunTodo ==
  ASSUME NEW p \in Projects
  PROVE  Run(p) \in Todo /\ Run(p)[1] = "run" /\ <<"waive", p>> \in Todo /\ <<"drop", p>> \in Todo /\ <<"death", p>> \in Todo
BY DEF Run, Todo

LEMMA OneElement ==
  ASSUME NEW T, NEW x \in T
  PROVE  <<x>> \in Seq(T) /\ DOMAIN <<x>> = 1..1 /\ <<x>>[1] = x
OBVIOUS

LEMMA TwoElements ==
  ASSUME NEW T, NEW x \in T, NEW y \in T
  PROVE  <<x, y>> \in Seq(T) /\ DOMAIN <<x, y>> = 1..2 /\ <<x, y>>[1] = x /\ <<x, y>>[2] = y
OBVIOUS

LEMMA Joined ==
  ASSUME NEW T, NEW a \in Seq(T), NEW b \in Seq(T)
  PROVE  /\ a \o b \in Seq(T) /\ DOMAIN (a \o b) = 1..(Len(a) + Len(b))
         /\ \A i \in 1..Len(a) : (a \o b)[i] = a[i]
         /\ \A i \in 1..Len(b) : (a \o b)[Len(a) + i] = b[i]
OBVIOUS

LEMMA NothingTodo == TodoTyped(<<>>)
BY DEF TodoTyped, WaiversRun

LEMMA RunOnly ==
  ASSUME NEW p \in Projects
  PROVE  TodoTyped(<<Run(p)>>) /\ Lists(<<Run(p)>>, p)
<1> DEFINE s == <<Run(p)>>
<1>1. s \in Seq(Todo) /\ DOMAIN s = 1..1 /\ s[1] = Run(p)
  BY RunTodo, OneElement
<1> HIDE DEF s
<1>2. s[1][1] # "waive"
  BY <1>1, RunTodo
<1>3. TodoTyped(s) /\ Lists(s, p)
  BY <1>1, <1>2 DEF TodoTyped, WaiversRun, Lists
<1> QED BY <1>3 DEF s

LEMMA RunTwo ==
  ASSUME NEW p \in Projects, NEW q \in Projects
  PROVE  TodoTyped(<<Run(p), Run(q)>>) /\ Lists(<<Run(p), Run(q)>>, p)
<1> DEFINE s == <<Run(p), Run(q)>>
<1>1. s \in Seq(Todo) /\ DOMAIN s = 1..2 /\ s[1] = Run(p) /\ s[2] = Run(q)
  BY RunTodo, TwoElements
<1> HIDE DEF s
<1>2. s[1][1] # "waive" /\ s[2][1] # "waive"
  BY <1>1, RunTodo
<1>3. TodoTyped(s) /\ Lists(s, p)
  BY <1>1, <1>2 DEF TodoTyped, WaiversRun, Lists
<1> QED BY <1>3 DEF s

LEMMA WaiveRun ==
  ASSUME NEW p \in Projects
  PROVE  TodoTyped(<<<<"waive", p>>, Run(p)>>) /\ Lists(<<<<"waive", p>>, Run(p)>>, p)
<1> DEFINE s == <<<<"waive", p>>, Run(p)>>
<1>1. s \in Seq(Todo) /\ DOMAIN s = 1..2 /\ s[1] = <<"waive", p>> /\ s[2] = Run(p)
  BY RunTodo, TwoElements
<1> HIDE DEF s
<1>2. s[1][2] = p /\ s[2][1] # "waive"
  <2>1. s[1][2] = p
    BY <1>1
  <2> QED BY <1>1, <2>1, RunTodo
<1>3. TodoTyped(s) /\ Lists(s, p)
  <2>1. \A i \in DOMAIN s : i = 1 \/ i = 2
    BY <1>1
  <2>2. 1 \in DOMAIN s /\ 2 \in DOMAIN s /\ 2 > 1
    BY <1>1
  <2> QED BY <1>1, <1>2, <2>1, <2>2 DEF TodoTyped, WaiversRun, Lists
<1> QED BY <1>3 DEF s

LEMMA DeathOnly ==
  ASSUME NEW p \in Projects
  PROVE  TodoTyped(<<<<"death", p>>>>)
<1> DEFINE s == <<<<"death", p>>>>
<1>1. s \in Seq(Todo) /\ DOMAIN s = 1..1 /\ s[1] = <<"death", p>>
  BY RunTodo, OneElement
<1> HIDE DEF s
<1>2. TodoTyped(s)
  BY <1>1 DEF TodoTyped, WaiversRun
<1> QED BY <1>2 DEF s

LEMMA RunsListed ==
  ASSUME NEW s \in Seq(Projects)
  PROVE  /\ Runs(s) \in Seq(Todo) /\ TodoTyped(Runs(s)) /\ DOMAIN Runs(s) = DOMAIN s
         /\ \A i \in DOMAIN s : Runs(s)[i] = Run(s[i])
         /\ \A k \in DOMAIN s : Lists(Runs(s), s[k])
<1>1. Len(s) \in Nat /\ DOMAIN s = 1..Len(s) /\ \A k \in DOMAIN s : s[k] \in Projects
  BY LenProperties, ElementOfSeq
<1>2. Runs(s) = [i \in DOMAIN s |-> Run(s[i])]
  BY DEF Runs
<1> DEFINE f == Runs(s)
<1>3. f \in [1..Len(s) -> Todo] /\ \A i \in DOMAIN s : f[i] = Run(s[i]) /\ f[i][1] # "waive"
  BY <1>1, <1>2, RunTodo
<1> HIDE DEF f
<1>4. f \in Seq(Todo) /\ DOMAIN f = DOMAIN s
  BY <1>1, <1>3, FunctionSeq
<1>5. TodoTyped(f) /\ \A k \in DOMAIN s : Lists(f, s[k])
  BY <1>3, <1>4 DEF TodoTyped, WaiversRun, Lists
<1> QED BY <1>3, <1>4, <1>5 DEF f

\* what is left to do after the first thing
LEMMA NextTodo ==
  ASSUME NEW s \in Seq(Projects), NEW todo, TodoTyped(todo), todo # <<>>
  PROVE  LET z == Runs(s) \o Tail(todo) IN
         /\ TodoTyped(z)
         /\ \A k \in DOMAIN s : Lists(z, s[k])
         /\ \A i \in DOMAIN todo : \A p : i # 1 /\ todo[i] = Run(p) => Lists(z, p)
<1> DEFINE r == Runs(s)
           e == Tail(todo)
           n == Len(s)
           z == r \o e
<1>1. r \in Seq(Todo) /\ TodoTyped(r) /\ DOMAIN r = DOMAIN s /\ \A i \in DOMAIN s : r[i] = Run(s[i])
  BY RunsListed
<1>2. todo \in Seq(Todo) /\ e \in Seq(Todo) /\ Len(e) = Len(todo) - 1 /\ Len(todo) \in Nat /\ Len(todo) # 0
      /\ DOMAIN todo = 1..Len(todo) /\ DOMAIN e = 1..Len(e) /\ \A i \in 1..Len(e) : e[i] = todo[i + 1]
  BY DEF TodoTyped
<1>3. n \in Nat /\ DOMAIN r = 1..n /\ Len(r) = n
  BY <1>1, LenProperties
<1> HIDE DEF r, e, n
<1>4. /\ z \in Seq(Todo) /\ DOMAIN z = 1..(n + Len(e))
      /\ \A i \in 1..n : z[i] = r[i]
      /\ \A i \in 1..Len(e) : z[n + i] = e[i]
  <2>1. r \in Seq(Todo) /\ e \in Seq(Todo)
    BY <1>1, <1>2
  <2>2. /\ z \in Seq(Todo) /\ DOMAIN z = 1..(Len(r) + Len(e))
        /\ \A i \in 1..Len(r) : z[i] = r[i]
        /\ \A i \in 1..Len(e) : z[Len(r) + i] = e[i]
    BY <2>1, Joined
  <2>3. Len(r) = n
    BY <1>3
  <2> HIDE DEF z
  <2> QED BY <2>2, <2>3
<1> HIDE DEF z
<1>5. ASSUME NEW k \in DOMAIN s
      PROVE  Lists(z, s[k])
  <2>1. k \in 1..n /\ k \in DOMAIN z /\ z[k] = r[k] /\ r[k] = Run(s[k])
    BY <1>1, <1>2, <1>3, <1>4
  <2> QED BY <2>1 DEF Lists
<1>6. ASSUME NEW i \in DOMAIN todo, i # 1
      PROVE  n + i - 1 \in DOMAIN z /\ z[n + i - 1] = todo[i]
  <2>1. i - 1 \in 1..Len(e) /\ e[i - 1] = todo[i]
    BY <1>2, <1>6
  <2>2. n + (i - 1) = n + i - 1 /\ n + i - 1 \in 1..(n + Len(e))
    BY <1>2, <1>3, <2>1
  <2> QED BY <1>4, <2>1, <2>2
<1>7. \A i \in DOMAIN todo : \A p : i # 1 /\ todo[i] = Run(p) => Lists(z, p)
  BY <1>6 DEF Lists
<1>8. ASSUME NEW i \in DOMAIN z, z[i][1] = "waive"
      PROVE  \E k \in DOMAIN z : k > i /\ z[k] = Run(z[i][2])
  <2>1. ~(i <= n)
    <3>1. ASSUME i <= n PROVE FALSE
      <4>1. i \in DOMAIN r /\ z[i] = r[i] /\ i \in DOMAIN s
        BY <1>1, <1>3, <1>4, <3>1
      <4>2. r[i] = Run(s[i]) /\ s[i] \in Projects
        BY <1>1, <4>1
      <4> QED BY <1>8, <4>1, <4>2, RunTodo
    <3> QED BY <3>1
  <2>2. i - n + 1 \in DOMAIN todo /\ z[i] = todo[i - n + 1]
    <3>1. i - n \in 1..Len(e) /\ n + (i - n) = i
      BY <1>2, <1>3, <1>4, <2>1
    <3>2. z[i] = e[i - n] /\ e[i - n] = todo[i - n + 1]
      BY <1>2, <1>4, <3>1
    <3> QED BY <1>2, <3>1, <3>2
  <2>3. PICK k \in DOMAIN todo : k > i - n + 1 /\ todo[k] = Run(todo[i - n + 1][2])
    BY <1>8, <2>2 DEF TodoTyped, WaiversRun
  <2>4. i \in Nat /\ k \in Nat /\ k # 1 /\ n + k - 1 > i
    BY <1>2, <1>3, <1>4, <2>1, <2>3
  <2>5. n + k - 1 \in DOMAIN z /\ z[n + k - 1] = todo[k]
    BY <1>6, <2>4
  <2> QED BY <2>2, <2>3, <2>4, <2>5
<1>9. TodoTyped(z)
  BY <1>4, <1>8 DEF TodoTyped, WaiversRun
<1> QED BY <1>5, <1>7, <1>9 DEF z, r, e

\* a move drops the watchdogs of each project and runs its queue
LEMMA MoveTodo ==
  ASSUME NEW s \in Seq(Projects)
  PROVE  TodoTyped(AfterMove(s)) /\ \A k \in DOMAIN s : Lists(AfterMove(s), s[k])
<1> DEFINE n == Len(s)
           f == AfterMove(s)
           X(k) == IF k % 2 = 1 THEN <<"drop", s[(k + 1) \div 2]>> ELSE Run(s[k \div 2])
<1>1. n \in Nat /\ DOMAIN s = 1..n /\ \A k \in DOMAIN s : s[k] \in Projects
  BY LenProperties, ElementOfSeq
<1>2. f = [k \in 1..(2 * n) |-> X(k)]
  BY DEF AfterMove
<1> HIDE DEF n
<1>3. ASSUME NEW k \in 1..(2 * n)
      PROVE  X(k) \in Todo /\ X(k)[1] # "waive"
  <2>1. CASE k % 2 = 1
    <3>1. (k + 1) \div 2 \in 1..n
      BY <1>1, <2>1
    <3>2. X(k) = <<"drop", s[(k + 1) \div 2]>> /\ s[(k + 1) \div 2] \in Projects
      BY <1>1, <2>1, <3>1
    <3>3. X(k)[1] = "drop"
      BY <3>2
    <3> QED BY <3>2, <3>3, RunTodo
  <2>2. CASE k % 2 # 1
    <3>1. k \div 2 \in 1..n
      BY <1>1, <2>2
    <3>2. X(k) = Run(s[k \div 2]) /\ s[k \div 2] \in Projects
      BY <1>1, <2>2, <3>1
    <3> QED BY <3>2, RunTodo
  <2> QED BY <2>1, <2>2
<1>4. ASSUME NEW k \in DOMAIN s
      PROVE  2 * k \in 1..(2 * n) /\ X(2 * k) = Run(s[k])
  <2>1. (2 * k) % 2 # 1 /\ (2 * k) \div 2 = k /\ 2 * k \in 1..(2 * n)
    BY <1>1
  <2> QED BY <2>1
<1> HIDE DEF X
<1>5. f \in [1..(2 * n) -> Todo] /\ 2 * n \in Nat
  BY <1>1, <1>2, <1>3
<1>6. f \in Seq(Todo) /\ DOMAIN f = 1..(2 * n)
  BY <1>5, FunctionSeq
<1>7. \A i \in DOMAIN f : f[i][1] # "waive"
  BY <1>2, <1>3, <1>6
<1>8. \A k \in DOMAIN s : 2 * k \in DOMAIN f /\ f[2 * k] = Run(s[k])
  BY <1>2, <1>4, <1>6
<1> HIDE DEF f
<1>9. TodoTyped(f) /\ \A k \in DOMAIN s : Lists(f, s[k])
  BY <1>6, <1>7, <1>8 DEF TodoTyped, WaiversRun, Lists
<1> QED BY <1>9 DEF f

LEMMA StartsAll ==
  ASSUME TasksTyped, JobsStay, NEW t \in Tasks, NEW S \in SUBSET Projects,
         IsFiniteSet(S), StartAll(t, S)
  PROVE  Kept /\ \A p \in S : Owed(p)'
<1>1. PICK s \in SetToSeqs(S) : Start(t, Runs(s), None)
  BY DEF StartAll
<1>2. s \in Seq(S) /\ \A p \in S : \E k \in DOMAIN s : s[k] = p
  BY Listing
<1>3. s \in Seq(Projects)
  BY <1>2
<1>4. TodoTyped(Runs(s)) /\ \A p \in S : Lists(Runs(s), p)
  BY <1>2, <1>3, RunsListed
<1> QED BY <1>1, <1>4, Starts

\* a task goes on to its next thing to do
LEMMA Goes ==
  ASSUME TasksTyped, JobsStay, NEW t \in Tasks, NEW S \in SUBSET Projects,
         IsFiniteSet(S), Done(t, S), task[t].todo # <<>>
  PROVE  \E y :
           /\ Puts(t, y) /\ TaskTyped(y)' /\ y.at = "release"
           /\ \A p \in S : Owes(y, p)
           /\ \A i \in DOMAIN task[t].todo : \A p : i # 1 /\ task[t].todo[i] = Run(p) => Owes(y, p)
<1> DEFINE s == InOrder(S)
           todo == task[t].todo
           z == Runs(s) \o Tail(todo)
<1>1. TodoTyped(todo) /\ task[t].who \in Agents \cup {None}
  BY DEF TasksTyped, TaskTyped
<1>2. S \in SUBSET Nat
  BY ProjectsAssumption
<1>3. s \in Seq(S) /\ \A n \in S : \E k \in DOMAIN s : s[k] = n
  BY <1>2, Ordered
<1>4. s \in Seq(Projects)
  BY <1>3
<1> HIDE DEF s
<1>5. /\ TodoTyped(z)
      /\ \A k \in DOMAIN s : Lists(z, s[k])
      /\ \A i \in DOMAIN todo : \A p : i # 1 /\ todo[i] = Run(p) => Lists(z, p)
  BY <1>1, <1>4, NextTodo
<1>6. Puts(t, Doing(z, task[t].who))
  BY DEF Done, Puts, s
<1> HIDE DEF z
<1>7. \A x : \A who \in Agents \cup {None} : TodoTyped(x) => TaskTyped(Doing(x, who))'
  <2> SUFFICES ASSUME NEW x, NEW who \in Agents \cup {None}, TodoTyped(x)
               PROVE  TaskTyped(Doing(x, who))'
    OBVIOUS
  <2> QED BY DoingTyped
<1>8. PICK x, who, y : x = z /\ who = task[t].who /\ y = Doing(x, who)
  OBVIOUS
<1>9. TaskTyped(y)' /\ y.at = "release"
  BY <1>1, <1>5, <1>7, <1>8, DoingRow
<1>10. \A p : Owes(y, p) <=> Lists(z, p)
  BY <1>8, DoingOwes
<1> QED BY <1>3, <1>5, <1>6, <1>8, <1>9, <1>10 DEF s

-----------------------------------------------------------------------------
(* Where listeners may begin to idle. *)

\* Jobs begin to wait, or leave their holders, in the projects of P only.
JobsIn(P) ==
  /\ \A i \in DOMAIN jobs : jobs[i].st = "held" /\ jobs[i].at \notin P =>
       jobs'[i].st = "held" /\ jobs'[i].by = jobs[i].by
  /\ \A i \in DOMAIN jobs' : jobs'[i].st = "waiting" /\ jobs'[i].at \notin P /\ jobs'[i].avoid \cap Projects = {} =>
       i \in DOMAIN jobs /\ jobs[i].st = "waiting" /\ jobs[i].avoid \cap Projects = {}

\* Agents begin to listen, or to be fit, in the projects of P only, and no other mode
\* changes; elsewhere a thawed agent is fit already, or unrun.
ListenIn(P) ==
  /\ \A p \in Projects \ P : p \in acking' <=> p \in acking
  /\ \A w \in Listeners : w[1] \in Agents /\ w[2] \notin P =>
       /\ dog'[w] = "armed" => dog[w] = "armed"
       /\ w[1] \in away => w[1] \in away'
       /\ w[1] \in halted => w[1] \in halted' \/ w \in unrun' \/ w[2] \notin acking
       /\ w \in unrun => w \in unrun'

LEMMA JobsSame == ASSUME jobs' = jobs, NEW P PROVE JobsIn(P) /\ JobsStay
BY DEF JobsIn, JobsStay

LEMMA ListenSame == ASSUME acking' = acking, dog' = dog, halted' = halted, away' = away, unrun' = unrun, NEW P PROVE ListenIn(P)
BY DEF ListenIn

LEMMA MovedStays == ASSUME Moved PROVE JobsStay
BY DEF Moved, JobsStay

\* No agent begins to idle elsewhere.
LEMMA IdlesIn ==
  ASSUME jobs' \in Seq(Rows), JobsStay, NEW P, JobsIn(P), ListenIn(P), NEW w \in Listeners, w[2] \notin P, Idles(w)'
  PROVE  Idles(w)
<1>1. w[1] \in Agents /\ w[2] \in Projects /\ ~Relay(w)
  BY ListenersAssumption, OwnersAssumption DEF Idles, Relay
<1>2. dog[w] = "armed" /\ Fit(w) /\ w \notin unrun
  BY <1>1 DEF Idles, Fit, ListenIn
<1>3. HeldBy(w) \subseteq HeldBy(w)'
  BY DEF HeldBy, InState, JobsIn, JobsStay
<1>4. /\ IsFiniteSet(HeldBy(w)') /\ Cardinality(HeldBy(w)') \in Nat
      /\ Cardinality(HeldBy(w)) \in Nat /\ Cardinality(HeldBy(w)) <= Cardinality(HeldBy(w)')
  <2>1. IsFiniteSet(DOMAIN jobs')
    <3>1. DOMAIN jobs' = 1..Len(jobs') /\ Len(jobs') \in Nat
      BY LenProperties
    <3> QED BY <3>1, FS_Interval
  <2>2. HeldBy(w)' \subseteq DOMAIN jobs'
    BY DEF HeldBy, InState
  <2>3. IsFiniteSet(HeldBy(w)')
    BY <2>1, <2>2, FS_Subset
  <2> QED BY <1>3, <2>3, FS_Subset, FS_CardinalityType
<1>5. Batch[w] \in Nat
  <2>1. Batch \in [Listeners -> 1..20]
    BY ListenersAssumption
  <2>2. Batch[w] \in 1..20
    BY <2>1
  <2> QED BY <2>2
<1>6. w[2] \in acking' <=> w[2] \in acking
  BY <1>1 DEF ListenIn
<1>7. Room(w) > 0
  <2>1. CASE w[2] \in acking
    <3>1. Used(w) = Cardinality(HeldBy(w)) /\ Used(w)' = Cardinality(HeldBy(w)')
      BY <1>1, <1>6, <2>1 DEF Used, Relay
    <3>2. Room(w)' > 0
      BY DEF Idles
    <3>3. Used(w)' < Batch[w]
      BY <1>4, <1>5, <3>1, <3>2 DEF Room
    <3>4. Used(w) < Batch[w]
      BY <1>4, <1>5, <3>1, <3>3
    <3> QED BY <1>4, <1>5, <3>1, <3>4 DEF Room
  <2>2. CASE w[2] \notin acking
    <3>1. Used(w) = 0 /\ Used(w)' = 0
      BY <1>1, <1>6, <2>2 DEF Used, Relay
    <3>2. Room(w)' = Room(w)
      BY <3>1 DEF Room
    <3> QED BY <3>2 DEF Idles
  <2> QED BY <2>1, <2>2
<1>8. \E j \in Waits(w[2]) : jobs[j].avoid \cap Projects = {}
  <2>1. PICK j \in Waits(w[2])' : jobs'[j].avoid \cap Projects = {}
    BY DEF Idles
  <2>2. j \in DOMAIN jobs' /\ jobs'[j].st = "waiting" /\ jobs'[j].at = w[2]
    BY DEF Waits, InState
  <2>3. j \in DOMAIN jobs /\ jobs[j].st = "waiting" /\ jobs[j].avoid \cap Projects = {}
    BY <2>1, <2>2 DEF JobsIn
  <2>4. jobs[j].at = w[2]
    BY <2>2, <2>3 DEF JobsStay
  <2> QED BY <2>3, <2>4 DEF Waits, InState
<1> QED BY <1>1, <1>2, <1>7, <1>8 DEF Idles

\* A step that keeps what is owed, and has the queues run where it may make somebody idle.
LEMMA Wakes ==
  ASSUME RunsOwed, Kept, jobs' \in Seq(Rows), JobsStay, NEW P, JobsIn(P), ListenIn(P), \A p \in P : Owed(p)'
  PROVE  RunsOwed'
<1> SUFFICES ASSUME NEW w \in Listeners, Idles(w)'
             PROVE  Owed(w[2])' \/ \E t \in Tasks : Serving(t, w)'
  BY DEF RunsOwed
<1>1. CASE w[2] \in P
  BY <1>1
<1>2. CASE w[2] \notin P
  <2>1. Idles(w)
    BY <1>2, IdlesIn
  <2> QED BY <2>1 DEF RunsOwed, Kept
<1> QED BY <1>1, <1>2

(* What becomes of the jobs. *)

\* Jobs given back begin to wait where they are.
LEMMA GivenBackIn ==
  ASSUME IInv, NEW S \in SUBSET (DOMAIN jobs), \A i \in S : jobs[i].st = "held",
         NEW P, \A i \in S : jobs[i].at \in P, DOMAIN jobs' = DOMAIN jobs,
         \A i \in DOMAIN jobs \ S : jobs'[i] = GaveBack(S)[i],
         \A i \in S : jobs'[i].at = jobs[i].at
  PROVE  JobsIn(P)
<1>1. \A i \in DOMAIN jobs : jobs[i] \in Rows
  BY JobsShape
<1>2. \A i \in Dead(S) : i \in DOMAIN jobs /\ (i \in S \/ jobs[i].st \in {"relayed", "passed"})
  BY DeadFacts
<1>3. \A i \in DOMAIN jobs \ S : i \in Dead(S) => jobs'[i].st = "dead" /\ jobs[i].st # "held"
  <2> SUFFICES ASSUME NEW i \in DOMAIN jobs \ S, i \in Dead(S)
               PROVE  jobs'[i].st = "dead" /\ jobs[i].st # "held"
    OBVIOUS
  <2>1. jobs'[i] = [jobs[i] EXCEPT !.st = "dead", !.by = None, !.wakes = 0]
    BY DEF GaveBack
  <2> QED BY <1>1, <1>2, <2>1 DEF Rows
<1>4. \A i \in DOMAIN jobs \ S : i \notin Dead(S) => jobs'[i] = jobs[i]
  BY DEF GaveBack
<1>5. ASSUME NEW i \in DOMAIN jobs, jobs[i].st = "held", jobs[i].at \notin P
      PROVE  jobs'[i].st = "held" /\ jobs'[i].by = jobs[i].by
  BY <1>3, <1>4, <1>5
<1>6. ASSUME NEW i \in DOMAIN jobs', jobs'[i].st = "waiting", jobs'[i].at \notin P, jobs'[i].avoid \cap Projects = {}
      PROVE  i \in DOMAIN jobs /\ jobs[i].st = "waiting" /\ jobs[i].avoid \cap Projects = {}
  BY <1>3, <1>4, <1>6
<1> QED BY <1>5, <1>6 DEF JobsIn

LEMMA GaveBackIn ==
  ASSUME IInv, NEW S \in SUBSET (DOMAIN jobs), \A i \in S : jobs[i].st = "held",
         NEW P, \A i \in S : jobs[i].at \in P, jobs' = GaveBack(S)
  PROVE  JobsIn(P) /\ JobsStay
<1>1. Moved
  BY GaveBackStep
<1>2. DOMAIN jobs' = DOMAIN jobs /\ \A i \in DOMAIN jobs : jobs'[i].at = jobs[i].at
  BY <1>1 DEF Moved
<1> QED BY <1>2, GivenBackIn DEF JobsStay

LEMMA RestatedIn ==
  ASSUME IInv, NEW S \in SUBSET (DOMAIN jobs), NEW st \in JobStates \ {"waiting"},
         jobs' = [i \in DOMAIN jobs |-> IF i \in S THEN [jobs[i] EXCEPT !.st = st] ELSE jobs[i]],
         NEW P, \A i \in S : jobs[i].st = "held" => jobs[i].at \in P
  PROVE  JobsIn(P) /\ JobsStay
<1>1. \A i \in DOMAIN jobs : jobs[i] \in Rows
  BY JobsShape
<1>2. \A i \in DOMAIN jobs : IF i \in S THEN jobs'[i].st = st /\ jobs'[i].at = jobs[i].at ELSE jobs'[i] = jobs[i]
  BY <1>1 DEF Rows
<1> QED BY <1>2 DEF JobsIn, JobsStay

LEMMA AckedIn ==
  ASSUME IInv, NEW j \in DOMAIN jobs, jobs' = Acked(j)
  PROVE  JobsIn({jobs[j].at}) /\ JobsStay
<1> DEFINE S == Above(j, {"relayed"}) \cup {j}
<1>1. \A i \in Above(j, {"relayed"}) : i \in DOMAIN jobs /\ jobs[i].st = "relayed"
  BY AboveReached
<1>2. S \in SUBSET (DOMAIN jobs) /\ \A i \in S : jobs[i].st = "held" => jobs[i].at \in {jobs[j].at}
  BY <1>1
<1>3. jobs' = [i \in DOMAIN jobs |-> IF i \in S THEN [jobs[i] EXCEPT !.st = "acked"] ELSE jobs[i]]
  BY DEF Acked
<1>4. "acked" \in JobStates \ {"waiting"}
  BY DEF JobStates
<1> HIDE DEF S
<1> QED BY <1>2, <1>3, <1>4, RestatedIn

LEMMA TakenBackIn ==
  ASSUME IInv, NEW j \in DOMAIN jobs, RelayTakeBack(j)
  PROVE  JobsIn({}) /\ JobsStay
<1>1. \A i \in DOMAIN jobs : jobs[i] \in Rows
  BY JobsShape
<1>2. /\ jobs[j].st = "relayed"
      /\ jobs' = [i \in DOMAIN jobs |->
                    IF i = j THEN [jobs[i] EXCEPT !.st = "waiting", !.by = None, !.wakes = 0,
                                                  !.child = 0, !.avoid = @ \cup {jobs[i].by}]
                    ELSE IF i \in Below(j) THEN Withdrawn(i) ELSE jobs[i]]
  BY DEF RelayTakeBack
<1>3. jobs[j].by \in Projects
  BY <1>2 DEF IInv, HoldersKnown
<1>4. jobs'[j].avoid = jobs[j].avoid \cup {jobs[j].by}
  BY <1>1, <1>2 DEF Rows
<1>5. jobs'[j].avoid \cap Projects # {}
  BY <1>3, <1>4
<1>6. \A i \in DOMAIN jobs : jobs[i].st = "held" => jobs[i].by \notin Projects
  BY DEF IInv, HoldersKnown
<1>7. ASSUME NEW i \in DOMAIN jobs, i # j
      PROVE  \/ jobs'[i] = jobs[i]
             \/ jobs'[i].st = "withdrawn" /\ jobs[i].st # "held"
             \/ jobs'[i].st = jobs[i].st /\ jobs'[i].by = jobs[i].by /\ jobs'[i].avoid = jobs[i].avoid
  <2>1. jobs'[i] = jobs[i] \/ jobs'[i] = Withdrawn(i)
    BY <1>2, <1>7
  <2>2. \/ Withdrawn(i).st = "withdrawn" /\ jobs[i].st # "held"
        \/ Withdrawn(i).st = jobs[i].st /\ Withdrawn(i).by = jobs[i].by /\ Withdrawn(i).avoid = jobs[i].avoid
    BY <1>1, <1>6 DEF Withdrawn, Rows
  <2> QED BY <2>1, <2>2
<1>8. Moved
  BY RelayTakeBackMoves
<1> QED BY <1>2, <1>5, <1>7, <1>8, MovedStays DEF JobsIn, Moved

LEMMA SentIn ==
  ASSUME IInv, NEW p \in Projects, jobs' = Append(jobs, NewJob(p, 0))
  PROVE  JobsIn({p}) /\ JobsStay
<1> DEFINE n == Len(jobs)
<1>1. n \in Nat /\ DOMAIN jobs = 1..n /\ jobs \in Seq(Rows)
  BY JobsShape
<1>2. NewJob(p, 0) \in Rows /\ NewJob(p, 0).at = p
  BY DEF NewJob, Rows, JobStates
<1>3. DOMAIN jobs' = 1..(n + 1) /\ (\A i \in DOMAIN jobs : jobs'[i] = jobs[i]) /\ jobs'[n + 1] = NewJob(p, 0)
  BY <1>1, <1>2, AppendProperties
<1>4. \A i \in DOMAIN jobs' : i \in DOMAIN jobs \/ jobs'[i].at = p
  BY <1>1, <1>2, <1>3
<1> QED BY <1>1, <1>3, <1>4 DEF JobsIn, JobsStay

LEMMA HandedOutIn ==
  ASSUME IInv, NEW p, NEW room, NEW given, HandOut(p, room, given)
  PROVE  JobsIn({p} \cup {given[j][1] : j \in ToRelays(given)}) /\ JobsStay
<1> DEFINE n == Len(jobs)
           m == Cardinality(ToRelays(given))
           P == {p} \cup {given[j][1] : j \in ToRelays(given)}
<1>1. n \in Nat /\ DOMAIN jobs = 1..n /\ m \in Nat /\ DOMAIN jobs' = 1..(n + m)
      /\ \A k \in (n + 1)..(n + m) : \E j \in ToRelays(given) : ChildOf(given, j) = k
  BY JobsShape, HandOutFacts, Children
<1>2. \A j \in ToRelays(given) : jobs'[ChildOf(given, j)].at \in P
  <2>1. \A q, j : NewJob(q, j).at = q
    BY DEF NewJob
  <2>2. \A j \in ToRelays(given) : jobs'[ChildOf(given, j)] = NewJob(given[j][1], j)
    BY HandOutFacts
  <2> QED BY <2>1, <2>2
<1>3. \A i \in DOMAIN jobs' : i \in DOMAIN jobs \/ jobs'[i].at \in P
  <2> SUFFICES ASSUME NEW i \in DOMAIN jobs', i \notin DOMAIN jobs PROVE jobs'[i].at \in P
    OBVIOUS
  <2>1. i \in (n + 1)..(n + m)
    BY <1>1
  <2> QED BY <1>1, <1>2, <2>1
<1>4. \A i \in Dealt(given) : i \in DOMAIN jobs /\ jobs[i].at = p /\ jobs'[i].at = p
  BY DealtTo, HandOutFacts
<1>5. \A i \in DOMAIN jobs \ Dealt(given) :
        /\ jobs'[i].at = jobs[i].at
        /\ \/ jobs'[i] = jobs[i]
           \/ jobs'[i].st = "acked" /\ jobs[i].st = "relayed"
  <2>1. \A i \in Settling(p, given) : jobs[i].st = "relayed"
    BY SettlingFacts
  <2> QED BY <2>1, HandOutFacts
<1> HIDE DEF P
<1>6. p \in P
  BY DEF P
<1>7. JobsIn(P)
  BY <1>3, <1>4, <1>5, <1>6 DEF JobsIn
<1>8. JobsStay
  BY <1>1, <1>4, <1>5 DEF JobsStay
<1> QED BY <1>7, <1>8 DEF P

-----------------------------------------------------------------------------
(* The turns of the listeners. *)

LEMMA PlacesTyped ==
  ASSUME SharedTypes, NEW w \in Listeners, NEW s \in Places(w)
  PROVE  s \in Seq(Listeners)
<1> DEFINE rest == Without(turns[w[2]], {w})
<1>1. turns[w[2]] \in Seq(Listeners)
  BY ListenersAssumption DEF SharedTypes
<1>2. rest \in Seq(Listeners)
  BY <1>1, WithoutSeq
<1> HIDE DEF rest
<1>3. CASE w[1] = User
  <2>1. PICK i \in 1..(Len(rest) + 1) : s = InsertAt(rest, i, w)
    BY <1>3 DEF Places, rest
  <2> DEFINE a == SubSeq(rest, 1, i - 1)
             b == SubSeq(rest, i, Len(rest))
  <2>2. Len(rest) \in Nat /\ i \in Nat
    BY <1>2, LenProperties
  <2>3. a \in Seq(Listeners) /\ b \in Seq(Listeners) /\ <<w>> \in Seq(Listeners)
    BY <1>2, <2>2
  <2>4. s = a \o <<w>> \o b
    BY <2>1 DEF InsertAt
  <2> HIDE DEF a, b
  <2>5. a \o <<w>> \in Seq(Listeners)
    BY <2>3, Joined
  <2>6. (a \o <<w>>) \o b \in Seq(Listeners)
    BY <2>3, <2>5, Joined
  <2> QED BY <2>4, <2>6
<1>4. CASE w[1] # User
  BY <1>1, <1>4 DEF Places
<1> QED BY <1>3, <1>4

LEMMA ServedTyped ==
  ASSUME IInv, SharedTypes, NEW p \in Projects, NEW room, NEW given, HandOut(p, room, given)
  PROVE  Served(p, given) \in Seq(Listeners)
<1> DEFINE L == {j \in Dealt(given) : \A i \in Dealt(given) : given[i] = given[j] => i <= j}
           last == InOrder(L)
           rest == Without(turns[p], {given[j] : j \in Dealt(given)})
           back == [k \in DOMAIN last |-> given[last[k]]]
<1>1. L \in SUBSET (1..Len(jobs)) /\ Len(jobs) \in Nat /\ \A j \in L : given[j] \in Listeners
  BY DealtTo, JobsShape
<1>2. L \in SUBSET Nat /\ IsFiniteSet(L)
  BY <1>1, PlacesFinite
<1> HIDE DEF L
<1>3. last \in Seq(L) /\ DOMAIN last = 1..Len(last) /\ Len(last) \in Nat
  BY <1>2, Ordered, LenProperties
<1>4. \A k \in DOMAIN last : last[k] \in L
  BY <1>3, ElementOfSeq
<1>5. rest \in Seq(Listeners)
  BY WithoutSeq DEF SharedTypes
<1> HIDE DEF rest, last
<1>6. back \in [1..Len(last) -> Listeners]
  BY <1>1, <1>3, <1>4
<1>7. back \in Seq(Listeners)
  BY <1>3, <1>6, FunctionSeq
<1>8. Served(p, given) = rest \o back
  BY DEF Served, rest, last, L
<1> HIDE DEF back
<1> QED BY <1>5, <1>7, <1>8, Joined

-----------------------------------------------------------------------------
(* The steps that start a task, or none. *)

\* what each step keeps besides the inductive invariant of the jobs
Types == ParentsKnown /\ SharedTypes /\ TasksTyped

\* the places of a step that neither fires a watchdog nor moves one
QuietTypes == acking' = acking /\ dog' = dog /\ turns' = turns /\ halted' = halted /\ away' = away
              /\ unrun' = unrun

LEMMA SharedKept ==
  ASSUME SharedTypes, QuietTypes, acts' = acts \/ Act
  PROVE  SharedTypes' /\ \A P : ListenIn(P)
<1>1. acts' \in 0..MaxActs
  BY NumbersAssumption DEF SharedTypes, Act
<1> QED BY <1>1 DEF SharedTypes, QuietTypes, ListenIn

\* rows rewritten in place keep their parents
LEMMA ParentsStay == ASSUME ParentsKnown, Moved PROVE ParentsKnown'
BY DEF ParentsKnown, Moved

LEMMA AtKnown == ASSUME IInv, NEW j \in DOMAIN jobs PROVE jobs[j].at \in Projects
BY JobsShape DEF Rows

\* A step that rewrites jobs of P in place and has their queues run.
LEMMA JobWakes ==
  ASSUME TInv, RunsOwed, Moved, QuietTypes, acts' = acts \/ Act, Kept, NEW P, JobsIn(P), \A p \in P : Owed(p)'
  PROVE  Types' /\ RunsOwed'
<1>1. JobsStay /\ ParentsKnown'
  BY MovedStays, ParentsStay DEF TInv
<1>2. SharedTypes' /\ ListenIn(P)
  BY SharedKept DEF TInv
<1> QED BY <1>1, <1>2, Wakes DEF Types, Kept, Moved

LEMMA StartsRun ==
  ASSUME TasksTyped, JobsStay, NEW t \in Tasks, NEW p \in Projects, Start(t, <<Run(p)>>, None)
  PROVE  Kept /\ Owed(p)'
BY RunOnly, Starts

LEMMA JobWakesRun ==
  ASSUME TInv, RunsOwed, Moved, QuietTypes, acts' = acts \/ Act,
         NEW t \in Tasks, NEW p \in Projects, JobsIn({p}), Start(t, <<Run(p)>>, None)
  PROVE  Types' /\ RunsOwed'
<1>1. Kept /\ Owed(p)'
  BY MovedStays, StartsRun DEF TInv
<1> QED BY <1>1, JobWakes

LEMMA PairJoined ==
  ASSUME NEW x, NEW y
  PROVE  <<x>> \o <<y>> = <<x, y>> /\ <<x>> \o <<>> = <<x>>
<1> DEFINE T == {x, y}
           a == <<x>>
           b == <<y>>
<1>1. a \in Seq(T) /\ b \in Seq(T) /\ Len(a) = 1 /\ Len(b) = 1 /\ a[1] = x /\ b[1] = y
  OBVIOUS
<1>2. a \o <<>> = a
  <2> HIDE DEF a
  <2> QED BY <1>1
<1>3. a \o b = <<x, y>>
  <2>1. a \o b \in Seq(T) /\ Len(a \o b) = 2 /\ (a \o b)[1] = x /\ (a \o b)[2] = y
    <3> HIDE DEF a, b, T
    <3>1. a \o b \in Seq(T) /\ Len(a \o b) = Len(a) + Len(b)
      BY <1>1, ConcatProperties
    <3>2. (a \o b)[1] = a[1] /\ (a \o b)[Len(a) + 1] = b[1]
      <4>1. 1 \in 1..Len(a) /\ 1 \in 1..Len(b)
        BY <1>1
      <4> QED BY <1>1, <4>1, Joined
    <3> QED BY <1>1, <3>1, <3>2
  <2>2. <<x, y>> \in Seq(T) /\ Len(<<x, y>>) = 2 /\ <<x, y>>[1] = x /\ <<x, y>>[2] = y
    OBVIOUS
  <2> DEFINE c == a \o b
             d == <<x, y>>
  <2> HIDE DEF c, d, T, a, b
  <2>3. c \in Seq(T) /\ d \in Seq(T) /\ Len(c) = 2 /\ Len(d) = 2 /\ c[1] = d[1] /\ c[2] = d[2]
    BY <2>1, <2>2 DEF c, d
  <2>4. c = d
    BY <2>3
  <2> QED BY <2>4 DEF c, d
<1> QED BY <1>2, <1>3

\* A step that rewrites jobs of p in place and starts a task that runs its queue.
LEMMA JobWakesList ==
  ASSUME TInv, RunsOwed, Moved, QuietTypes, acts' = acts \/ Act,
         NEW t \in Tasks, NEW p \in Projects, JobsIn({p}),
         NEW todo, TodoTyped(todo), Lists(todo, p), Start(t, todo, None)
  PROVE  Types' /\ RunsOwed'
<1>1. Kept /\ Owed(p)'
  BY MovedStays, Starts DEF TInv
<1> QED BY <1>1, JobWakes

LEMMA AckWakes ==
  ASSUME WakeInv, NEW t \in Tasks, NEW j \in DOMAIN jobs, Ack(t, j)
  PROVE  Types' /\ RunsOwed'
<1>1. IInv /\ TasksTyped /\ ParentsKnown /\ TInv /\ RunsOwed
  BY DEF WakeInv, TInv
<1>2. jobs' = Acked(j) /\ Start(t, AckRuns(j), None) /\ QuietTypes /\ acts' = acts /\ jobs[j].st = "held"
  BY DEF Ack, QuietTypes
<1>3. Moved
  BY <1>1, <1>2, AckMoves
<1>4. PICK p, f : p = jobs[j].at /\ f = jobs[j].parent
  OBVIOUS
<1>5. JobsIn({p})
  BY <1>1, <1>2, <1>4, AckedIn
<1>6. p \in Projects /\ (f # 0 => jobs[f].at \in Projects)
  BY <1>1, <1>4, AtKnown DEF ParentsKnown
<1>7. TodoTyped(AckRuns(j)) /\ Lists(AckRuns(j), p)
  <2>1. CASE f = 0
    <3>1. AckRuns(j) = <<Run(p)>>
      BY <1>4, <2>1, PairJoined DEF AckRuns
    <3> QED BY <1>6, <3>1, RunOnly
  <2>2. CASE f # 0
    <3>1. AckRuns(j) = <<Run(p), Run(jobs[f].at)>>
      BY <1>4, <2>2, PairJoined DEF AckRuns
    <3> QED BY <1>6, <2>2, <3>1, RunTwo
  <2> QED BY <2>1, <2>2
<1>8. PICK todo : todo = AckRuns(j)
  OBVIOUS
<1> QED BY <1>1, <1>2, <1>3, <1>5, <1>6, <1>7, <1>8, JobWakesList

LEMMA JobWakesStep ==
  ASSUME WakeInv, NEW t \in Tasks, NEW j \in DOMAIN jobs, Job(t, j)
  PROVE  Types' /\ RunsOwed'
<1>1. IInv /\ TInv /\ RunsOwed
  BY DEF WakeInv, TInv
<1>2. \A i \in DOMAIN jobs : jobs[i] \in Rows
  BY <1>1, JobsShape
<1>3. PICK p : p = jobs[j].at
  OBVIOUS
<1>4. p \in Projects
  BY <1>1, <1>3, AtKnown
<1>5. Moved
  BY <1>1, JobMoves
<1>6. CASE Ack(t, j)
  BY <1>6, AckWakes
<1>7. CASE UserAck(t, j)
  <2>1. jobs' = [jobs EXCEPT ![j].st = "acked"] /\ Start(t, <<Run(p)>>, None) /\ QuietTypes /\ acts' = acts
    BY <1>3, <1>7 DEF UserAck, QuietTypes
  <2>2. JobsIn({p})
    BY <1>2, <1>3, <2>1 DEF JobsIn, Rows
  <2> QED BY <1>1, <1>4, <1>5, <2>1, <2>2, JobWakesRun
<1>8. CASE TimeOut(t, j)
  <2>1. jobs' = GaveBack({j}) /\ Start(t, <<Run(p)>>, None) /\ QuietTypes /\ acts' = acts /\ jobs[j].st = "held"
    BY <1>3, <1>8 DEF TimeOut, QuietTypes
  <2>2. {j} \in SUBSET (DOMAIN jobs) /\ (\A i \in {j} : jobs[i].st = "held") /\ \A i \in {j} : jobs[i].at \in {p}
    BY <1>3, <2>1
  <2>3. JobsIn({p})
    BY <1>1, <2>1, <2>2, GaveBackIn
  <2> QED BY <1>1, <1>4, <1>5, <2>1, <2>3, JobWakesRun
<1>9. CASE TakeBack(t, j)
  <2>1. /\ jobs' = [GaveBack({j}) EXCEPT ![j].avoid = @ \cup {jobs[j].by}]
        /\ Start(t, <<Run(p)>>, None) /\ QuietTypes /\ Act /\ jobs[j].st = "held"
    BY <1>3, <1>9 DEF TakeBack, QuietTypes
  <2>2. {j} \in SUBSET (DOMAIN jobs) /\ (\A i \in {j} : jobs[i].st = "held") /\ \A i \in {j} : jobs[i].at \in {p}
    BY <1>3, <2>1
  <2>3. \A i \in DOMAIN jobs \ {j} : jobs'[i] = GaveBack({j})[i]
    <3>1. DOMAIN GaveBack({j}) = DOMAIN jobs
      BY DEF GaveBack
    <3> QED BY <2>1, <3>1
  <2>4. DOMAIN jobs' = DOMAIN jobs /\ \A i \in {j} : jobs'[i].at = jobs[i].at
    BY <1>5 DEF Moved
  <2>5. JobsIn({p})
    BY <1>1, <2>2, <2>3, <2>4, GivenBackIn
  <2> QED BY <1>1, <1>4, <1>5, <2>1, <2>5, JobWakesRun
<1>10. CASE Retry(t, j)
  <2>1. /\ jobs' = [jobs EXCEPT ![j].st = "waiting", ![j].base = jobs[j].hands, ![j].retried = TRUE]
        /\ Start(t, <<Run(p)>>, None) /\ QuietTypes /\ Act /\ jobs[j].st = "dead"
    BY <1>3, <1>10 DEF Retry, QuietTypes
  <2>2. \A i \in DOMAIN jobs \ {j} : jobs'[i] = jobs[i]
    BY <2>1
  <2>3. DOMAIN jobs' = DOMAIN jobs /\ jobs'[j].at = p
    BY <1>3, <1>5 DEF Moved
  <2>4. JobsIn({p})
    BY <1>3, <2>1, <2>2, <2>3 DEF JobsIn
  <2> QED BY <1>1, <1>4, <1>5, <2>1, <2>4, JobWakesRun
<1> QED BY <1>6, <1>7, <1>8, <1>9, <1>10 DEF Job

\* Steps that start no task: nobody begins to idle.
LEMMA JobRests ==
  ASSUME WakeInv, Moved, QuietTypes, acts' = acts \/ Act, task' = task, JobsIn({})
  PROVE  Types' /\ RunsOwed'
<1>1. Kept
  BY MovedStays, NoneChanges DEF WakeInv, TInv
<1> QED BY <1>1, JobWakes DEF WakeInv

LEMMA RemindWakes ==
  ASSUME WakeInv, NEW j \in DOMAIN jobs, Remind(j)
  PROVE  Types' /\ RunsOwed'
<1>1. IInv
  BY DEF WakeInv, TInv
<1>2. Moved
  BY <1>1, RemindMoves
<1>3. QuietTypes /\ acts' = acts /\ task' = task /\ jobs' = [jobs EXCEPT ![j].wakes = @ + 1]
  BY DEF Remind, QuietTypes
<1>4. \A i \in DOMAIN jobs : jobs[i] \in Rows
  BY <1>1, JobsShape
<1>5. \A i \in DOMAIN jobs : jobs'[i].st = jobs[i].st /\ jobs'[i].by = jobs[i].by /\ jobs'[i].avoid = jobs[i].avoid
  BY <1>3, <1>4 DEF Rows
<1>6. JobsIn({})
  BY <1>2, <1>5 DEF Moved, JobsIn
<1> QED BY <1>2, <1>3, <1>6, JobRests

LEMMA RelayTakeBackWakes ==
  ASSUME WakeInv, NEW j \in DOMAIN jobs, RelayTakeBack(j)
  PROVE  Types' /\ RunsOwed'
<1>1. IInv
  BY DEF WakeInv, TInv
<1>2. Moved /\ JobsIn({})
  BY <1>1, RelayTakeBackMoves, TakenBackIn
<1>3. QuietTypes /\ Act /\ task' = task
  BY Zenon DEF RelayTakeBack, QuietTypes
<1> QED BY <1>2, <1>3, JobRests

LEMMA DropLetterWakes ==
  ASSUME WakeInv, NEW j \in DOMAIN jobs, DropLetter(j)
  PROVE  Types' /\ RunsOwed'
<1>1. IInv
  BY DEF WakeInv, TInv
<1> DEFINE S == {j}
<1>2. /\ S \in SUBSET (DOMAIN jobs) /\ \A i \in S : jobs[i].st = "dead"
      /\ "dropped" \in JobStates \ {"waiting"}
  BY DEF DropLetter, JobStates
<1>3. /\ jobs' = [i \in DOMAIN jobs |-> IF i \in S THEN [jobs[i] EXCEPT !.st = "dropped"] ELSE jobs[i]]
      /\ QuietTypes /\ acts' = acts /\ task' = task
  BY DEF DropLetter, QuietTypes
<1> HIDE DEF S
<1>4. Moved
  BY <1>1, <1>2, <1>3, RestatedMoves
<1>5. JobsIn({})
  BY <1>1, <1>2, <1>3, RestatedIn
<1> QED BY <1>3, <1>4, <1>5, JobRests

LEMMA PurgeWakes ==
  ASSUME WakeInv, NEW p \in Projects, Purge(p)
  PROVE  Types' /\ RunsOwed'
<1>1. IInv
  BY DEF WakeInv, TInv
<1> DEFINE S == Waits(p)
<1>2. /\ S \in SUBSET (DOMAIN jobs) /\ \A i \in S : jobs[i].st = "waiting"
      /\ "retracted" \in JobStates \ {"waiting"}
  BY DEF Waits, InState, JobStates
<1>3. /\ jobs' = [i \in DOMAIN jobs |-> IF i \in S THEN [jobs[i] EXCEPT !.st = "retracted"] ELSE jobs[i]]
      /\ QuietTypes /\ Act /\ task' = task
  BY DEF Purge, QuietTypes
<1> HIDE DEF S
<1>4. Moved
  BY <1>1, <1>2, <1>3, RestatedMoves
<1>5. JobsIn({})
  BY <1>1, <1>2, <1>3, RestatedIn
<1> QED BY <1>3, <1>4, <1>5, JobRests

LEMMA SendWakes ==
  ASSUME WakeInv, NEW t \in Tasks, NEW p \in Projects, Send(t, p)
  PROVE  Types' /\ RunsOwed'
<1>1. IInv /\ ParentsKnown /\ SharedTypes /\ TasksTyped /\ RunsOwed
  BY DEF WakeInv, TInv
<1>2. jobs' = Append(jobs, NewJob(p, 0)) /\ Start(t, <<Run(p)>>, None) /\ QuietTypes /\ acts' = acts
  BY DEF Send, QuietTypes
<1>3. JobsIn({p}) /\ JobsStay
  BY <1>1, <1>2, SentIn
<1>4. Kept /\ Owed(p)'
  BY <1>1, <1>2, <1>3, StartsRun
<1>5. SharedTypes' /\ ListenIn({p})
  BY <1>1, <1>2, SharedKept
<1>6. jobs' \in Seq(Rows)
  BY <1>1, <1>2, SendKeeps DEF JobParts
<1>7. ParentsKnown'
  <2>1. NewJob(p, 0) \in Rows /\ NewJob(p, 0).parent = 0
    BY DEF NewJob, Rows, JobStates
  <2>2. /\ Len(jobs) \in Nat /\ DOMAIN jobs = 1..Len(jobs) /\ jobs \in Seq(Rows)
    BY <1>1, JobsShape
  <2>3. /\ DOMAIN jobs' = 1..(Len(jobs) + 1)
        /\ (\A i \in DOMAIN jobs : jobs'[i] = jobs[i]) /\ jobs'[Len(jobs) + 1] = NewJob(p, 0)
    BY <1>2, <2>1, <2>2, AppendProperties
  <2> QED BY <1>1, <2>1, <2>2, <2>3 DEF ParentsKnown
<1> QED BY <1>1, <1>3, <1>4, <1>5, <1>6, <1>7, Wakes DEF Types, Kept

\* Steps that change no job and start a task that runs the queues of P.
LEMMA OthersWake ==
  ASSUME WakeInv, jobs' = jobs, SharedTypes', Kept, NEW P, ListenIn(P), \A p \in P : Owed(p)'
  PROVE  Types' /\ RunsOwed'
<1>1. IInv /\ ParentsKnown /\ RunsOwed /\ jobs \in Seq(Rows)
  BY JobsShape DEF WakeInv, TInv
<1>2. JobsIn(P) /\ JobsStay /\ jobs' \in Seq(Rows)
  BY <1>1, JobsSame
<1>3. ParentsKnown'
  BY <1>1 DEF ParentsKnown
<1> QED BY <1>1, <1>2, <1>3, Wakes DEF Types, Kept

LEMMA SetModeWakes ==
  ASSUME WakeInv, NEW t \in Tasks, NEW p \in Projects, SetMode(t, p)
  PROVE  Types' /\ RunsOwed'
<1>1. SharedTypes /\ TasksTyped /\ jobs' = jobs /\ JobsStay
  BY JobsSame DEF WakeInv, TInv, SetMode
<1> DEFINE todo == IF p \in acking THEN <<<<"waive", p>>, Run(p)>> ELSE <<Run(p)>>
<1>2. /\ acking' = (IF p \in acking THEN acking \ {p} ELSE acking \cup {p}) /\ Act
      /\ Start(t, todo, None) /\ UNCHANGED <<dog, turns, halted, away, unrun>>
  BY DEF SetMode
<1>3. TodoTyped(todo) /\ Lists(todo, p)
  BY RunOnly, WaiveRun
<1>4. PICK s : s = todo
  OBVIOUS
<1>5. Kept /\ Owed(p)'
  BY <1>1, <1>2, <1>3, <1>4, Starts
<1>6. SharedTypes'
  BY <1>1, <1>2, NumbersAssumption DEF SharedTypes, Act
<1>7. ListenIn({p})
  BY <1>2 DEF ListenIn
<1> QED BY <1>1, <1>5, <1>6, <1>7, OthersWake

LEMMA PauseWakes ==
  ASSUME WakeInv, NEW t \in Tasks, NEW w \in Listeners, Pause(t, w)
  PROVE  Types' /\ RunsOwed'
<1>1. SharedTypes /\ TasksTyped /\ jobs' = jobs /\ JobsStay
  BY JobsSame DEF WakeInv, TInv, Pause
<1>2. /\ Act /\ dog' = [dog EXCEPT ![w] = "paused"] /\ UNCHANGED <<acking, turns, halted, away, unrun>>
      /\ StartAll(t, TargetsOf(w[1])) \/ task' = task
  BY DEF Pause
<1>3. Kept
  BY <1>1, <1>2, StartsAll, NoneChanges, ProjectsFinite
<1>4. SharedTypes'
  BY <1>1, <1>2, NumbersAssumption DEF SharedTypes, Act
<1>5. ListenIn({})
  BY <1>1, <1>2 DEF ListenIn, SharedTypes
<1> QED BY <1>1, <1>3, <1>4, <1>5, OthersWake

LEMMA ResumeWakes ==
  ASSUME WakeInv, NEW t \in Tasks, NEW w \in Listeners, Resume(t, w)
  PROVE  Types' /\ RunsOwed'
<1>1. SharedTypes /\ TasksTyped /\ jobs' = jobs /\ JobsStay
  BY JobsSame DEF WakeInv, TInv, Resume
<1>2. PICK s \in Places(w) : turns' = [turns EXCEPT ![w[2]] = s]
  BY DEF Resume
<1>3. /\ dog' = [dog EXCEPT ![w] = "armed"] /\ UNCHANGED <<acking, halted, away, unrun, acts>>
      /\ Start(t, <<Run(w[2])>>, None)
  BY DEF Resume
<1>4. PICK p \in Projects : p = w[2]
  BY ListenersAssumption
<1>5. Kept /\ Owed(p)'
  BY <1>1, <1>3, <1>4, StartsRun
<1>6. s \in Seq(Listeners)
  BY <1>1, PlacesTyped
<1>7. SharedTypes'
  BY <1>1, <1>2, <1>3, <1>6 DEF SharedTypes
<1>8. ListenIn({p})
  BY <1>1, <1>3, <1>4 DEF ListenIn, SharedTypes
<1> QED BY <1>1, <1>5, <1>7, <1>8, OthersWake

LEMMA HaltWakes ==
  ASSUME WakeInv, NEW t \in Tasks, NEW a \in Agents, Halt(t, a) \/ Unhalt(t, a)
  PROVE  Types' /\ RunsOwed'
<1>1. SharedTypes /\ TasksTyped /\ jobs' = jobs /\ JobsStay
  BY JobsSame DEF WakeInv, TInv, Halt, Unhalt
<1>2. /\ halted' = halted \cup {a} \/ halted' = halted \ {a}
      /\ UNCHANGED <<acking, dog, turns, away, unrun>> /\ (Act \/ acts' = acts)
      /\ StartAll(t, TargetsOf(a))
  BY DEF Halt, Unhalt
<1> DEFINE P == TargetsOf(a)
<1>3. P \in SUBSET Projects /\ IsFiniteSet(P)
  BY ProjectsFinite
<1>4. \A w \in Listeners : w[2] \notin P => w[1] # a
  <2>1. \A w \in Listeners : w[2] \in Projects /\ w = <<w[1], w[2]>>
    BY ListenersAssumption
  <2> QED BY <2>1 DEF TargetsOf
<1> HIDE DEF P
<1>5. StartAll(t, P)
  BY <1>2 DEF P
<1>6. Kept /\ \A p \in P : Owed(p)'
  BY <1>1, <1>3, <1>5, StartsAll
<1>7. SharedTypes'
  BY <1>1, <1>2, NumbersAssumption DEF SharedTypes, Act
<1>8. ListenIn(P)
  BY <1>2, <1>4 DEF ListenIn
<1> QED BY <1>1, <1>6, <1>7, <1>8, OthersWake

LEMMA MoveWakes ==
  ASSUME WakeInv, NEW t \in Tasks, NEW a \in Agents, Move(t, a)
  PROVE  Types' /\ RunsOwed'
<1>1. SharedTypes /\ TasksTyped /\ jobs' = jobs /\ JobsStay
  BY JobsSame DEF WakeInv, TInv, Move
<1> DEFINE P == TargetsOf(a)
           s == InOrder(P)
<1>2. /\ away' = (IF a \in away THEN away \ {a} ELSE away \cup {a})
      /\ UNCHANGED <<acking, dog, turns, halted, unrun>> /\ Act
      /\ Start(t, AfterMove(s), None)
  BY DEF Move
<1>3. P \in SUBSET Projects /\ IsFiniteSet(P)
  BY ProjectsFinite
<1>4. \A w \in Listeners : w[2] \notin P => w[1] # a
  <2>1. \A w \in Listeners : w[2] \in Projects /\ w = <<w[1], w[2]>>
    BY ListenersAssumption
  <2> QED BY <2>1 DEF TargetsOf
<1> HIDE DEF P
<1>5. s \in Seq(P) /\ \A n \in P : \E k \in DOMAIN s : s[k] = n
  BY <1>3, Ordered, ProjectsAssumption
<1>6. s \in Seq(Projects)
  BY <1>3, <1>5
<1> HIDE DEF s
<1>7. TodoTyped(AfterMove(s)) /\ \A p \in P : Lists(AfterMove(s), p)
  BY <1>5, <1>6, MoveTodo
<1>8. Kept /\ \A p \in P : Owed(p)'
  BY <1>1, <1>2, <1>7, Starts
<1>9. SharedTypes'
  BY <1>1, <1>2, NumbersAssumption DEF SharedTypes, Act
<1>10. ListenIn(P)
  BY <1>2, <1>4 DEF ListenIn
<1> QED BY <1>1, <1>8, <1>9, <1>10, OthersWake

LEMMA DieWakes ==
  ASSUME WakeInv, NEW t \in Tasks, NEW a \in Agents, NEW p \in Projects, Die(t, a, p)
  PROVE  Types' /\ RunsOwed'
<1>1. SharedTypes /\ TasksTyped /\ jobs' = jobs /\ JobsStay
  BY JobsSame DEF WakeInv, TInv, Die
<1>2. /\ Start(t, <<<<"death", p>>>>, a) /\ Act
      /\ halted \subseteq halted' /\ halted' \subseteq halted \cup {a}
      /\ UNCHANGED <<acking, dog, turns, away, unrun>>
  BY DEF Die
<1>3. Kept
  BY <1>1, <1>2, DeathOnly, Starts
<1>4. SharedTypes'
  BY <1>1, <1>2, NumbersAssumption DEF SharedTypes, Act
<1>5. ListenIn({})
  BY <1>2 DEF ListenIn
<1> QED BY <1>1, <1>3, <1>4, <1>5, OthersWake

\* An agent halted or made fit with nothing to follow: its listeners are unrun.
LEMMA AloneWakes ==
  ASSUME WakeInv, NEW a \in Agents, HaltAlone(a) \/ ContinueOn(a)
  PROVE  Types' /\ RunsOwed'
<1>1. SharedTypes /\ TasksTyped /\ jobs' = jobs /\ task' = task /\ JobsStay
  BY JobsSame DEF WakeInv, TInv, HaltAlone, ContinueOn
<1>2. UNCHANGED <<acking, dog, turns, away>> /\ (Act \/ acts' = acts)
  BY DEF HaltAlone, ContinueOn
<1>3. \/ halted' = halted \cup {a} /\ unrun' = unrun
      \/ /\ halted' = halted \ {a}
         /\ unrun' = unrun \cup {w \in Listeners : w[1] = a /\ w[2] \in acking}
  BY DEF HaltAlone, ContinueOn
<1>4. Kept
  BY <1>1, NoneChanges
<1>5. SharedTypes'
  BY <1>1, <1>2, <1>3, NumbersAssumption DEF SharedTypes, Act
<1>6. ListenIn({})
  BY <1>2, <1>3 DEF ListenIn
<1> QED BY <1>1, <1>4, <1>5, <1>6, OthersWake

-----------------------------------------------------------------------------
(* The steps of a queue's run. *)

\* a task that runs a queue
LEMMA AtRun ==
  ASSUME TasksTyped, NEW t \in Tasks, At(t, "run")
  PROVE  /\ TaskTyped(task[t]) /\ Here(t) \in Projects
         /\ task[t].todo # <<>> /\ Head(task[t].todo)[1] = "run"
         /\ 1 \in DOMAIN task[t].todo /\ task[t].todo[1] = Run(Here(t))
<1>1. TaskTyped(task[t]) /\ task[t].todo # <<>> /\ Head(task[t].todo)[1] = "run"
  BY DEF TasksTyped, At
<1> DEFINE s == task[t].todo
<1>2. s \in Seq(Todo) /\ s # <<>> /\ s[1][1] = "run" /\ Here(t) = s[1][2] /\ 1 \in DOMAIN s /\ s[1] \in Todo
  <2>1. s \in Seq(Todo)
    BY <1>1 DEF TaskTyped, TodoTyped
  <2>2. Head(s) = s[1] /\ 1 \in DOMAIN s /\ s[1] \in Todo
    BY <1>1, <2>1
  <2> QED BY <1>1, <2>1, <2>2 DEF Here
<1> HIDE DEF s
<1>3. s[1] = <<"run", s[1][2]>> /\ s[1][2] \in Projects
  BY <1>2 DEF Todo
<1> QED BY <1>1, <1>2, <1>3 DEF Run, s

\* A task that goes on in its run owes it until it has read the listeners.
LEMMA Steps ==
  ASSUME IInv, TasksTyped, NEW t \in Tasks, At(t, "run"), JobsStay,
         NEW step \in {"release", "reclaim", "hand", "deal"}, NEW rel, NEW room, Step(t, step, rel, room),
         rel \subseteq (DOMAIN jobs') \X Nat, \A r \in rel : jobs'[r[1]].at = Here(t),
         DOMAIN room \subseteq Listeners, \A w \in DOMAIN room : room[w] \in 0..Batch[w]
  PROVE  \E y : /\ Puts(t, y) /\ TaskTyped(y)'
                /\ y.todo = task[t].todo /\ y.at = step /\ y.room = room /\ y.to = task[t].to
<1>1. /\ TaskRows'
      /\ task'[t].todo = task[t].todo /\ task'[t].at = step /\ task'[t].room = room
      /\ task'[t].rel = rel /\ task'[t].to = task[t].to /\ task'[t].who = task[t].who
      /\ task' = [task EXCEPT ![t] = task'[t]]
  BY StepRow
<1>2. PICK y : y = task'[t]
  OBVIOUS
<1>3. /\ y = [todo |-> y.todo, at |-> y.at, rel |-> y.rel, room |-> y.room, to |-> y.to, who |-> y.who]
      /\ y.todo = task[t].todo /\ y.at = step /\ y.room = room /\ y.rel = rel /\ y.to = task[t].to
      /\ y.who = task[t].who /\ task' = [task EXCEPT ![t] = y]
  BY <1>1, <1>2 DEF TaskRows
<1>4. /\ TaskTyped(task[t]) /\ task[t].todo # <<>> /\ Head(task[t].todo)[1] = "run"
      /\ Here(t) = Head(task[t].todo)[2]
  BY AtRun DEF Here
<1>5. TodoTyped(task[t].todo) /\ task[t].to \subseteq Projects /\ task[t].to \subseteq Takers /\ task[t].who \in Agents \cup {None}
  BY <1>4 DEF TaskTyped
<1>6. /\ y.rel \subseteq (DOMAIN jobs') \X Nat /\ \A r \in y.rel : jobs'[r[1]].at = Head(y.todo)[2]
  BY <1>3, <1>4
<1>7. /\ TodoTyped(y.todo) /\ y.to \subseteq Projects /\ y.to \subseteq Takers /\ y.who \in Agents \cup {None}
      /\ y.at \in {"release", "reclaim", "hand", "deal"}
      /\ DOMAIN y.room \subseteq Listeners /\ \A w \in DOMAIN y.room : y.room[w] \in 0..Batch[w]
      /\ y.todo # <<>> /\ Head(y.todo)[1] = "run"
  BY <1>3, <1>4, <1>5
<1>8. TaskTyped(y)'
  BY <1>3, <1>6, <1>7 DEF TaskTyped, TodoTyped, WaiversRun, Takers
<1> QED BY <1>3, <1>8 DEF Puts

\* NoRoom is nobody's room
LEMMA NobodysRoom == DOMAIN NoRoom = {}
BY DEF NoRoom

\* Looking for stale claims, and judging them.
LEMMA RunsOn ==
  ASSUME IInv, TasksTyped, NEW t \in Tasks, At(t, "run"), task[t].at # "deal", JobsStay,
         NEW step \in {"hand", "reclaim"}, NEW rel, Step(t, step, rel, NoRoom),
         rel \subseteq (DOMAIN jobs') \X Nat, \A r \in rel : jobs'[r[1]].at = Here(t)
  PROVE  Kept /\ \A p : p = Here(t) => Owed(p)'
<1>1. PICK y : /\ Puts(t, y) /\ TaskTyped(y)'
               /\ y.todo = task[t].todo /\ y.at = step /\ y.room = NoRoom /\ y.to = task[t].to
  BY Steps, NobodysRoom
<1>2. \A p : Owes(task[t], p) => Owes(y, p)
  BY <1>1 DEF Owes
<1>3. \A p : p = Here(t) => Owes(y, p)
  BY <1>1, AtRun DEF Owes
<1>4. ~Running(t, "deal")
  BY DEF Running
<1>5. Kept /\ \A p : Owes(y, p) => Owed(p)'
  BY <1>1, <1>2, <1>4, OneChanges
<1> QED BY <1>3, <1>5

LEMMA ReleaseWakes ==
  ASSUME WakeInv, NEW t \in Tasks, Release(t)
  PROVE  Types' /\ RunsOwed'
<1>1. IInv /\ SharedTypes /\ TasksTyped /\ jobs' = jobs /\ JobsStay /\ QuietTypes /\ acts' = acts
  BY JobsSame DEF WakeInv, TInv, Release, QuietTypes
<1> DEFINE gone == {j \in InState(Here(t), {"held"}) : Here(t) \in acking /\ Stale(j)}
           rel == {<<j, jobs[j].hands>> : j \in gone}
           step == IF gone = {} THEN "hand" ELSE "reclaim"
<1>2. At(t, "run") /\ task[t].at # "deal" /\ Step(t, step, rel, NoRoom)
  BY DEF Release, Running
<1>3. \A j \in gone : j \in DOMAIN jobs /\ jobs[j].at = Here(t) /\ jobs[j].hands \in Nat
  <2>1. \A j \in DOMAIN jobs : jobs[j].hands \in Nat
    BY <1>1, JobsShape DEF Rows
  <2> QED BY <2>1 DEF InState
<1>4. step \in {"hand", "reclaim"}
  OBVIOUS
<1> HIDE DEF gone, step
<1>5. rel \subseteq (DOMAIN jobs') \X Nat /\ \A r \in rel : jobs'[r[1]].at = Here(t)
  BY <1>1, <1>3
<1> HIDE DEF rel
<1>6. Kept
  BY <1>1, <1>2, <1>4, <1>5, RunsOn
<1>7. SharedTypes' /\ ListenIn({})
  BY <1>1, SharedKept
<1> QED BY <1>1, <1>6, <1>7, OthersWake

LEMMA ReclaimWakes ==
  ASSUME WakeInv, NEW t \in Tasks, Reclaim(t)
  PROVE  Types' /\ RunsOwed'
<1>1. IInv /\ SharedTypes /\ TasksTyped /\ TInv /\ RunsOwed /\ QuietTypes /\ acts' = acts
  BY DEF WakeInv, TInv, Reclaim, QuietTypes
<1>2. At(t, "run") /\ task[t].at # "deal"
  BY DEF Reclaim, Running
<1>3. PICK r \in task[t].rel :
        /\ jobs' = IF StaleClaim(Here(t), r) THEN GaveBack({r[1]}) ELSE jobs
        /\ Step(t, IF task[t].rel \ {r} = {} THEN "hand" ELSE "reclaim", task[t].rel \ {r}, NoRoom)
  BY DEF Reclaim
<1>4. task[t].rel \subseteq (DOMAIN jobs) \X Nat /\ \A q \in task[t].rel : jobs[q[1]].at = Here(t)
  BY <1>1, <1>2, AtRun DEF TaskTyped, Here
<1> DEFINE rel == task[t].rel \ {r}
           step == IF rel = {} THEN "hand" ELSE "reclaim"
<1>5. step \in {"hand", "reclaim"} /\ Step(t, step, rel, NoRoom) /\ rel \subseteq task[t].rel
  BY <1>3
<1> HIDE DEF rel, step
<1>6. PICK p \in Projects : p = Here(t)
  BY <1>1, <1>2, AtRun
<1>7. CASE StaleClaim(Here(t), r)
  <2>1. jobs' = GaveBack({r[1]}) /\ {r[1]} \in SUBSET (DOMAIN jobs) /\ (\A i \in {r[1]} : jobs[i].st = "held")
        /\ \A i \in {r[1]} : jobs[i].at \in {p}
    BY <1>3, <1>4, <1>6, <1>7 DEF StaleClaim
  <2>2. Moved /\ JobsIn({p}) /\ JobsStay
    <3> DEFINE S == {r[1]}
    <3>1. jobs' = GaveBack(S) /\ S \in SUBSET (DOMAIN jobs) /\ (\A i \in S : jobs[i].st = "held")
          /\ \A i \in S : jobs[i].at \in {p}
      BY <2>1
    <3> HIDE DEF S
    <3> QED BY <1>1, <3>1, GaveBackStep, GaveBackIn
  <2>3. rel \subseteq (DOMAIN jobs') \X Nat /\ \A q \in rel : jobs'[q[1]].at = Here(t)
    <3>1. \A q \in rel : q \in (DOMAIN jobs) \X Nat /\ jobs[q[1]].at = Here(t)
      BY <1>4, <1>5
    <3>2. \A q \in rel : q \in (DOMAIN jobs') \X Nat
      BY <2>2, <3>1 DEF Moved
    <3>3. \A q \in rel : q[1] \in DOMAIN jobs
      BY <3>1
    <3> QED BY <2>2, <3>1, <3>2, <3>3 DEF Moved
  <2>4. Kept /\ Owed(p)'
    BY <1>1, <1>2, <1>5, <1>6, <2>2, <2>3, RunsOn
  <2> QED BY <1>1, <2>2, <2>4, JobWakes
<1>8. CASE ~StaleClaim(Here(t), r)
  <2>1. jobs' = jobs /\ JobsStay
    BY <1>3, <1>8, JobsSame
  <2>2. rel \subseteq (DOMAIN jobs') \X Nat /\ \A q \in rel : jobs'[q[1]].at = Here(t)
    BY <1>4, <1>5, <2>1
  <2>3. Kept
    BY <1>1, <1>2, <1>5, <2>1, <2>2, RunsOn
  <2>4. SharedTypes' /\ ListenIn({})
    BY <1>1, SharedKept
  <2> QED BY <2>1, <2>3, <2>4, OthersWake
<1> QED BY <1>7, <1>8

\* Whoever could take a job is read by the hand-out that begins.
LEMMA HandBeginWakes ==
  ASSUME WakeInv, NEW t \in Tasks, HandBegin(t)
  PROVE  Types' /\ RunsOwed'
<1>1. /\ IInv /\ ParentsKnown /\ SharedTypes /\ TasksTyped /\ RunsOwed
      /\ jobs' = jobs /\ JobsStay /\ UNCHANGED <<acking, dog, turns, halted, away, acts>>
      /\ unrun' = {w \in unrun : w[2] # Here(t)}
  BY JobsSame DEF WakeInv, TInv, HandBegin
<1> DEFINE W == {w \in Watching(Here(t)) : Fit(w)}
           room == [w \in W |-> Room(w)]
<1>2. At(t, "run") /\ task[t].at = "hand" /\ Step(t, "deal", {}, room)
  BY DEF HandBegin, Running
<1>3. \A w \in Listeners : Room(w) \in 0..Batch[w]
  <2> SUFFICES ASSUME NEW w \in Listeners PROVE Room(w) \in 0..Batch[w]
    OBVIOUS
  <2>1. Batch[w] \in Nat
    BY ListenersAssumption
  <2>2. Room(w) \in Nat
    BY <1>1, RoomFits
  <2>3. Used(w) \in Nat
    <3>1. IsFiniteSet(DOMAIN jobs) /\ Waits(w[1]) \subseteq DOMAIN jobs
      BY <1>1, JobsShape DEF Waits, InState
    <3>2. Cardinality(Waits(w[1])) \in Nat /\ Cardinality(HeldBy(w)) \in Nat
      BY <1>1, <3>1, FS_Subset, FS_CardinalityType, HeldFinite
    <3> QED BY <3>2 DEF Used
  <2> QED BY <2>1, <2>2, <2>3 DEF Room
<1>4. W \subseteq Listeners
  BY DEF Watching
<1>5. DOMAIN room = W /\ \A w \in W : room[w] = Room(w)
  OBVIOUS
<1> HIDE DEF room
<1>6. PICK y : /\ Puts(t, y) /\ TaskTyped(y)'
               /\ y.todo = task[t].todo /\ y.at = "deal" /\ y.room = room /\ y.to = task[t].to
  BY <1>1, <1>2, <1>3, <1>4, <1>5, Steps
<1>7. /\ DOMAIN task' = Tasks /\ task'[t] = y /\ \A u \in Tasks : u # t => task'[u] = task[u]
  BY <1>1, <1>6, PutsOne DEF TasksTyped
<1>8. TasksTyped'
  <2> SUFFICES ASSUME NEW u \in Tasks PROVE TaskTyped(task[u])'
    BY <1>7 DEF TasksTyped
  <2>1. CASE u = t
    BY <1>6, <1>7, <2>1 DEF TaskTyped
  <2>2. CASE u # t
    <3>1. TaskTyped(task[u]) /\ task'[u] = task[u]
      BY <1>1, <1>7, <2>2 DEF TasksTyped
    <3> QED BY <1>1, <3>1, StaysTyped
  <2> QED BY <2>1, <2>2
<1>9. SharedTypes' /\ ListenIn({Here(t)})
  BY <1>1 DEF SharedTypes, ListenIn
<1>10. ParentsKnown'
  BY <1>1 DEF ParentsKnown
<1>11. RunsOwed'
  <2> SUFFICES ASSUME NEW w \in Listeners, Idles(w)'
               PROVE  Owed(w[2])' \/ \E u \in Tasks : Serving(u, w)'
    BY DEF RunsOwed
  <2>1. w[2] # Here(t) => Idles(w)
    <3>1. PICK P : P = {Here(t)}
      OBVIOUS
    <3>2. jobs' \in Seq(Rows) /\ JobsIn(P) /\ ListenIn(P)
      BY <1>1, <1>9, <3>1, JobsShape, JobsSame
    <3> QED BY <1>1, <3>1, <3>2, IdlesIn
  <2>2. /\ Here(t)' = Here(t) /\ Running(t, "deal")' /\ task'[t].room = room
    BY <1>2, <1>6, <1>7 DEF Here, Running, At
  <2>3. CASE w[2] = Here(t)
    <3>1. dog[w] = "armed" /\ Fit(w) /\ Room(w) > 0
      <4>1. Fit(w)' <=> Fit(w)
        BY <1>1 DEF Fit
      <4>2. Room(w)' = Room(w)
        BY <1>1 DEF Room, Used, HeldBy, Waits, InState
      <4> QED BY <1>1, <4>1, <4>2 DEF Idles
    <3>2. w \in W
      BY <2>3, <3>1 DEF Watching
    <3>3. w \in DOMAIN task'[t].room /\ task'[t].room[w] > 0
      BY <1>5, <2>2, <3>1, <3>2
    <3> QED BY <2>2, <2>3, <3>3 DEF Serving
  <2>4. CASE w[2] # Here(t)
    <3>1. CASE Owed(w[2])
      <4>1. PICK u \in Tasks : Owes(task[u], w[2])
        BY <3>1 DEF Owed
      <4>2. u = t => Owes(y, w[2])
        <5>1. task[t].todo[1] = Run(Here(t)) /\ Run(Here(t)) # Run(w[2])
          BY <1>1, <1>2, <2>4, AtRun DEF Run
        <5> QED BY <1>6, <4>1, <5>1 DEF Owes
      <4> QED BY <1>7, <4>1, <4>2 DEF Owed, Owes
    <3>2. CASE \E u \in Tasks : Serving(u, w)
      <4>1. PICK u \in Tasks : Serving(u, w)
        BY <3>2
      <4>2. u # t
        BY <1>2, <4>1 DEF Serving, Running
      <4>3. Serving(u, w)'
        BY <1>7, <4>1, <4>2 DEF Serving, Running, At, Here
      <4> QED BY <4>3
    <3> QED BY <1>1, <2>1, <2>4, <3>1, <3>2 DEF RunsOwed
  <2> QED BY <2>3, <2>4
<1> QED BY <1>8, <1>9, <1>10, <1>11 DEF Types

\* A hand-out that gives nothing leaves nobody it read with room and a job to take.
LEMMA NoneLeft ==
  ASSUME IInv, NEW p, NEW room, NEW given \in Deals(p, room), Dealt(given) = {},
         DOMAIN room \subseteq Listeners, NEW w \in DOMAIN room, room[w] > 0
  PROVE  Waits(p) = {}
<1> SUFFICES ASSUME NEW j \in Waits(p) PROVE FALSE
  OBVIOUS
<1> DEFINE has(v) == {i \in Waits(p) : i < j /\ given[i] = v}
           can   == {v \in DOMAIN room : Cardinality(has(v)) < room[v]}
           other == {v \in can : v[1] \notin jobs[j].avoid}
           best  == IF other # {} THEN other ELSE can
<1>1. \A i \in Waits(p) : given[i] = None
  BY DEF Deals, Dealt
<1>2. w # None
  BY OwnersAssumption
<1>3. has(w) = {}
  BY <1>1, <1>2
<1>4. w \in can
  BY <1>3, FS_EmptySet
<1>5. best # {}
  BY <1>4
<1>6. best # {} => given[j] \in best
  BY DEF Deals
<1>7. best \subseteq DOMAIN room
  OBVIOUS
<1>8. given[j] \in Listeners
  BY <1>5, <1>6, <1>7
<1> QED BY <1>1, <1>8, OwnersAssumption

LEMMA NothingGivenWakes ==
  ASSUME WakeInv, NEW t \in Tasks, Running(t, "deal"), NEW given \in Deals(Here(t), task[t].room),
         Dealt(given) = {}, Done(t, task[t].to), jobs' = jobs, QuietTypes, acts' = acts
  PROVE  Types' /\ RunsOwed'
<1>1. IInv /\ ParentsKnown /\ SharedTypes /\ TasksTyped /\ RunsOwed /\ JobsStay
  BY JobsSame DEF WakeInv, TInv
<1>2. At(t, "run") /\ task[t].at = "deal"
  BY DEF Running
<1>3. TaskTyped(task[t]) /\ task[t].todo # <<>>
  BY <1>1, <1>2, AtRun
<1>4. task[t].to \in SUBSET Projects /\ IsFiniteSet(task[t].to) /\ DOMAIN task[t].room \subseteq Listeners
  <2>1. task[t].to \subseteq Projects /\ task[t].to \subseteq Takers /\ DOMAIN task[t].room \subseteq Listeners
    BY <1>3 DEF TaskTyped
  <2>2. IsFiniteSet(Takers)
    BY ProjectsFinite DEF Takers
  <2> QED BY <2>1, <2>2, FS_Subset
<1>5. PICK y :
        /\ Puts(t, y) /\ TaskTyped(y)' /\ y.at = "release"
        /\ \A p \in task[t].to : Owes(y, p)
        /\ \A i \in DOMAIN task[t].todo : \A p : i # 1 /\ task[t].todo[i] = Run(p) => Owes(y, p)
  BY <1>1, <1>3, <1>4, Goes
<1>6. \A p : Owes(task[t], p) => Owes(y, p)
  BY <1>2, <1>5 DEF Owes
<1>7. /\ TasksTyped' /\ \A p : Owed(p) => Owed(p)'
      /\ \A u \in Tasks \ {t} : \A w : Serving(u, w) => Serving(u, w)'
  BY <1>1, <1>5, <1>6, OneMoves
<1>8. SharedTypes' /\ ListenIn({}) /\ ParentsKnown' /\ JobsIn({})
  BY <1>1, SharedKept, JobsSame DEF ParentsKnown
<1>9. RunsOwed'
  <2> SUFFICES ASSUME NEW w \in Listeners, Idles(w)'
               PROVE  Owed(w[2])' \/ \E u \in Tasks : Serving(u, w)'
    BY DEF RunsOwed
  <2>1. Idles(w)
    <3>1. jobs' \in Seq(Rows)
      BY <1>1, JobsShape
    <3> QED BY <1>1, <1>8, <3>1, IdlesIn
  <2>2. ~Serving(t, w)
    <3>1. Waits(w[2]) # {}
      BY <2>1 DEF Idles
    <3>2. ASSUME Serving(t, w) PROVE FALSE
      <4>1. w[2] = Here(t) /\ w \in DOMAIN task[t].room /\ task[t].room[w] > 0
        BY <3>2 DEF Serving
      <4>2. Waits(Here(t)) = {}
        BY <1>1, <1>4, <4>1, NoneLeft
      <4> QED BY <3>1, <4>1, <4>2
    <3> QED BY <3>2
  <2> QED BY <1>1, <1>7, <2>1, <2>2 DEF RunsOwed
<1> QED BY <1>7, <1>8, <1>9 DEF Types

\* A hand-out that gives something is followed by another of the same queue.
LEMMA GivenWakes ==
  ASSUME WakeInv, NEW t \in Tasks, Running(t, "deal"), NEW given \in Deals(Here(t), task[t].room),
         jobs' = HandedOut(Here(t), given),
         dog' = [w \in Listeners |-> IF w \in {given[j] : j \in Dealt(given)} \cap Once THEN "spent" ELSE dog[w]],
         turns' = [turns EXCEPT ![Here(t)] = Served(Here(t), given)],
         NextHand(t, {w[1] : w \in {v \in {given[j] : j \in Dealt(given)} : Relay(v)}}),
         UNCHANGED <<acking, halted, away, unrun, acts>>
  PROVE  Types' /\ RunsOwed'
<1>1. IInv /\ ParentsKnown /\ SharedTypes /\ TasksTyped /\ RunsOwed
  BY DEF WakeInv, TInv
<1>2. At(t, "run") /\ task[t].at = "deal"
  BY DEF Running
<1>3. PICK p \in Projects : p = Here(t)
  BY <1>1, <1>2, AtRun
<1>4. /\ TaskTyped(task[t]) /\ task[t].todo # <<>> /\ Head(task[t].todo)[1] = "run"
      /\ 1 \in DOMAIN task[t].todo /\ task[t].todo[1] = Run(p)
  BY <1>1, <1>2, <1>3, AtRun
<1> DEFINE S == {w[1] : w \in {v \in {given[j] : j \in Dealt(given)} : Relay(v)}}
           P == {p} \cup {given[j][1] : j \in ToRelays(given)}
<1>5. HandOut(p, task[t].room, given)
  <2>1. \A w \in DOMAIN task[t].room : w \in Listeners /\ w[2] = p /\ task[t].room[w] \in Nat
    BY <1>1, <1>3 DEF IInv, RoomCounted
  <2> QED BY <1>3, <2>1 DEF HandOut
<1>6. JobsIn(P) /\ JobsStay
  BY <1>1, <1>5, HandedOutIn
<1>7. S = {given[j][1] : j \in ToRelays(given)} /\ S \subseteq Projects /\ S \subseteq Takers
  <2>1. S = {given[j][1] : j \in ToRelays(given)}
    BY DEF ToRelays
  <2>2. \A j \in ToRelays(given) : given[j] \in Listeners /\ given[j][1] \in Projects
    BY <1>1, <1>5, DealtTo
  <2> QED BY <2>1, <2>2 DEF Takers
<1>8. P = {p} \cup S
  BY <1>7
<1>9. NextHand(t, S)
  OBVIOUS
<1> HIDE DEF S, P
<1> DEFINE a == task[t].todo
           f == task[t].who
           to == task[t].to \cup S
           z == [Doing(a, f) EXCEPT !.at = "hand", !.to = to]
<1>10. z = [todo |-> a, at |-> "hand", rel |-> {}, room |-> NoRoom, to |-> to, who |-> f]
  <2> HIDE DEF a, f, to
  <2>1. Doing(a, f) = [todo |-> a, at |-> "release", rel |-> {}, room |-> NoRoom, to |-> {}, who |-> f]
    BY DEF Doing
  <2>2. Doing(a, f) \in [todo : {a}, at : {"release"}, rel : {{}}, room : {NoRoom}, to : {{}}, who : {f}]
    BY <2>1, RowOf
  <2>3. z \in [todo : {a}, at : {"hand"}, rel : {{}}, room : {NoRoom}, to : {to}, who : {f}]
    BY <2>2
  <2> HIDE DEF z
  <2> QED BY <2>3, RowOf
<1>11. task' = [task EXCEPT ![t] = z]
  BY <1>9 DEF NextHand
<1> HIDE DEF z
<1>12. PICK y : y = z
  OBVIOUS
<1>13. /\ Puts(t, y) /\ y.todo = task[t].todo /\ y.at = "hand" /\ y.rel = {} /\ y.room = NoRoom
       /\ y.to = task[t].to \cup S /\ y.who = task[t].who
       /\ y = [todo |-> y.todo, at |-> y.at, rel |-> y.rel, room |-> y.room, to |-> y.to, who |-> y.who]
  BY <1>10, <1>11, <1>12 DEF Puts
<1>14. TaskTyped(y)'
  <2>1. /\ TodoTyped(y.todo) /\ y.to \subseteq Projects /\ y.to \subseteq Takers /\ y.who \in Agents \cup {None}
        /\ y.at \in {"release", "reclaim", "hand", "deal"} /\ DOMAIN y.room = {}
        /\ y.todo # <<>> /\ Head(y.todo)[1] = "run"
    BY <1>4, <1>7, <1>13, NobodysRoom DEF TaskTyped
  <2> QED BY <1>13, <2>1 DEF TaskTyped, TodoTyped, WaiversRun, Takers
<1>15. (\A q : Owes(task[t], q) => Owes(y, q)) /\ \A q \in P : Owes(y, q)
  BY <1>4, <1>8, <1>13 DEF Owes
<1>16. /\ TasksTyped' /\ \A q : Owed(q) => Owed(q)'
       /\ \A q : Owes(y, q) => Owed(q)'
       /\ \A u \in Tasks \ {t} : \A w : Serving(u, w) => Serving(u, w)'
  BY <1>1, <1>6, <1>13, <1>14, <1>15, OneMoves
<1>17. SharedTypes'
  <2>1. Served(p, given) \in Seq(Listeners)
    BY <1>1, <1>5, ServedTyped
  <2>2. turns' = [turns EXCEPT ![p] = Served(p, given)]
    BY <1>3
  <2>3. turns' \in [Projects -> Seq(Listeners)]
    BY <1>1, <2>1, <2>2 DEF SharedTypes
  <2>4. dog' \in [Listeners -> {"armed", "paused", "spent"}]
    BY <1>1 DEF SharedTypes
  <2> QED BY <1>1, <2>3, <2>4 DEF SharedTypes
<1>18. ListenIn(P)
  BY DEF ListenIn
<1>19. jobs' \in Seq(Rows)
  BY <1>1, <1>5, HandOutFacts
<1>20. ParentsKnown'
  <2>1. \A i \in DOMAIN jobs : jobs'[i].parent = jobs[i].parent
    BY <1>1, <1>5, HandOutFacts
  <2>2. \A i \in DOMAIN jobs' : i \in DOMAIN jobs \/ jobs'[i].parent \in DOMAIN jobs
    <3> SUFFICES ASSUME NEW i \in DOMAIN jobs', i \notin DOMAIN jobs PROVE jobs'[i].parent \in DOMAIN jobs
      OBVIOUS
    <3>1. /\ Len(jobs) \in Nat /\ DOMAIN jobs = 1..Len(jobs) /\ Cardinality(ToRelays(given)) \in Nat
          /\ DOMAIN jobs' = 1..(Len(jobs) + Cardinality(ToRelays(given)))
      BY <1>1, <1>5, JobsShape, Children, HandOutFacts
    <3>2. i \in (Len(jobs) + 1)..(Len(jobs) + Cardinality(ToRelays(given)))
      BY <3>1
    <3>3. PICK j \in ToRelays(given) : ChildOf(given, j) = i
      BY <1>1, <1>5, <3>2, Children
    <3>4. jobs'[i] = NewJob(given[j][1], j) /\ j \in DOMAIN jobs
      BY <1>1, <1>5, <3>3, HandOutFacts, DealtTo
    <3> QED BY <3>4 DEF NewJob
  <2> QED BY <1>1, <1>6, <2>1, <2>2 DEF ParentsKnown, JobsStay
<1>21. RunsOwed'
  <2> SUFFICES ASSUME NEW w \in Listeners, Idles(w)'
               PROVE  Owed(w[2])' \/ \E u \in Tasks : Serving(u, w)'
    BY DEF RunsOwed
  <2>1. CASE w[2] \in P
    BY <1>15, <1>16, <2>1
  <2>2. CASE w[2] \notin P
    <3>1. Idles(w)
      BY <1>6, <1>18, <1>19, <2>2, IdlesIn
    <3>2. ~Serving(t, w)
      BY <1>3, <1>8, <2>2 DEF Serving
    <3> QED BY <1>1, <1>16, <3>1, <3>2 DEF RunsOwed
  <2> QED BY <2>1, <2>2
<1> QED BY <1>16, <1>17, <1>20, <1>21 DEF Types

LEMMA HandCommitWakes ==
  ASSUME WakeInv, NEW t \in Tasks, HandCommit(t)
  PROVE  Types' /\ RunsOwed'
<1> DEFINE p == Here(t)
<1>1. PICK given \in Deals(p, task[t].room) :
        LET got == {given[j] : j \in Dealt(given)} IN
        IF got = {}
        THEN Done(t, task[t].to) /\ UNCHANGED <<jobs, dog, turns>>
        ELSE /\ jobs' = HandedOut(p, given)
             /\ dog' = [w \in Listeners |-> IF w \in got \cap Once THEN "spent" ELSE dog[w]]
             /\ turns' = [turns EXCEPT ![p] = Served(p, given)]
             /\ NextHand(t, {w[1] : w \in {v \in got : Relay(v)}})
  BY DEF HandCommit
<1>2. Running(t, "deal") /\ UNCHANGED <<acking, halted, away, unrun, acts>>
  BY DEF HandCommit
<1>3. CASE {given[j] : j \in Dealt(given)} = {}
  <2>1. Dealt(given) = {}
    BY <1>3
  <2>2. Done(t, task[t].to) /\ jobs' = jobs /\ QuietTypes /\ acts' = acts
    BY <1>1, <1>2, <1>3 DEF QuietTypes
  <2> QED BY <1>2, <2>1, <2>2, NothingGivenWakes
<1>4. CASE {given[j] : j \in Dealt(given)} # {}
  <2>1. /\ jobs' = HandedOut(p, given)
        /\ dog' = [w \in Listeners |-> IF w \in {given[j] : j \in Dealt(given)} \cap Once THEN "spent" ELSE dog[w]]
        /\ turns' = [turns EXCEPT ![p] = Served(p, given)]
        /\ NextHand(t, {w[1] : w \in {v \in {given[j] : j \in Dealt(given)} : Relay(v)}})
    BY <1>1, <1>4
  <2> QED BY <1>2, <2>1, GivenWakes
<1> QED BY <1>3, <1>4

-----------------------------------------------------------------------------
(* The other tasks, and a restart. *)

\* A task done with something other than a run owes what it owed, and after a waiver the run.
LEMMA OtherDone ==
  ASSUME TasksTyped, JobsStay, NEW t \in Tasks, NEW kind \in {"waive", "drop", "death"}, At(t, kind),
         NEW S \in SUBSET Projects, IsFiniteSet(S), Done(t, S)
  PROVE  /\ Kept /\ Here(t) \in Projects
         /\ \A p \in S : Owed(p)'
         /\ kind = "waive" => \A p : p = Here(t) => Owed(p)'
<1>1. TaskTyped(task[t]) /\ task[t].todo # <<>> /\ Head(task[t].todo)[1] = kind
  BY DEF TasksTyped, At
<1> DEFINE s == task[t].todo
<1>2. s \in Seq(Todo) /\ Head(s) = s[1] /\ 1 \in DOMAIN s /\ s[1] \in Todo /\ WaiversRun(s) /\ DOMAIN s \subseteq Nat
  <2>1. s \in Seq(Todo) /\ WaiversRun(s)
    BY <1>1 DEF TaskTyped, TodoTyped
  <2> QED BY <1>1, <2>1
<1>3. s[1][1] = kind /\ s[1][2] = Here(t) /\ Here(t) \in Projects
  <2>1. s[1][2] \in Projects
    BY <1>2 DEF Todo
  <2> QED BY <1>1, <1>2, <2>1 DEF Here
<1>4. task[t].at = "release" /\ task[t].to = {}
  BY <1>1 DEF TaskTyped
<1>5. PICK y :
        /\ Puts(t, y) /\ TaskTyped(y)' /\ y.at = "release"
        /\ \A p \in S : Owes(y, p)
        /\ \A i \in DOMAIN task[t].todo : \A p : i # 1 /\ task[t].todo[i] = Run(p) => Owes(y, p)
  BY <1>1, Goes
<1>6. \A p : s[1] # Run(p)
  BY <1>3 DEF Run
<1>7. \A p : Owes(task[t], p) => Owes(y, p)
  BY <1>4, <1>5, <1>6 DEF Owes
<1>8. ~Running(t, "deal")
  BY <1>4 DEF Running
<1>9. Kept /\ \A p : Owes(y, p) => Owed(p)'
  BY <1>5, <1>7, <1>8, OneChanges
<1>10. kind = "waive" => \A p : p = Here(t) => Owed(p)'
  <2> SUFFICES ASSUME kind = "waive", NEW p, p = Here(t) PROVE Owed(p)'
    OBVIOUS
  <2>1. PICK k \in DOMAIN s : k > 1 /\ s[k] = Run(p)
    BY <1>2, <1>3 DEF WaiversRun
  <2>2. k # 1
    BY <1>2, <2>1
  <2> QED BY <1>5, <1>9, <2>1, <2>2
<1> QED BY <1>3, <1>5, <1>9, <1>10

LEMMA WaiveWakes ==
  ASSUME WakeInv, NEW t \in Tasks, Waive(t)
  PROVE  Types' /\ RunsOwed'
<1>1. IInv /\ TInv /\ TasksTyped /\ RunsOwed /\ QuietTypes /\ acts' = acts /\ At(t, "waive") /\ Done(t, {})
  BY DEF WakeInv, TInv, Waive, QuietTypes
<1>2. PICK p : p = Here(t)
  OBVIOUS
<1> DEFINE S == InState(p, {"held", "relayed"})
<1>3. /\ S \in SUBSET (DOMAIN jobs) /\ \A i \in S : jobs[i].st \in {"held", "relayed"} /\ jobs[i].at = p
      /\ "passed" \in JobStates \ {"waiting"}
  BY DEF InState, JobStates
<1>4. jobs' = [i \in DOMAIN jobs |-> IF i \in S THEN [jobs[i] EXCEPT !.st = "passed"] ELSE jobs[i]]
  BY <1>2 DEF Waive
<1> HIDE DEF S
<1>5. Moved
  BY <1>1, <1>3, <1>4, RestatedMoves
<1>6. JobsIn({p}) /\ JobsStay
  <2>1. PICK P : P = {p}
    OBVIOUS
  <2>2. \A i \in S : jobs[i].st = "held" => jobs[i].at \in P
    BY <1>3, <2>1
  <2>3. JobsIn(P) /\ JobsStay
    BY <1>1, <1>3, <1>4, <2>2, RestatedIn
  <2> QED BY <2>1, <2>3
<1>7. Kept /\ Owed(p)'
  BY <1>1, <1>2, <1>6, OtherDone, FS_EmptySet
<1> QED BY <1>1, <1>5, <1>6, <1>7, JobWakes

LEMMA DropDogsWakes ==
  ASSUME WakeInv, NEW t \in Tasks, DropDogs(t)
  PROVE  Types' /\ RunsOwed'
<1>1. SharedTypes /\ TasksTyped /\ jobs' = jobs /\ JobsStay /\ At(t, "drop") /\ Done(t, {})
  BY JobsSame DEF WakeInv, TInv, DropDogs
<1>2. /\ dog' = [w \in Listeners |->
                   IF w[2] = Here(t) /\ w[1] \in away /\ dog[w] = "armed" THEN "paused" ELSE dog[w]]
      /\ UNCHANGED <<acking, turns, halted, away, unrun, acts>>
  BY DEF DropDogs
<1>3. Kept
  BY <1>1, OtherDone, FS_EmptySet
<1>4. SharedTypes' /\ ListenIn({})
  BY <1>1, <1>2 DEF SharedTypes, ListenIn
<1> QED BY <1>1, <1>3, <1>4, OthersWake

LEMMA DeathReleaseWakes ==
  ASSUME WakeInv, NEW t \in Tasks, DeathRelease(t)
  PROVE  Types' /\ RunsOwed'
<1>1. IInv /\ TInv /\ TasksTyped /\ RunsOwed /\ QuietTypes /\ acts' = acts /\ At(t, "death")
  BY DEF WakeInv, TInv, DeathRelease, QuietTypes
<1>2. PICK p : p = Here(t)
  OBVIOUS
<1> DEFINE S == {j \in InState(p, {"held"}) : jobs[j].by = task[t].who}
           P == IF S = {} THEN {} ELSE {p}
<1>3. S \in SUBSET (DOMAIN jobs) /\ \A i \in S : jobs[i].st = "held" /\ jobs[i].at = p
  BY DEF InState
<1>4. jobs' = GaveBack(S) /\ Done(t, P)
  BY <1>2 DEF DeathRelease
<1> HIDE DEF S
<1>5. \A i \in S : jobs[i].at \in P
  BY <1>3
<1>6. PICK Q : Q = P
  OBVIOUS
<1>7. Moved
  BY <1>1, <1>3, <1>4, GaveBackStep
<1>8. JobsIn(Q) /\ JobsStay
  BY <1>1, <1>3, <1>4, <1>5, <1>6, GaveBackIn
<1>9. Q \in SUBSET Projects /\ IsFiniteSet(Q)
  <2>1. p \in Projects
    <3>1. TaskTyped(task[t]) /\ task[t].todo # <<>>
      BY <1>1 DEF TasksTyped, At
    <3>2. task[t].todo \in Seq(Todo)
      BY <3>1 DEF TaskTyped, TodoTyped
    <3>3. Head(task[t].todo) \in Todo
      BY <3>1, <3>2
    <3> QED BY <1>2, <3>3 DEF Todo, Here
  <2>2. IsFiniteSet({p}) /\ IsFiniteSet({})
    BY FS_Singleton, FS_EmptySet
  <2> QED BY <1>6, <2>1, <2>2
<1>10. Kept /\ \A q \in Q : Owed(q)'
  BY <1>1, <1>4, <1>6, <1>8, <1>9, OtherDone
<1> QED BY <1>1, <1>7, <1>8, <1>10, JobWakes

\* A restart runs every queue an agent listens to.
LEMMA CrashWakes ==
  ASSUME WakeInv, NEW t \in Tasks, Crash(t)
  PROVE  Types' /\ RunsOwed'
<1> DEFINE W == {v \in Listeners : dog[v] = "armed" /\ v[1] # User}
           S == {w[2] : w \in W}
<1>1. /\ IInv /\ ParentsKnown /\ SharedTypes /\ TasksTyped /\ RunsOwed
      /\ jobs' = jobs /\ JobsStay /\ QuietTypes /\ Act
  BY JobsSame DEF WakeInv, TInv, Crash, QuietTypes
<1>2. PICK s \in SetToSeqs(S) : task' = [u \in Tasks |-> IF u = t THEN Doing(Runs(s), None) ELSE Idle]
  BY DEF Crash
<1>3. S \in SUBSET Projects /\ IsFiniteSet(S)
  BY ProjectsFinite, ListenersAssumption
<1> HIDE DEF S
<1>4. s \in Seq(S) /\ \A p \in S : \E k \in DOMAIN s : s[k] = p
  BY <1>2, <1>3, Listing
<1>5. s \in Seq(Projects)
  BY <1>3, <1>4
<1>6. TodoTyped(Runs(s)) /\ \A p \in S : Lists(Runs(s), p)
  BY <1>4, <1>5, RunsListed
<1>7. PICK y, z : y = Doing(Runs(s), None) /\ z = Doing(<<>>, None)
  OBVIOUS
<1>8. TaskTyped(y)' /\ TaskTyped(z)'
  <2>1. \A x : TodoTyped(x) => \A v : v = Doing(x, None) => TaskTyped(v)'
    <3> SUFFICES ASSUME NEW x, TodoTyped(x), NEW v, v = Doing(x, None) PROVE TaskTyped(v)'
      OBVIOUS
    <3>1. TaskTyped(Doing(x, None))'
      BY DoingTyped
    <3>2. Doing(x, None)' = v
      BY DEF Doing, NoRoom
    <3> QED BY <3>1, <3>2 DEF TaskTyped, Doing
  <2> QED BY <1>6, <1>7, <2>1, NothingTodo
<1>9. /\ DOMAIN task' = Tasks /\ task'[t] = y
      /\ \A u \in Tasks : task'[u] = y \/ task'[u] = z
  BY <1>2, <1>7 DEF Idle
<1>10. TasksTyped'
  <2>1. ASSUME NEW u \in Tasks PROVE TaskTyped(task[u])'
    <3>1. CASE task'[u] = y
      BY <1>8, <3>1 DEF TaskTyped
    <3>2. CASE task'[u] = z
      BY <1>8, <3>2 DEF TaskTyped
    <3> QED BY <1>9, <3>1, <3>2
  <2> QED BY <1>9, <2>1 DEF TasksTyped
<1>11. SharedTypes' /\ ListenIn({}) /\ ParentsKnown' /\ JobsIn({})
  BY <1>1, SharedKept, JobsSame DEF ParentsKnown
<1>12. RunsOwed'
  <2> SUFFICES ASSUME NEW w \in Listeners, Idles(w)' PROVE Owed(w[2])'
    BY DEF RunsOwed
  <2>1. Idles(w)
    <3>1. jobs' \in Seq(Rows)
      BY <1>1, JobsShape
    <3> QED BY <1>1, <1>11, <3>1, IdlesIn
  <2>2. w[2] \in S
    BY <2>1, OwnersAssumption DEF Idles, S
  <2>3. Owes(y, w[2])
    BY <1>6, <1>7, <2>2, DoingOwes
  <2> QED BY <1>9, <2>3 DEF Owed
<1> QED BY <1>10, <1>11, <1>12 DEF Types

LEMMA NothingWakes ==
  ASSUME WakeInv, UNCHANGED vars
  PROVE  Types' /\ RunsOwed'
<1>1. IInv /\ QuietTypes /\ acts' = acts /\ task' = task /\ jobs' = jobs
  BY DEF WakeInv, TInv, vars, QuietTypes
<1> QED BY <1>1, Untouched, JobsSame, JobRests

\* Every step keeps the types, and what the tasks owe.
LEMMA WakeStep ==
  ASSUME WakeInv, [Next]_vars
  PROVE  WakeInv'
<1>1. IInv'
  BY NextKeeps DEF WakeInv, TInv
<1>2. Types' /\ RunsOwed'
  <2>1. CASE UNCHANGED vars
    BY <2>1, NothingWakes
  <2>2. ASSUME NEW t \in Tasks, Queue(t)
        PROVE  Types' /\ RunsOwed'
    BY <2>2, ReleaseWakes, ReclaimWakes, HandBeginWakes, HandCommitWakes, WaiveWakes, DropDogsWakes,
       DeathReleaseWakes DEF Queue
  <2>3. ASSUME NEW t \in Tasks, Crash(t)
        PROVE  Types' /\ RunsOwed'
    BY <2>3, CrashWakes
  <2>4. ASSUME NEW t \in Tasks, NEW j \in DOMAIN jobs, Job(t, j)
        PROVE  Types' /\ RunsOwed'
    BY <2>4, JobWakesStep
  <2>5. ASSUME NEW t \in Tasks, NEW p \in Projects, Send(t, p) \/ SetMode(t, p)
        PROVE  Types' /\ RunsOwed'
    BY <2>5, SendWakes, SetModeWakes
  <2>6. ASSUME NEW t \in Tasks, NEW w \in Listeners, Pause(t, w) \/ Resume(t, w)
        PROVE  Types' /\ RunsOwed'
    BY <2>6, PauseWakes, ResumeWakes
  <2>7. ASSUME NEW t \in Tasks, NEW a \in Agents,
               Halt(t, a) \/ Unhalt(t, a) \/ Move(t, a) \/ (\E p \in Projects : Die(t, a, p))
        PROVE  Types' /\ RunsOwed'
    BY <2>7, HaltWakes, MoveWakes, DieWakes
  <2>8. ASSUME NEW j \in DOMAIN jobs, Remind(j) \/ RelayTakeBack(j) \/ DropLetter(j)
        PROVE  Types' /\ RunsOwed'
    BY <2>8, RemindWakes, RelayTakeBackWakes, DropLetterWakes
  <2>9. ASSUME NEW p \in Projects, Purge(p)
        PROVE  Types' /\ RunsOwed'
    BY <2>9, PurgeWakes
  <2>10. ASSUME NEW a \in Agents, HaltAlone(a) \/ ContinueOn(a)
         PROVE  Types' /\ RunsOwed'
    BY <2>10, AloneWakes
  <2> QED BY <2>1, <2>2, <2>3, <2>4, <2>5, <2>6, <2>7, <2>8, <2>9, <2>10 DEF Next
<1> QED BY <1>1, <1>2 DEF WakeInv, TInv, Types

LEMMA ListenersListed ==
  ASSUME NEW W \in SUBSET Listeners
  PROVE  SetToSeq(W) \in Seq(Listeners)
<1>1. IsFiniteSet(W)
  BY ListenersAssumption, FS_Subset
<1>2. Cardinality(W) \in Nat /\ ExistsBijection(1..Cardinality(W), W)
  BY <1>1, FS_CardinalityType
<1>3. \E f \in [1..Cardinality(W) -> W] : IsInjective(f)
  BY <1>2 DEF ExistsBijection, Bijection, Injection
<1>4. SetToSeq(W) \in [1..Cardinality(W) -> W]
  BY <1>3 DEF SetToSeq
<1>5. SetToSeq(W) \in [1..Cardinality(W) -> Listeners]
  BY <1>4
<1> QED BY <1>2, <1>5, FunctionSeq

LEMMA InitWakes == Init => WakeInv
<1> SUFFICES ASSUME Init PROVE WakeInv
  OBVIOUS
<1>1. jobs = <<>> /\ DOMAIN jobs = {} /\ task = [t \in Tasks |-> Doing(<<>>, None)]
  BY DEF Init, Idle
<1>2. SharedTypes
  <2>1. acking \subseteq Projects
    BY NumbersAssumption DEF Init
  <2>2. turns \in [Projects -> Seq(Listeners)]
    <3>1. \A p \in Projects : SetToSeq({w \in Listeners : w[2] = p}) \in Seq(Listeners)
      BY ListenersListed
    <3> QED BY <3>1 DEF Init
  <2>3. acts \in 0..MaxActs
    BY NumbersAssumption DEF Init
  <2> QED BY <2>1, <2>2, <2>3 DEF Init, SharedTypes
<1>3. TasksTyped
  <2>1. TaskTyped(Doing(<<>>, None))
    BY DoingTyped, NothingTodo
  <2> QED BY <1>1, <2>1 DEF TasksTyped
<1>4. ParentsKnown
  BY <1>1 DEF ParentsKnown
<1>5. RunsOwed
  BY <1>1 DEF RunsOwed, Idles, Waits, InState
<1> QED BY <1>2, <1>3, <1>4, <1>5, InitInv DEF WakeInv, TInv

LEMMA WakeInductive == Spec => []WakeInv
BY InitWakes, WakeStep, PTL DEF Spec

\* The variables keep their types, for any projects, listeners, batches and tasks: no
\* queue's run reads a claim of a job there is not, or gives a listener a room beyond its
\* batch or below zero.
THEOREM TypesHold == Spec => []TypeOK
<1>1. WakeInv => TypeOK
  BY DEF WakeInv, TInv, IInv, SharedTypes, TasksTyped, TaskTyped, TodoTyped, TypeOK
<1> QED BY <1>1, WakeInductive, PTL

\* No lost wakeup, for any projects, listeners, batches and tasks, over every operation and
\* crashes: once no queue runs, no mail waits while an agent that listens has room for it
\* (dispatch, after_reclaim, recheck_holder, mode_changed, after_move), unless that agent
\* was thawed by continue_on or unhalted alone and its queue has not run since (unrun).
THEOREM ListenersAreServed == Spec => []NoIdleListener
<1>1. WakeInv => NoIdleListener
  <2> SUFFICES ASSUME WakeInv, Quiet, NEW w \in Listeners \ unrun, Idles(w) PROVE FALSE
    BY DEF NoIdleListener, Idles
  <2>1. \A t \in Tasks : task[t] = Doing(<<>>, None)
    BY DEF Quiet, Idle
  <2>2. ~Owed(w[2])
    <3>1. ~Lists(<<>>, w[2])
      BY DEF Lists
    <3> QED BY <2>1, <3>1, DoingOwes DEF Owed
  <2>3. \A t \in Tasks : ~Serving(t, w)
    BY <2>1, DoingRow DEF Serving, Running
  <2> QED BY <2>2, <2>3 DEF WakeInv, RunsOwed
<1> QED BY <1>1, WakeInductive, PTL
=============================================================================
