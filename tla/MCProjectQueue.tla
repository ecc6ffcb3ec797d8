--------------------------- MODULE MCProjectQueue ---------------------------
(* Small instances of ProjectQueue for TLC: project 2 relays from project 1. *)
EXTENDS ProjectQueue

CONSTANTS a1, a2, t1, t2

\* an agent listens on each project, and project 2 on project 1
Each == {<<a1, 1>>, <<a2, 2>>, <<2, 1>>}

\* the user too listens on project 2
WithUser == Each \cup {<<User, 2>>}

\* two agents listen on project 2, which takes all the mail of project 1
Through == {<<2, 1>>, <<a1, 2>>, <<a2, 2>>}

\* the watchdog on project 1 takes one batch and is spent
Brief == {<<a1, 1>>}

OneAtATime == [w \in Listeners |-> 1]

BothAck == {{1, 2}}

\* InOrder and Select, which the proofs reason about, are SetToSortSeq and SelectSeq
ASSUME OrderIsSorted == \A S \in SUBSET (1..5) : InOrder(S) = SetToSortSeq(S, <)

ASSUME SelectIsSelectSeq ==
  \A n \in 0..4 : \A s \in [1..n -> 1..3] : \A S \in SUBSET (1..3) :
    LET Kept(x) == x \notin S
    IN  Without(s, S) = SelectSeq(s, Kept)

Symmetry == Permutations(Tasks)
=============================================================================
