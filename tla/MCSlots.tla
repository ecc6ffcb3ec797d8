------------------------------ MODULE MCSlots ------------------------------
(* Small instances of Slots for TLC.                                        *)
EXTENDS SlotsPool, TLC

Symmetry == Permutations(Requests) \cup Permutations(Agents)

=============================================================================
