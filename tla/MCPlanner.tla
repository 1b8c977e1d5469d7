----------------------------- MODULE MCPlanner -----------------------------
(* A small household for the planning assistant. *)
EXTENDS Planner, TLC

CONSTANTS s1, s2, p1

MCSlots == {s1, s2}
Symmetric == Permutations(MCSlots)
============================================================================
