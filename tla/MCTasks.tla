------------------------------ MODULE MCTasks ------------------------------
(* Tasks on a small instance; calls and titles are interchangeable.        *)
EXTENDS Tasks, TLC

Symmetry == Permutations(Calls) \cup Permutations(Titles)

===========================================================================
