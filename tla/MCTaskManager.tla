---------------------------- MODULE MCTaskManager ----------------------------
(* Instances of TaskManager for TLC. *)
EXTENDS TaskManager, TLC

CONSTANTS v, a, b

OneJob  == <<{a, b}>>
TwoJobs == <<{v}, {a}>>
EmptyJob == <<{a}, {}>>
Sym == Permutations({a, b})
=============================================================================
