-------------------------- MODULE MCAccountLifecycle --------------------------
(* Small instances of AccountLifecycle for TLC. *)
EXTENDS AccountLifecycle, TLC

CONSTANTS d1, d2, e1, e2

\* Both tables without overlaps, one table at a time with them.
MCScenarios == { <<TRUE, {d1, d2, e1}>>, <<FALSE, {d1, d2}>>, <<FALSE, {e1, e2}>> }
Symmetric == Permutations(Client) \cup Permutations(Sweeper)
===============================================================================
