----------------------------- MODULE MCOutboxRelay -----------------------------
(* Small instances of OutboxRelay for TLC: one event with two handlers, and  *)
(* where e2 is an event too, one whose type has no handler.                  *)
EXTENDS OutboxRelay, TLC

CONSTANTS e1, e2, h1, h2, w1, w2

FanOut == [e \in Event |-> IF e = e1 THEN {h1, h2} ELSE {}]

Symmetry == Permutations({w1, w2}) \cup Permutations({h1, h2})
===============================================================================
