---------------------------- MODULE MCDeliveryQueue ----------------------------
(* A small instance of DeliveryQueue for TLC. *)
EXTENDS DeliveryQueue, TLC

MCKind == <<"email", "push", "webhook", "webhook", "webhook", "funding">>

\* Three queries name the limit that the rows have; the environment gives the
\* fundings the same one, a lower or a higher one.
WithFunding(n) == [k \in Kinds |-> IF k = "funding" THEN n ELSE MaxAttempts]

\* One queue at a time, with and without overlaps.
MCScenarios ==
  ({TRUE} \X { {1}, {2}, {3, 4, 5} } \X {WithFunding(MaxAttempts)})
    \cup ({FALSE} \X { {1}, {2}, {3} } \X {WithFunding(MaxAttempts)})
    \cup (BOOLEAN \X { {6} } \X { WithFunding(n) : n \in 1..(MaxAttempts + 1) })
Symmetric == Permutations(Drain) \cup Permutations(Caller)
===============================================================================
