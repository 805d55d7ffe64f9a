------------------------------ MODULE MCLearning ------------------------------
(* Small instances of Learning for TLC. *)
EXTENDS Learning, TLC

CONSTANTS l1, l2, m1

E(t, s, v) == [type |-> t, well |-> TRUE, learner |-> l1, module |-> m1,
               score |-> s, syncVersion |-> v]
\* Two completions, two versions of progress and an event without a score.
MCEvent == <<E("completion", 50, 1), E("completion", 80, 2),
             E("progress", 10, 1), E("progress", 20, 2),
             [E("completion", 0, 1) EXCEPT !.well = FALSE]>>
MCBatch == {<<1>>, <<2>>, <<2, 1, 5>>, <<1, 4, 3>>}

\* Completions meet batches; referrals only meet a module that was started.
MCScenarios == BOOLEAN \X { {"modules", "sync"} } \cup BOOLEAN \X { {"modules", "referral"} }
Symmetric == Permutations(Client)
===============================================================================
