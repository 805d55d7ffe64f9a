------------------------------ MODULE MCRewards ------------------------------
(* Values of the constants of Rewards, as LearnerRewards names it, for TLC.   *)
EXTENDS Integers, LearnerRewards

\* One module at an intermediate level; amounts in tens of a small unit.
MCBaseReward == [m \in RewardModule |-> 2]
MCMultiplier == [m \in RewardModule |-> <<3, 2>>]
===============================================================================
