---------------------------- MODULE LearnerRewards ----------------------------
(***************************************************************************)
(* Rewards under names of its own, so that what it promises can be stated  *)
(* beside Learning.  The two have nothing in common: Rewards keeps claims  *)
(* in memory and pays them, Learning books rewards in the database.        *)
(***************************************************************************)

CONSTANTS
  User, RewardModule, RewardCode,
  Payout,              \* requests of Rewards: claims and withdrawals
  None, BaseReward, Multiplier, ReferralBonus, MaxStroops,
  StreakDays, Amounts, MaxLost, MaxRestarts  \* its bounds

VARIABLES
  codes, claimed, book, payPc, payFor, loaded, seq, payment,
  raced, lost, erased, restarts

Rew == INSTANCE Rewards WITH
       Module <- RewardModule, Code <- RewardCode, Request <- Payout,
       pc <- payPc, asked <- payFor

ASSUME LearnerRewardsAssumption == Rew!RewardAssumption

RewardsSpec == Rew!Spec

-------------------------------------------------------------------------------
\* The properties, stated and explained in Rewards.

\* Nobody withdraws more than was earned (processWithdrawal).
NeverOverdrawn == Rew!NeverOverdrawn

\* The books and the ledger agree (claimReward, processWithdrawal).
BooksAgree == Rew!BooksAgree

\* A reward is paid once (claimReward).
ClaimPaidOnce == Rew!ClaimPaidOnce
===============================================================================
