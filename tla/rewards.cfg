SPECIFICATION RewardsSpec
CONSTANTS
  User = {u1}
  RewardModule = {m1}
  RewardCode = {c1}
  Payout = {1, 2, 3}
  None = None
  BaseReward <- MCBaseReward
  Multiplier <- MCMultiplier
  ReferralBonus = 1
  MaxStroops = 100
  StreakDays = {0, 12}
  Amounts = {2, 3}
  MaxLost = 1
  MaxRestarts = 1
INVARIANTS NeverOverdrawn BooksAgree ClaimPaidOnce
CHECK_DEADLOCK FALSE
