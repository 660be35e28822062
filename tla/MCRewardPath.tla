----------------------------- MODULE MCRewardPath -----------------------------
(* TLC instance of RewardPath: a turn can be punished or rewarded.          *)
EXTENDS RewardPath

Values == {-1, 2}
===============================================================================
