---------------------------- MODULE MCRefreshTokens ----------------------------
(* A small instance of RefreshTokens, as Sessions names it, for TLC.          *)
EXTENDS Sessions, TLC

Symmetric == Permutations(Session) \cup Permutations(Refresh)
===============================================================================
