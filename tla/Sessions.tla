------------------------------- MODULE Sessions -------------------------------
(***************************************************************************)
(* RefreshTokens under names of its own, so that what it promises can be   *)
(* stated beside AccountLifecycle, which knows of the sessions only that   *)
(* an account has some.                                                    *)
(***************************************************************************)

CONSTANTS
  Session, Refresh,    \* sessions; requests of RefreshTokens
  MaxTokens, MaxFaults \* its bounds

VARIABLES family, expired, token, tokenPc, held, listed, late, faults

Tok == INSTANCE RefreshTokens WITH
       Request <- Refresh, session <- family, pc <- tokenPc

ASSUME SessionsAssumption == Tok!TokenAssumption

SessionsSpec == Tok!Spec

-------------------------------------------------------------------------------
\* The properties, stated and explained in RefreshTokens.

\* A family has one successor at a time (rotate).
OneSuccessor == Tok!OneSuccessor

\* One token at most is minted in a session that was revoked (rotate).
LateAtMostOnce == Tok!LateAtMostOnce

\* A live session has its token, or a request that brings it (rotate).
LiveIsUsable == Tok!LiveIsUsable

\* A family without a successor never gets one again (rotate, revokeFamily).
DeadFamilyStaysDead == Tok!DeadFamilyStaysDead
===============================================================================
