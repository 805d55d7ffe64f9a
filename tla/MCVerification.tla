---------------------------- MODULE MCVerification ----------------------------
(* Small instances of Verification for TLC. *)
EXTENDS Verification, TLC

CONSTANTS u1

Case(a, K, U, r, n) == [alone |-> a, kinds |-> K, users |-> U, rows |-> r, deaths |-> n]
\* Mails to one user, codes to two: with a death, or with overlaps; logins
\* of one whose phone was proven.
MCScenarios ==
  { Case(TRUE, Mailed, {u1}, 3, 1), Case(FALSE, Mailed, {u1}, 2, 0),
    Case(TRUE, {"phone"}, User, 2, 1), Case(FALSE, {"phone"}, User, 2, 0),
    Case(TRUE, Texted, {u1}, 3, 0) }
Symmetric == Permutations(Client)
===============================================================================
