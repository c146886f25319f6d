-------------------------- MODULE MCAccountSession --------------------------
(***************************************************************************)
(* Three concurrent or successive calls on one account with two possible   *)
(* passwords; two wrong codes or two failed logins are too many.           *)
(***************************************************************************)
EXTENDS AccountSession, TLC

CONSTANTS c1, c2, c3, pw1, pw2

ThreeCalls == {c1, c2, c3}
TwoPasswords == {pw1, pw2}

Interchangeable == Permutations(ThreeCalls) \union Permutations(TwoPasswords)
=============================================================================
