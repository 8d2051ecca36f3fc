---------------------------- MODULE MCAccounts ----------------------------
(***************************************************************************)
(* Small instances of Accounts.  Every sign-up tries the name a, which the *)
(* first account has; npm users ask for a or b.                            *)
(***************************************************************************)
EXTENDS LoginDelay, TLC

CONSTANTS a, b, pw, github, other, x1, x2, x3, home, away

MCNames == {a, b}
MCKeys == {<<a, home>>, <<a, away>>, <<b, home>>}
MCPasswords == {pw}
MCProviders == {github, other}
MCExternals == {x1, x2, x3}
MCProviderOf == (x1 :> github) @@ (x2 :> other) @@ (x3 :> other)
MCNameChoices == [e \in MCExternals |-> <<a, b>>]

(* The loop agrees with the closed form, far beyond the 63 doublings that  *)
(* would overflow, when six doublings reach the cap, as the defaults do    *)
(* (250 ms and 8 s, in Accounts_reuse.cfg).  A lower cap lets the run of   *)
(* the interleavings reach it.                                             *)
ASSUME MaxDelay <= Base * 2^6 =>
  \A n \in 1..70 :
    Penalty(n) = IF n > 6 THEN MaxDelay ELSE Least(MaxDelay, Base * 2^(n - 1))
ASSUME \A n \in 0..30 : TwoTo[n] = 2^n

RequestSymmetry == Permutations(Requests)
=============================================================================
