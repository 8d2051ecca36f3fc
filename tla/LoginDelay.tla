----------------------------- MODULE LoginDelay -----------------------------
(***************************************************************************)
(* npm logins with the limiter in front of them, composed with the other   *)
(* requests of Accounts.  The counters are in memory and take no part in   *)
(* any transaction: an attempt reads its delay, sleeps, and is counted when*)
(* it has been refused, while other attempts do the same.                  *)
(***************************************************************************)
EXTENDS Accounts

CONSTANTS
  Keys,     \* a user name and a client address each
  Base,     \* Config.DelayBase
  MaxDelay, \* Config.DelayCap
  NoKey     \* a request that is no npm login

ASSUME DelayAssumption == Base \in Nat /\ MaxDelay \in Nat /\ IsFiniteSet(Requests)

VARIABLES
  fails,    \* limiter.fails
  key,      \* the name and address of each npm login
  login,    \* where it is
  paid,     \* the delay it sleeps
  seen      \* history: the refusals that counted when it came in

delayVars == <<fails, key, login, paid, seen>>

(* The loop of penalty: d is doubled n - 1 times, up to the cap.           *)
Doubled[n \in Nat] ==
  IF n <= 1 THEN Base
  ELSE LET d == Doubled[n - 1]
       IN  IF 2 * d >= MaxDelay THEN MaxDelay ELSE 2 * d

Penalty(n) == IF n = 0 \/ Base = 0 THEN 0 ELSE Doubled[n]

(* Mutant: one counter for all addresses.                                  *)
CountedFor_Name(r) == { k \in Keys : k[1] = key[r][1] }

CountedFor(r) == {key[r]}

DelayedInit ==
  /\ Init
  /\ fails = [k \in Keys |-> 0]
  /\ key = [r \in Requests |-> NoKey]
  /\ login = [r \in Requests |-> "none"]
  /\ paid = [r \in Requests |-> 0]
  /\ seen = [r \in Requests |-> {}]

----------------------------------------------------------------------------
Enters(r, to) == login' = [login EXCEPT ![r] = to]

(* Refusals of one name and address that no success has cleared.           *)
Counting(k) == { q \in Requests : login[q] = "refused" /\ key[q] = k }

(* Login reads the delay and goes to sleep.                                *)
Arrive(r) ==
  /\ pc[r] = "idle"
  /\ login[r] = "none"
  /\ Enters(r, "asleep")
  /\ \E k \in Keys :
       /\ key' = [key EXCEPT ![r] = k]
       /\ paid' = [paid EXCEPT ![r] = Penalty(fails[k])]
       /\ seen' = [seen EXCEPT ![r] = Counting(k)]
  /\ UNCHANGED <<vars, fails>>

(* The client hangs up, or the look-up fails: not counted.                 *)
GiveUp(r) ==
  /\ login[r] = "asleep"
  /\ Enters(r, "over")
  /\ UNCHANGED <<vars, fails, key, paid, seen>>

(* A wrong password, or an unknown name when DISABLE_SIGNUP is set.        *)
Refuse(r) ==
  /\ login[r] = "asleep"
  /\ Enters(r, "refused")
  /\ fails' = [k \in Keys |-> IF k \in CountedFor(r) THEN fails[k] + 1 ELSE fails[k]]
  /\ UNCHANGED <<vars, key, paid, seen>>

WakeUp(r) ==
  /\ login[r] = "asleep"
  /\ Enters(r, "awake")
  /\ FindUser(r)
  /\ given'[r].name = key[r][1]
  /\ UNCHANGED <<fails, key, paid, seen>>

(* The token is there; now the counter is deleted.                         *)
Reset(r) ==
  /\ login[r] = "awake"
  /\ pc[r] = "event"
  /\ login' = [q \in Requests |->
                 IF q = r \/ q \in Counting(key[r]) THEN "over" ELSE login[q]]
  /\ fails' = [fails EXCEPT ![key[r]] = 0]
  /\ UNCHANGED <<vars, key, paid, seen>>

Other(r) == \/ login[r] = "none" /\ (UseToken(r) \/ OAuthStep(r) \/ AccountStep(r))
            \/ login[r] = "awake" /\ (CreateUser(r) \/ IssueToken(r))
            \/ login[r] # "awake" /\ RecordEvent(r)
            \/ Fail(r)

DelayedNext ==
  \E r \in Requests :
    \/ Arrive(r) \/ GiveUp(r) \/ Refuse(r) \/ WakeUp(r) \/ Reset(r)
    \/ Other(r) /\ UNCHANGED delayVars

DelayedSpec == DelayedInit /\ [][DelayedNext]_<<vars, delayVars>>

----------------------------------------------------------------------------
Least(x, y) == IF x < y THEN x ELSE y

(* Two to the power n, which the provers do not know.                      *)
TwoTo[n \in Nat] == IF n = 0 THEN 1 ELSE 2 * TwoTo[n - 1]

(* delay.go:9 "slows down repeated login failures per username+IP pair. The*)
(* penalty grows exponentially with each failure and clears on success":   *)
(* an attempt sleeps Base * 2^(n-1), at most MaxDelay, after n refusals of *)
(* the same name and address that had been answered when it came in, those *)
(* before the last success left out, and nothing for anybody else's.       *)
DelayIsOwed ==
  \A r \in Requests :
    LET n == Cardinality(seen[r])
    IN  paid[r] = IF n = 0 THEN 0 ELSE Least(MaxDelay, Base * TwoTo[n - 1])
=============================================================================
