-------------------------- MODULE LoginDelayProofs --------------------------
(***************************************************************************)
(* Theorems about LoginDelay, for all sets of requests, names and          *)
(* addresses and all delays: the limiter leaves the accounts as they are   *)
(* without it, so that what AccountsProofs shows holds for the composition,*)
(* no refusal is lost or counted twice, and the sleep is Base * 2^(n - 1), *)
(* at most MaxDelay, for n of them.                                        *)
(***************************************************************************)
EXTENDS LoginDelay, AccountsProofs, WellFoundedInduction

Phases == {"none", "asleep", "awake", "refused", "over"}

DelayTyped ==
  /\ fails \in [Keys -> Nat]
  /\ key \in [Requests -> Keys \cup {NoKey}]
  /\ login \in [Requests -> Phases]
  /\ DOMAIN paid = Requests
  /\ seen \in [Requests -> SUBSET Requests]
  /\ \A r \in Requests : login[r] # "none" => key[r] \in Keys

(* The counter of a name and address is the number of its refusals.        *)
Counted == \A k \in Keys : fails[k] = Cardinality(Counting(k))

(* Every attempt sleeps the penalty for the refusals before it that count, *)
(* whatever attempts overlap with it.                                      *)
DelayIsCounted == \A r \in Requests : paid[r] = Penalty(Cardinality(seen[r]))

----------------------------------------------------------------------------
(* The composition implements Accounts.                                    *)

LEMMA StepsAreAccountSteps ==
  ASSUME [DelayedNext]_<<vars, delayVars>>
  PROVE  [Next]_vars
PROOF
  <1>1. CASE UNCHANGED <<vars, delayVars>>
    BY <1>1
  <1>2. CASE DelayedNext
    <2>1. PICK r \in Requests :
            \/ Arrive(r) \/ GiveUp(r) \/ Refuse(r) \/ WakeUp(r) \/ Reset(r)
            \/ Other(r) /\ UNCHANGED delayVars
      BY <1>2 DEF DelayedNext
    <2>2. CASE Arrive(r) \/ GiveUp(r) \/ Refuse(r) \/ Reset(r)
      BY <2>2 DEF Arrive, GiveUp, Refuse, Reset
    <2>3. CASE WakeUp(r)
      BY <2>3 DEF WakeUp, Next, NpmStep
    <2>4. CASE Other(r)
      BY <2>4 DEF Other, Next, NpmStep
    <2> QED
      BY <2>1, <2>2, <2>3, <2>4
  <1> QED
    BY <1>1, <1>2

(* Sleeping, refusing and counting touch no table: what Accounts allows is *)
(* all that happens (Login, auth.go:85).                                   *)
THEOREM DelayedIsAccounts == DelayedSpec => Spec
PROOF
  <1>1. DelayedInit => Init
    BY DEF DelayedInit
  <1>2. [DelayedNext]_<<vars, delayVars>> => [Next]_vars
    BY StepsAreAccountSteps
  <1> QED
    BY <1>1, <1>2, PTL DEF DelayedSpec, Spec

(* With the limiter, too: well-typed tables, and unique, enterable accounts*)
(* whose rows are their own, whose OAuth states are used once and whose    *)
(* tokens were asked for with their password.                              *)
THEOREM DelayedKeepsAccounts ==
  DelayedSpec => [](/\ TypeOK
                    /\ LoginsAreUnique
                    /\ EveryAccountCanBeEntered
                    /\ RowsAreTheirOwn
                    /\ StatesAreUsedOnce
                    /\ PasswordOpensAccount)
PROOF
  BY DelayedIsAccounts, AccountsTyped, LoginsUnique, AccountsEnterable, RowsOwned,
     StatesUsedOnce, PasswordOpens, PTL

----------------------------------------------------------------------------
(* The counters.                                                           *)

LEMMA InitCounted == DelayedInit => DelayTyped /\ Counted /\ DelayIsCounted
PROOF
  <1> SUFFICES ASSUME DelayedInit PROVE DelayTyped /\ Counted /\ DelayIsCounted
    OBVIOUS
  <1>1. DelayTyped
    BY DEF DelayedInit, DelayTyped, Phases
  <1>2. \A k \in Keys : Counting(k) = {}
    BY DEF DelayedInit, Counting
  <1>3. Counted
    BY <1>2, FS_EmptySet DEF DelayedInit, Counted
  <1>4. Penalty(0) = 0
    BY DEF Penalty
  <1>5. DelayIsCounted
    BY <1>4, FS_EmptySet DEF DelayedInit, DelayIsCounted
  <1> QED
    BY <1>1, <1>3, <1>5

LEMMA NextCounted ==
  ASSUME DelayTyped, Counted, DelayIsCounted, [DelayedNext]_<<vars, delayVars>>
  PROVE  DelayTyped' /\ Counted' /\ DelayIsCounted'
PROOF
  <1>1. CASE UNCHANGED delayVars
    BY <1>1 DEF delayVars, DelayTyped, Counted, Counting, DelayIsCounted
  <1>2. ASSUME NEW r \in Requests, Arrive(r)
        PROVE  DelayTyped' /\ Counted' /\ DelayIsCounted'
    <2>1. PICK k \in Keys : /\ key' = [key EXCEPT ![r] = k]
                            /\ paid' = [paid EXCEPT ![r] = Penalty(fails[k])]
                            /\ seen' = [seen EXCEPT ![r] = Counting(k)]
      BY <1>2 DEF Arrive
    <2>2. /\ login[r] = "none"
          /\ login' = [login EXCEPT ![r] = "asleep"]
          /\ fails' = fails
      BY <1>2 DEF Arrive, Enters
    <2>3. \A j \in Keys : Counting(j) \subseteq Requests /\ Counting(j)' = Counting(j)
      BY <2>1, <2>2 DEF Counting, DelayTyped
    <2>4. DelayTyped'
      BY <2>1, <2>2, <2>3 DEF DelayTyped, Phases
    <2>5. Counted'
      BY <2>2, <2>3 DEF Counted
    <2>6. \A q \in Requests : paid'[q] = Penalty(Cardinality(seen'[q]))
      BY <2>1 DEF DelayTyped, Counted, DelayIsCounted
    <2> QED
      BY <2>4, <2>5, <2>6 DEF DelayIsCounted, Penalty
  <1>3. ASSUME NEW r \in Requests, GiveUp(r) \/ WakeUp(r)
        PROVE  DelayTyped' /\ Counted' /\ DelayIsCounted'
    <2>1. /\ login[r] = "asleep"
          /\ UNCHANGED <<fails, key, paid, seen>>
          /\ \E to \in {"over", "awake"} : login' = [login EXCEPT ![r] = to]
      BY <1>3 DEF GiveUp, WakeUp, Enters
    <2>2. \A j \in Keys : Counting(j)' = Counting(j)
      BY <2>1 DEF Counting, DelayTyped
    <2> QED
      BY <2>1, <2>2 DEF DelayTyped, Phases, Counted, DelayIsCounted
  <1>4. ASSUME NEW r \in Requests, Refuse(r)
        PROVE  DelayTyped' /\ Counted' /\ DelayIsCounted'
    <2>1. /\ login[r] = "asleep"
          /\ login' = [login EXCEPT ![r] = "refused"]
          /\ fails' = [k \in Keys |-> IF k = key[r] THEN fails[k] + 1 ELSE fails[k]]
          /\ UNCHANGED <<key, paid, seen>>
      BY <1>4 DEF Refuse, Enters, CountedFor
    <2>2. key[r] \in Keys
      BY <2>1 DEF DelayTyped
    <2>3. DelayTyped'
      BY <2>1 DEF DelayTyped, Phases
    <2>4. ASSUME NEW k \in Keys  PROVE fails'[k] = Cardinality(Counting(k)')
      <3>1. IsFiniteSet(Counting(k))
        BY FS_Subset, DelayAssumption DEF Counting
      <3>2. CASE k = key[r]
        <4>1. Counting(k)' = Counting(k) \cup {r} /\ r \notin Counting(k)
          BY <2>1, <3>2 DEF Counting, DelayTyped
        <4>2. Cardinality(Counting(k) \cup {r}) = Cardinality(Counting(k)) + 1
          BY <3>1, <4>1, FS_AddElement
        <4>3. fails'[k] = fails[k] + 1
          BY <2>1, <3>2
        <4> QED
          BY <4>1, <4>2, <4>3 DEF Counted
      <3>3. CASE k # key[r]
        <4>1. Counting(k)' = Counting(k)
          BY <2>1, <3>3 DEF Counting, DelayTyped
        <4> QED
          BY <2>1, <3>3, <4>1 DEF Counted
      <3> QED
        BY <3>2, <3>3
    <2> QED
      BY <2>1, <2>3, <2>4 DEF Counted, DelayIsCounted
  <1>5. ASSUME NEW r \in Requests, Reset(r)
        PROVE  DelayTyped' /\ Counted' /\ DelayIsCounted'
    <2>1. /\ login[r] = "awake"
          /\ login' = [q \in Requests |->
               IF q = r \/ q \in Counting(key[r]) THEN "over" ELSE login[q]]
          /\ fails' = [fails EXCEPT ![key[r]] = 0]
          /\ UNCHANGED <<key, paid, seen>>
      BY <1>5 DEF Reset
    <2>2. key[r] \in Keys
      BY <2>1 DEF DelayTyped
    <2>3. DelayTyped'
      BY <2>1, <2>2 DEF DelayTyped, Phases, Counting
    <2>4. ASSUME NEW k \in Keys  PROVE fails'[k] = Cardinality(Counting(k)')
      <3>1. CASE k = key[r]
        <4>1. Counting(k)' = {}
          BY <2>1, <3>1 DEF Counting
        <4> QED
          BY <2>1, <3>1, <4>1, FS_EmptySet DEF DelayTyped
      <3>2. CASE k # key[r]
        <4>1. Counting(k)' = Counting(k)
          BY <2>1, <3>2 DEF Counting
        <4> QED
          BY <2>1, <2>2, <3>2, <4>1 DEF Counted, DelayTyped
      <3> QED
        BY <3>1, <3>2
    <2> QED
      BY <2>1, <2>3, <2>4 DEF Counted, DelayIsCounted
  <1> QED
    BY <1>1, <1>2, <1>3, <1>4, <1>5 DEF DelayedNext, delayVars

(* No refusal is lost to a race, none is counted for another name or       *)
(* address, and a success clears exactly those of its own.                 *)
THEOREM DelaysCounted == DelayedSpec => []DelayIsCounted
PROOF
  <1>1. DelayTyped /\ Counted /\ DelayIsCounted /\ [DelayedNext]_<<vars, delayVars>>
          => (DelayTyped /\ Counted /\ DelayIsCounted)'
    BY NextCounted
  <1> QED
    BY <1>1, InitCounted, PTL DEF DelayedSpec

----------------------------------------------------------------------------
(* The doubling.                                                           *)

LEMMA LeastNatural ==
  ASSUME NEW S \in SUBSET Nat, S # {}
  PROVE  \E x \in S : \A y \in S : x <= y
PROOF
  <1> DEFINE R == OpToRel(<, Nat)
  <1>1. R = { ss \in Nat \X Nat : ss[1] < ss[2] }
    BY DEF OpToRel
  <1>2. IsWellFoundedOn(R, Nat)
    BY NatLessThanWellFounded
  <1> HIDE DEF R
  <1>3. PICK x \in S : \A y \in S : ~(<<y, x>> \in R)
    BY <1>2, WFMin
  <1>4. \A y \in S : ~(y < x)
    BY <1>1, <1>3
  <1> QED
    BY <1>4

(* A function on Nat may be defined by a first value, for 0 to m, and a    *)
(* step from each value to the next.                                       *)
Begins(g, n, m, b, s) ==
  \A i \in 0..n : g[i] = IF i <= m THEN b ELSE s[g[i - 1]]

LEMMA BeginningsExist ==
  ASSUME NEW S, NEW b \in S, NEW s \in [S -> S], NEW m \in Nat, NEW n \in Nat
  PROVE  \E g \in [0..n -> S] : Begins(g, n, m, b, s)
PROOF
  <1> DEFINE Bad == { k \in Nat : ~ \E g \in [0..k -> S] : Begins(g, k, m, b, s) }
  <1> SUFFICES ASSUME Bad # {} PROVE FALSE
    OBVIOUS
  <1>1. PICK k \in Bad : \A j \in Bad : k <= j
    BY LeastNatural
  <1>2. CASE k = 0
    <2> DEFINE g == [i \in 0..k |-> b]
    <2>1. g \in [0..k -> S] /\ \A i \in 0..k : i = 0 /\ g[i] = b
      BY <1>2
    <2>2. Begins(g, k, m, b, s)
      BY <2>1 DEF Begins
    <2> QED
      BY <1>1, <2>1, <2>2
  <1>3. CASE k # 0
    <2>1. k - 1 \in Nat /\ k - 1 \notin Bad
      BY <1>1, <1>3
    <2>2. PICK h \in [0..(k - 1) -> S] : Begins(h, k - 1, m, b, s)
      BY <2>1
    <2> DEFINE g == [i \in 0..k |-> IF i < k THEN h[i]
                                    ELSE IF k <= m THEN b ELSE s[h[k - 1]]]
    <2>3. \A i \in 0..(k - 1) : i \in 0..k /\ i < k
      BY <1>1
    <2>4. h[k - 1] \in S
      BY <2>1, <2>2
    <2>5. g \in [0..k -> S]
      BY <1>1, <2>2, <2>4
    <2>6. \A i \in 0..k : g[i] = IF i <= m THEN b ELSE s[g[i - 1]]
      <3> TAKE i \in 0..k
      <3>1. CASE i < k
        <4>1. i \in 0..(k - 1) /\ (i > m => i - 1 \in 0..k /\ i - 1 < k)
          BY <1>1, <3>1
        <4>2. h[i] = IF i <= m THEN b ELSE s[h[i - 1]]
          BY <2>2, <4>1 DEF Begins
        <4> QED
          BY <3>1, <4>1, <4>2
      <3>2. CASE ~(i < k)
        <4>1. i = k /\ k - 1 \in 0..k /\ k - 1 < k
          BY <1>1, <2>1, <3>2
        <4> QED
          BY <4>1
      <3> QED
        BY <3>1, <3>2
    <2> HIDE DEF g
    <2>7. Begins(g, k, m, b, s)
      BY <2>6 DEF Begins
    <2> QED
      BY <1>1, <2>5, <2>7
  <1> QED
    BY <1>2, <1>3

LEMMA BeginningsAgree ==
  ASSUME NEW b, NEW s, NEW m \in Nat, NEW g, NEW h, NEW n \in Nat, NEW k \in Nat,
         Begins(g, n, m, b, s), Begins(h, k, m, b, s),
         NEW i \in Nat, i <= n, i <= k
  PROVE  g[i] = h[i]
PROOF
  <1> DEFINE Bad == { j \in Nat : j <= n /\ j <= k /\ g[j] # h[j] }
  <1> SUFFICES ASSUME Bad # {} PROVE FALSE
    OBVIOUS
  <1>1. PICK j \in Bad : \A l \in Bad : j <= l
    BY LeastNatural
  <1>2. j \in 0..n /\ j \in 0..k
    BY <1>1
  <1>3. /\ g[j] = IF j <= m THEN b ELSE s[g[j - 1]]
        /\ h[j] = IF j <= m THEN b ELSE s[h[j - 1]]
    BY <1>2 DEF Begins
  <1>4. j > m => j - 1 \in Nat /\ j - 1 \notin Bad
    BY <1>1
  <1>5. j > m => g[j - 1] = h[j - 1]
    BY <1>1, <1>4
  <1> QED
    BY <1>1, <1>3, <1>5

Stepwise(f, S, m, b, s) ==
  f \in [Nat -> S] /\ \A n \in Nat : f[n] = IF n <= m THEN b ELSE s[f[n - 1]]

LEMMA StepsDefine ==
  ASSUME NEW S, NEW b \in S, NEW s \in [S -> S], NEW m \in Nat
  PROVE  \E f : Stepwise(f, S, m, b, s)
PROOF
  <1> DEFINE G(n) == CHOOSE g \in [0..n -> S] : Begins(g, n, m, b, s)
             f == [n \in Nat |-> G(n)[n]]
  <1>1. ASSUME NEW n \in Nat
        PROVE  G(n) \in [0..n -> S] /\ Begins(G(n), n, m, b, s)
    BY BeginningsExist
  <1> HIDE DEF G
  <1>2. f \in [Nat -> S]
    BY <1>1
  <1>3. ASSUME NEW n \in Nat PROVE f[n] = IF n <= m THEN b ELSE s[f[n - 1]]
    <2>1. f[n] = IF n <= m THEN b ELSE s[G(n)[n - 1]]
      BY <1>1 DEF Begins
    <2>2. CASE n > m
      <3>1. n - 1 \in Nat /\ n - 1 <= n
        BY <2>2
      <3>2. G(n)[n - 1] = G(n - 1)[n - 1]
        BY <1>1, <3>1, BeginningsAgree
      <3> QED
        BY <2>1, <3>1, <3>2
    <2>3. CASE n <= m
      BY <2>1, <2>3
    <2> QED
      BY <2>2, <2>3
  <1> QED
    BY <1>2, <1>3 DEF Stepwise

LEMMA DoubledDef ==
  Doubled = [n \in Nat |->
    IF n <= 1 THEN Base
    ELSE LET d == Doubled[n - 1] IN IF 2 * d >= MaxDelay THEN MaxDelay ELSE 2 * d]
PROOF
  <1> DEFINE s == [d \in Nat |-> IF 2 * d >= MaxDelay THEN MaxDelay ELSE 2 * d]
  <1>1. Base \in Nat /\ s \in [Nat -> Nat] /\ 1 \in Nat
    BY DelayAssumption
  <1>2. PICK f : Stepwise(f, Nat, 1, Base, s)
    <2> HIDE DEF s
    <2> QED
      BY <1>1, StepsDefine
  <1>3. \A n \in Nat : f[n] =
          IF n <= 1 THEN Base
          ELSE LET d == f[n - 1] IN IF 2 * d >= MaxDelay THEN MaxDelay ELSE 2 * d
    <2> TAKE n \in Nat
    <2>1. /\ f[n] = IF n <= 1 THEN Base ELSE s[f[n - 1]]
          /\ n > 1 => n - 1 \in Nat /\ f[n - 1] \in Nat
      BY <1>2 DEF Stepwise
    <2> QED
      BY <2>1
  <1>4. f = [n \in Nat |->
          IF n <= 1 THEN Base
          ELSE LET d == f[n - 1] IN IF 2 * d >= MaxDelay THEN MaxDelay ELSE 2 * d]
    BY <1>2, <1>3 DEF Stepwise
  <1> QED
    BY <1>4 DEF Doubled

LEMMA TwoToDef == TwoTo = [n \in Nat |-> IF n = 0 THEN 1 ELSE 2 * TwoTo[n - 1]]
PROOF
  <1> DEFINE s == [x \in Nat |-> 2 * x]
  <1>1. s \in [Nat -> Nat] /\ 1 \in Nat /\ 0 \in Nat
    OBVIOUS
  <1>2. PICK f : Stepwise(f, Nat, 0, 1, s)
    <2> HIDE DEF s
    <2> QED
      BY <1>1, StepsDefine
  <1>3. \A n \in Nat : f[n] = IF n = 0 THEN 1 ELSE 2 * f[n - 1]
    <2> TAKE n \in Nat
    <2>1. /\ f[n] = IF n <= 0 THEN 1 ELSE s[f[n - 1]]
          /\ n > 0 => n - 1 \in Nat /\ f[n - 1] \in Nat
      BY <1>2 DEF Stepwise
    <2> QED
      BY <2>1
  <1>4. f = [n \in Nat |-> IF n = 0 THEN 1 ELSE 2 * f[n - 1]]
    BY <1>2, <1>3 DEF Stepwise
  <1> QED
    BY <1>4 DEF TwoTo

(* The loop of penalty computes the capped power (delay.go:34).            *)
LEMMA DoubledIsPower ==
  ASSUME Base <= MaxDelay, NEW n \in Nat \ {0}
  PROVE  /\ TwoTo[n - 1] \in Nat
         /\ Doubled[n] = Least(MaxDelay, Base * TwoTo[n - 1])
PROOF
  <1> DEFINE Holds(k) == /\ TwoTo[k - 1] \in Nat
                         /\ Doubled[k] = Least(MaxDelay, Base * TwoTo[k - 1])
             Bad == { k \in Nat : k >= 1 /\ ~Holds(k) }
  <1> SUFFICES ASSUME Bad # {} PROVE FALSE
    <2> SUFFICES Holds(n)
      OBVIOUS
    <2> HIDE DEF Holds
    <2> QED
      OBVIOUS
  <1>1. PICK k \in Bad : \A j \in Bad : k <= j
    BY LeastNatural
  <1>2. /\ Base \in Nat /\ MaxDelay \in Nat
        /\ k \in Nat /\ k >= 1 /\ k - 1 \in Nat
    BY <1>1, DelayAssumption
  <1>3. TwoTo[k - 1] = IF k - 1 = 0 THEN 1 ELSE 2 * TwoTo[k - 1 - 1]
    BY <1>2, TwoToDef
  <1>4. Doubled[k] =
          IF k <= 1 THEN Base
          ELSE LET d == Doubled[k - 1] IN IF 2 * d >= MaxDelay THEN MaxDelay ELSE 2 * d
    BY <1>2, DoubledDef
  <1>5. CASE k = 1
    <2>1. TwoTo[k - 1] = 1 /\ Doubled[k] = Base
      BY <1>3, <1>4, <1>5
    <2> QED
      BY <1>1, <1>2, <2>1 DEF Least
  <1>6. CASE k > 1
    <2>1. Holds(k - 1)
      BY <1>1, <1>2, <1>6
    <2> DEFINE x == TwoTo[k - 1 - 1]
               y == Base * x
    <2>2. x \in Nat /\ Doubled[k - 1] = Least(MaxDelay, y)
      BY <2>1
    <2>3. TwoTo[k - 1] = 2 * x
      BY <1>2, <1>3, <1>6
    <2> HIDE DEF x
    <2>4. y \in Nat /\ Base * (2 * x) = 2 * y
      BY <1>2, <2>2
    <2> HIDE DEF y
    <2>5. Doubled[k] = Least(MaxDelay, 2 * y)
      BY <1>2, <1>4, <1>6, <2>2, <2>4 DEF Least
    <2> QED
      BY <1>1, <2>2, <2>3, <2>4, <2>5
  <1> QED
    BY <1>2, <1>5, <1>6

(* An attempt sleeps Base * 2^(n - 1), but no longer than MaxDelay, for the*)
(* n refusals of its name and address that count, for any number of them   *)
(* and any attempts that overlap (limiter.penalty, delay.go:27), if the    *)
(* first penalty is within the cap (250 ms and 8 s, auth.go:48).           *)
THEOREM DelaysOwed ==
  ASSUME Base <= MaxDelay
  PROVE  DelayedSpec => []DelayIsOwed
PROOF
  <1>1. DelayTyped /\ DelayIsCounted => DelayIsOwed
    <2> SUFFICES ASSUME DelayTyped, DelayIsCounted, NEW r \in Requests
                 PROVE  LET n == Cardinality(seen[r])
                        IN  paid[r] = IF n = 0 THEN 0
                                      ELSE Least(MaxDelay, Base * TwoTo[n - 1])
      BY DEF DelayIsOwed
    <2> DEFINE n == Cardinality(seen[r])
    <2>1. n \in Nat
      BY FS_Subset, FS_CardinalityType, DelayAssumption DEF DelayTyped
    <2>2. paid[r] = Penalty(n)
      BY DEF DelayIsCounted
    <2> HIDE DEF n
    <2>3. paid[r] = IF n = 0 THEN 0 ELSE Least(MaxDelay, Base * TwoTo[n - 1])
      <3>1. CASE n = 0
        BY <2>2, <3>1 DEF Penalty
      <3>2. CASE n # 0
        <4>1. TwoTo[n - 1] \in Nat /\ Doubled[n] = Least(MaxDelay, Base * TwoTo[n - 1])
          BY <2>1, <3>2, DoubledIsPower
        <4>2. Base = 0 => Least(MaxDelay, Base * TwoTo[n - 1]) = 0
          BY <4>1, DelayAssumption DEF Least
        <4> QED
          BY <2>2, <3>2, <4>1, <4>2 DEF Penalty
      <3> QED
        BY <3>1, <3>2
    <2> QED
      BY <2>3 DEF n
  <1>2. DelayedSpec => [](DelayTyped /\ DelayIsCounted)
    <2>1. DelayTyped /\ Counted /\ DelayIsCounted /\ [DelayedNext]_<<vars, delayVars>>
            => (DelayTyped /\ Counted /\ DelayIsCounted)'
      BY NextCounted
    <2> QED
      BY <2>1, InitCounted, PTL DEF DelayedSpec
  <1> QED
    BY <1>1, <1>2, PTL
=============================================================================
