-------------------------- MODULE RetentionProofs --------------------------
(***************************************************************************)
(* Retention is safe for every number of jobs, every BACKUP_KEEP, every    *)
(* clock and every fault.                                                  *)
(***************************************************************************)
EXTENDS Retention, FiniteSetTheorems, WellFoundedInduction, TLAPS

(* The stored automatic archives that rank before x.                       *)
NewerStored(x) == { y \in Autos(backups) : Newer(y, x) }

Enough(x) == Cardinality(NewerStored(x)) >= Keep

(* A job has a stored archive from its upload on, and never before.        *)
PhaseInv ==
  \A j \in Jobs :
    /\ j > fired => pc[j] = "idle"
    /\ pc[j] \in {"idle", "create"} => modified[j] = 0
    /\ pc[j] \in {"list", "delete"} => modified[j] # 0
    /\ \A x \in doomed[j] : modified[x] # 0

(* What was pruned, and what any job is about to prune, has Keep newer ones*)
(* in the store: this is what survives the deletes of other jobs, as long  *)
(* as all of them rank the archives in the same way.                       *)
KeepInv ==
  ~shuffled => /\ \A x \in EverStored \ backups : Enough(x)
               /\ \A j \in Jobs : \A x \in doomed[j] : Enough(x)

Inv == TypeOK /\ PhaseInv /\ KeepInv

(* Newer is a strict order on the automatic archives.                      *)
LEMMA NewerIsStrict ==
  ASSUME TypeOK, NEW x \in Jobs, NEW y \in Jobs, NEW z \in Jobs
  PROVE  /\ ~Newer(x, x)
         /\ Newer(x, y) /\ Newer(y, z) => Newer(x, z)
<1>1. \A w \in Jobs : modified[w] \in Int
  BY MaxTimeAssumption DEF TypeOK, Archives
<1>2. Jobs \subseteq Int
  BY NJobsAssumption DEF Jobs
<1>3. ~Newer(x, x)
  BY <1>1, <1>2 DEF Newer
<1>4. Newer(x, y) /\ Newer(y, z) => Newer(x, z)
  BY <1>1, <1>2 DEF Newer
<1> QED
  BY <1>3, <1>4

(* Counting archives is monotone.                                          *)
LEMMA MoreAreEnough ==
  ASSUME NEW S, NEW T \in SUBSET Jobs, S \subseteq T, Cardinality(S) >= Keep
  PROVE  Cardinality(T) >= Keep
<1>1. IsFiniteSet(Jobs)
  BY NJobsAssumption, FS_Interval DEF Jobs
<1>2. IsFiniteSet(T)
  BY <1>1, FS_Subset
<1>3. Cardinality(S) <= Cardinality(T)
  BY <1>2, FS_Subset
<1>4. Cardinality(S) \in Nat /\ Cardinality(T) \in Nat
  BY <1>2, FS_Subset, FS_CardinalityType
<1> QED
  BY <1>3, <1>4, KeepAssumption

LEMMA InitInv == Init => Inv
<1> SUFFICES ASSUME Init PROVE Inv
  OBVIOUS
<1>1. TypeOK
  <2>1. misled \in BOOLEAN /\ shuffled \in BOOLEAN
    BY DEF Init
  <2> QED
    BY <2>1, NJobsAssumption, MaxTimeAssumption, CopiesAssumption
       DEF Init, TypeOK, Archives, Autos
<1>2. PhaseInv
  BY DEF Init, PhaseInv, Archives
<1>3. KeepInv
  BY DEF Init, KeepInv, EverStored, Archives
<1> QED
  BY <1>1, <1>2, <1>3 DEF Inv

(* What a job is about to prune is among the automatic archives it listed. *)
LEMMA CutsAreListed == \A S : \A D \in Cuts(S) : D \subseteq Autos(S)
BY DEF Cuts, Excess

LEMMA TypeStep == TypeOK /\ [Next]_vars => TypeOK'
<1> SUFFICES ASSUME TypeOK, [Next]_vars PROVE TypeOK'
  OBVIOUS
<1> USE DEF TypeOK, Autos, history
<1>1. CASE Tick
  BY <1>1, MaxTimeAssumption DEF Tick
<1>2. CASE Fire
  BY <1>2, NJobsAssumption DEF Fire, Jobs
<1>3. CASE Crash
  BY <1>3 DEF Crash
<1>4. ASSUME NEW j \in Jobs, Store(j) PROVE TypeOK'
  BY <1>4, MaxTimeAssumption DEF Store, Goto, Archives
<1>5. ASSUME NEW j \in Jobs, StoreFails(j) PROVE TypeOK'
  BY <1>5, MaxTimeAssumption DEF StoreFails, Goto, Archives
<1>6. ASSUME NEW j \in Jobs, Fail(j) PROVE TypeOK'
  BY <1>6 DEF Fail
<1>7. ASSUME NEW j \in Jobs, ListBackups(j) PROVE TypeOK'
  BY <1>7, CutsAreListed DEF ListBackups
<1>8. ASSUME NEW j \in Jobs, Prune(j) PROVE TypeOK'
  BY <1>8 DEF Prune
<1>9. CASE UNCHANGED vars
  BY <1>9 DEF vars
<1> QED
  BY <1>1, <1>2, <1>3, <1>4, <1>5, <1>6, <1>7, <1>8, <1>9 DEF Next, JobStep

(* A listing holds stored archives only.                                   *)
LEMMA ListingsAreStored == \A S \in Listings : S \subseteq backups
BY DEF Listings

LEMMA PhaseStep == TypeOK /\ PhaseInv /\ [Next]_vars => PhaseInv'
<1> SUFFICES ASSUME TypeOK, PhaseInv, [Next]_vars PROVE PhaseInv'
  OBVIOUS
<1> USE DEF TypeOK, PhaseInv
<1>1. CASE Tick
  BY <1>1 DEF Tick
<1>2. CASE Fire
  BY <1>2, NJobsAssumption DEF Fire, Jobs
<1>3. CASE Crash
  BY <1>3 DEF Crash
<1>4. ASSUME NEW j \in Jobs, Store(j) \/ StoreFails(j) PROVE PhaseInv'
  BY <1>4, MaxTimeAssumption DEF Store, StoreFails, Goto, Archives
<1>5. ASSUME NEW j \in Jobs, Fail(j) PROVE PhaseInv'
  BY <1>5 DEF Fail
<1>6. ASSUME NEW j \in Jobs, ListBackups(j) PROVE PhaseInv'
  BY <1>6, ListingsAreStored, CutsAreListed DEF ListBackups, Autos
<1>7. ASSUME NEW j \in Jobs, Prune(j) PROVE PhaseInv'
  BY <1>7 DEF Prune
<1>8. CASE UNCHANGED vars
  BY <1>8 DEF vars
<1> QED
  BY <1>1, <1>2, <1>3, <1>4, <1>5, <1>6, <1>7, <1>8 DEF Next, JobStep

(* What has Keep newer archives in the store keeps them when archives are  *)
(* stored: a new archive changes the rank of no older one.                 *)
LEMMA StoringKeepsEnough ==
  ASSUME Inv, NEW j \in Jobs, NEW x \in Jobs, modified[x] # 0, Enough(x),
         pc[j] = "create", backups' = backups \cup {j},
         modified' = [modified EXCEPT ![j] = now]
  PROVE  Enough(x)'
<1>1. j # x /\ j \notin backups
  BY DEF Inv, PhaseInv, TypeOK, Autos
<1>2. NewerStored(x) \subseteq NewerStored(x)'
  BY <1>1 DEF NewerStored, Newer, Autos, Inv, TypeOK, Archives
<1> QED
  BY <1>2, MoreAreEnough DEF Enough, NewerStored, Autos

LEMMA KeepStep == Inv /\ [Next]_vars => KeepInv'
<1> SUFFICES ASSUME Inv, [Next]_vars, ~shuffled' PROVE KeepInv'
  BY DEF KeepInv
<1> USE DEF Inv
<1>0. ~shuffled
  BY DEF Next, JobStep, Tick, Fire, Crash, Store, StoreFails, Fail, ListBackups,
         Prune, history, vars, TypeOK
<1> USE <1>0
<1>1. ASSUME UNCHANGED <<backups, modified>>,
             \A j \in Jobs : doomed'[j] \subseteq doomed[j]
      PROVE  KeepInv'
  BY <1>1 DEF KeepInv, EverStored, Enough, NewerStored, Newer
<1>2. ASSUME NEW j \in Jobs, Store(j) \/ StoreFails(j) PROVE KeepInv'
  <2>1. \A x \in Jobs : modified[x] # 0 /\ Enough(x) => Enough(x)'
    BY <1>2, StoringKeepsEnough DEF Store, StoreFails, Goto
  <2>2. ASSUME NEW x \in (EverStored \ backups)' PROVE Enough(x)'
    BY <1>2, <2>1, <2>2 DEF KeepInv, EverStored, Store, StoreFails, TypeOK, Archives
  <2>3. ASSUME NEW i \in Jobs, NEW x \in doomed'[i] PROVE Enough(x)'
    BY <1>2, <2>1, <2>3 DEF KeepInv, PhaseInv, TypeOK, Store, StoreFails
  <2> QED
    BY <2>2, <2>3 DEF KeepInv
<1>3. ASSUME NEW j \in Jobs, ListBackups(j) PROVE KeepInv'
  <2>1. PICK S \in Listings : doomed' = [doomed EXCEPT ![j] = Excess(S)]
    BY <1>3 DEF ListBackups, Cuts, TypeOK
  <2>2. UNCHANGED <<backups, modified>>
    BY <1>3 DEF ListBackups
  <2>3. ASSUME NEW x \in Excess(S) PROVE Enough(x)
    <3>1. { y \in Autos(S) : Newer(y, x) } \subseteq NewerStored(x)
      BY ListingsAreStored DEF NewerStored, Autos
    <3>2. Cardinality({ y \in Autos(S) : Newer(y, x) }) >= Keep
      BY <2>3 DEF Excess
    <3>3. NewerStored(x) \in SUBSET Jobs
      BY DEF NewerStored, Autos
    <3> QED
      BY <3>1, <3>2, <3>3, MoreAreEnough DEF Enough
  <2>4. \A x : Enough(x)' <=> Enough(x)
    BY <2>2 DEF Enough, NewerStored, Newer
  <2>5. \A i \in Jobs : \A x \in doomed'[i] : Enough(x)
    BY <2>1, <2>3 DEF KeepInv, TypeOK
  <2> QED
    BY <2>2, <2>4, <2>5 DEF KeepInv, EverStored
<1>4. ASSUME NEW j \in Jobs, Prune(j) PROVE KeepInv'
  <2>1. PICK x \in doomed[j] : /\ backups' = backups \ {x}
                               /\ doomed' = [doomed EXCEPT ![j] = @ \ {x}]
                               /\ UNCHANGED modified
    BY <1>4 DEF Prune
  <2>2. x \in Jobs /\ Enough(x)
    BY <2>1 DEF KeepInv, TypeOK
  <2>3. ASSUME NEW z \in Jobs, Enough(z) PROVE Enough(z)'
    <3>1. NewerStored(z)' = NewerStored(z) \ {x}
      BY <2>1 DEF NewerStored, Newer, Autos
    <3>2. CASE ~Newer(x, z)
      BY <2>3, <3>1, <3>2 DEF NewerStored, Enough
    <3>3. CASE Newer(x, z)
      <4>1. NewerStored(x) \subseteq NewerStored(z)'
        BY <2>2, <3>1, <3>3, NewerIsStrict DEF NewerStored, Autos
      <4>2. NewerStored(z)' \in SUBSET Jobs
        BY <3>1 DEF NewerStored, Autos
      <4> QED
        BY <2>2, <4>1, <4>2, MoreAreEnough DEF Enough
    <3> QED
      BY <3>2, <3>3
  <2>4. ASSUME NEW z \in (EverStored \ backups)' PROVE Enough(z)'
    BY <2>1, <2>2, <2>3, <2>4 DEF KeepInv, EverStored
  <2>5. ASSUME NEW i \in Jobs, NEW z \in doomed'[i] PROVE Enough(z)'
    BY <2>1, <2>3, <2>5 DEF KeepInv, TypeOK
  <2> QED
    BY <2>4, <2>5 DEF KeepInv
<1> QED
  BY <1>1, <1>2, <1>3, <1>4
     DEF Next, JobStep, Tick, Fire, Crash, Fail, TypeOK, vars

THEOREM InvHolds == Spec => []Inv
<1>1. Inv /\ [Next]_vars => Inv'
  BY TypeStep, PhaseStep, KeepStep DEF Inv
<1> QED
  BY <1>1, InitInv, PTL DEF Spec

(* However the jobs overlap, fail or die, and whatever part of backups/    *)
(* they list, pruning leaves the Keep newest automatic archives in place,  *)
(* unless too many of them share time stamps for the sort to be stable.    *)
THEOREM RetentionKeepsNewest == Spec => []NewestAreKept
<1>1. Inv => NewestAreKept
  BY DEF Inv, KeepInv, Enough, NewerStored, NewestAreKept
<1> QED
  BY <1>1, InvHolds, PTL

(* No job deletes an archive that an operator made.                        *)
THEOREM CopiesAreKept == Spec => []CopiesStay
<1>1. Init => CopiesStay
  BY DEF Init, CopiesStay
<1>2. Inv /\ CopiesStay /\ [Next]_vars => CopiesStay'
  <2> SUFFICES ASSUME Inv, CopiesStay, [Next]_vars PROVE CopiesStay'
    OBVIOUS
  <2>1. ASSUME NEW j \in Jobs, Prune(j) PROVE CopiesStay'
    BY <2>1, CopiesAssumption DEF Prune, CopiesStay, Inv, TypeOK
  <2>2. ASSUME backups \subseteq backups' PROVE CopiesStay'
    BY <2>2 DEF CopiesStay
  <2> QED
    BY <2>1, <2>2 DEF Next, JobStep, Tick, Fire, Crash, Fail, Store, StoreFails,
       ListBackups, vars
<1> QED
  BY <1>1, <1>2, InvHolds, PTL DEF Spec

(* Archives are deleted only by jobs that have stored one.                 *)
THEOREM PruningIsEarned == Spec => PruningFollowsSuccess
<1>1. Inv /\ [Next]_vars =>
        [backups' # backups /\ backups' \subseteq backups
           => \E j \in Jobs : pc[j] = "delete" /\ modified[j] # 0]_vars
  <2> SUFFICES ASSUME Inv, Next, backups' # backups, backups' \subseteq backups
               PROVE  \E j \in Jobs : pc[j] = "delete" /\ modified[j] # 0
    OBVIOUS
  <2>1. PICK j \in Jobs : Prune(j)
    BY DEF Next, JobStep, Tick, Fire, Crash, Fail, Store, StoreFails, ListBackups
  <2> QED
    BY <2>1 DEF Prune, Inv, PhaseInv
<1> QED
  BY <1>1, InvHolds, PTL DEF Spec, PruningFollowsSuccess

(* A job deletes archives that have a time stamp, its own first of all.    *)
THEOREM RetentionTyped == Spec => []TypeOK
<1>1. Inv => TypeOK
  BY DEF Inv
<1> QED
  BY <1>1, InvHolds, PTL

----------------------------------------------------------------------------
(* How far the archives are pruned down.                                   *)

LEMMA LeastNatural ==
  ASSUME NEW S \in SUBSET Nat, S # {}
  PROVE  \E x \in S : \A y \in S : x <= y
<1> DEFINE R == OpToRel(<, Nat)
<1>1. R = { ss \in Nat \X Nat : ss[1] < ss[2] }
  BY DEF OpToRel
<1>2. IsWellFoundedOn(R, Nat)
  BY NatLessThanWellFounded
<1> HIDE DEF R
<1>3. PICK x \in S : \A y \in S : ~(<<y, x>> \in R)
  BY <1>2, WFMin
<1>4. \A y \in S : ~(y < x)
  BY <1>1, <1>3
<1> QED
  BY <1>4

(* Among some jobs one has the oldest archive: the last of those with the  *)
(* lowest time stamp.                                                      *)
LEMMA OldestExists ==
  ASSUME TypeOK, NEW A \in SUBSET Jobs, A # {}
  PROVE  \E x \in A : \A y \in A \ {x} : Newer(y, x)
<1>1. \A x \in A : x \in Nat /\ x <= NJobs /\ NJobs - x \in Nat /\ modified[x] \in Nat
  BY NJobsAssumption, MaxTimeAssumption DEF Jobs, TypeOK, Archives
<1>2. \E z \in A : \A x \in A : modified[z] <= modified[x]
  <2> DEFINE T == { modified[x] : x \in A }
  <2>1. T \in SUBSET Nat /\ T # {}
    BY <1>1
  <2>2. \E t \in T : \A u \in T : t <= u
    BY <2>1, LeastNatural
  <2> QED
    BY <2>2
<1>3. PICK m : m \in Nat /\ (\E x \in A : m = modified[x]) /\ \A x \in A : m <= modified[x]
  BY <1>1, <1>2
<1> DEFINE B == { x \in A : modified[x] = m }
<1>4. PICK x \in B : \A y \in B : NJobs - x <= NJobs - y
  <2> DEFINE T == { NJobs - x : x \in B }
  <2>1. T \in SUBSET Nat /\ T # {}
    BY <1>1, <1>3
  <2>2. \E t \in T : \A u \in T : t <= u
    BY <2>1, LeastNatural
  <2> QED
    BY <2>2
<1>5. ASSUME NEW y \in A \ {x} PROVE Newer(y, x)
  <2>1. CASE modified[y] = m
    <3>1. NJobs - x <= NJobs - y /\ y # x
      BY <1>4, <1>5, <2>1
    <3> QED
      BY <1>1, <1>4, <1>5, <2>1, <3>1, NJobsAssumption DEF Newer
  <2>2. CASE modified[y] # m
    BY <1>1, <1>3, <1>4, <1>5, <2>2 DEF Newer
  <2> QED
    BY <2>1, <2>2
<1> QED
  BY <1>4, <1>5

(* What a job leaves of the archives it lists is no more than Keep.        *)
LEMMA CutLeavesKeep ==
  ASSUME TypeOK, NEW S, NEW D \in Cuts(S)
  PROVE  Cardinality(Autos(S) \ D) <= Keep
<1> DEFINE A == Autos(S)
           N == A \ Excess(S)
<1>1. IsFiniteSet(Jobs) /\ A \in SUBSET Jobs /\ N \in SUBSET Jobs
  BY NJobsAssumption, FS_Interval DEF Jobs, Autos
<1>2. IsFiniteSet(A) /\ IsFiniteSet(N)
  BY <1>1, FS_Subset
<1>3. Cardinality(N) <= Keep
  <2>1. CASE N = {}
    BY <2>1, FS_EmptySet, KeepAssumption
  <2>2. CASE N # {}
    <3>1. PICK x \in N : \A y \in N \ {x} : Newer(y, x)
      BY <1>1, <2>2, OldestExists
    <3>2. N \ {x} \subseteq { y \in A : Newer(y, x) }
      BY <3>1
    <3>3. IsFiniteSet({ y \in A : Newer(y, x) })
      BY <1>2, FS_Subset
    <3>4. Cardinality(N \ {x}) <= Cardinality({ y \in A : Newer(y, x) })
      BY <3>2, <3>3, FS_Subset
    <3>5. ~(Cardinality({ y \in A : Newer(y, x) }) >= Keep)
      BY <3>1 DEF Excess
    <3>6. Cardinality(N \ {x}) = Cardinality(N) - 1 /\ Cardinality(N) \in Nat
      BY <1>2, <3>1, FS_RemoveElement, FS_CardinalityType
    <3>7. Cardinality({ y \in A : Newer(y, x) }) \in Nat
      BY <3>3, FS_CardinalityType
    <3> QED
      BY <3>4, <3>5, <3>6, <3>7, KeepAssumption
  <2> QED
    BY <2>1, <2>2
<1>4. Cardinality(A \ D) = Cardinality(N)
  BY DEF Cuts
<1> QED
  BY <1>3, <1>4

(* No job has to store or to list, none failed, and all listings were full.*)
AllListed ==
  /\ Keep > 0
  /\ ~misled
  /\ \A j \in Jobs : pc[j] \in {"idle", "delete", "done"}

(* What no job is about to delete.                                         *)
Spared == Autos(backups) \ UNION { doomed[j] : j \in Jobs }

(* Once all have listed there is not too much of it.                       *)
DoomedInv ==
  /\ \A j \in Jobs : pc[j] # "delete" => doomed[j] = {}
  /\ AllListed => Cardinality(Spared) <= Keep

LEMMA FewerAreSpared ==
  ASSUME NEW T \in SUBSET Jobs, NEW U \in SUBSET T, Cardinality(T) <= Keep
  PROVE  Cardinality(U) <= Keep
<1>1. IsFiniteSet(T)
  <2>1. IsFiniteSet(Jobs)
    BY NJobsAssumption, FS_Interval DEF Jobs
  <2> QED
    BY <2>1, FS_Subset
<1>2. Cardinality(U) <= Cardinality(T)
  BY <1>1, FS_Subset
<1>3. Cardinality(U) \in Nat /\ Cardinality(T) \in Nat
  BY <1>1, FS_Subset, FS_CardinalityType
<1> QED
  BY <1>2, <1>3, KeepAssumption

LEMMA DoomedStep == Inv /\ DoomedInv /\ [Next]_vars => DoomedInv'
<1> SUFFICES ASSUME Inv, DoomedInv, [Next]_vars PROVE DoomedInv'
  OBVIOUS
<1> USE DEF Inv
<1>1. \A j \in Jobs : pc'[j] # "delete" => doomed'[j] = {}
  <2>1. CASE Tick \/ Crash \/ UNCHANGED vars
    BY <2>1 DEF Tick, Crash, vars, DoomedInv
  <2>2. CASE Fire
    BY <2>2, NJobsAssumption DEF Fire, DoomedInv, PhaseInv, TypeOK, Jobs
  <2>3. ASSUME NEW j \in Jobs, Store(j) \/ StoreFails(j) \/ Fail(j)
        PROVE  \A i \in Jobs : pc'[i] # "delete" => doomed'[i] = {}
    BY <2>3 DEF Store, StoreFails, Fail, Goto, DoomedInv, TypeOK
  <2>4. ASSUME NEW j \in Jobs, ListBackups(j)
        PROVE  \A i \in Jobs : pc'[i] # "delete" => doomed'[i] = {}
    BY <2>4 DEF ListBackups, DoomedInv, TypeOK
  <2>5. ASSUME NEW j \in Jobs, Prune(j)
        PROVE  \A i \in Jobs : pc'[i] # "delete" => doomed'[i] = {}
    BY <2>5 DEF Prune, DoomedInv, TypeOK
  <2> QED
    BY <2>1, <2>2, <2>3, <2>4, <2>5 DEF Next, JobStep
<1>2. ASSUME AllListed' PROVE Cardinality(Spared') <= Keep
  <2>1. CASE UNCHANGED <<pc, backups, doomed, misled>>
    BY <1>2, <2>1 DEF DoomedInv, AllListed, Spared
  <2>2. CASE Fire
    BY <1>2, <2>2, NJobsAssumption DEF Fire, AllListed, Jobs, TypeOK
  <2>3. CASE Crash
    BY <1>2, <2>3 DEF Crash, AllListed, TypeOK
  <2>4. ASSUME NEW j \in Jobs, Store(j) \/ StoreFails(j) \/ Fail(j) PROVE FALSE
    BY <1>2, <2>4 DEF Store, StoreFails, Fail, Goto, AllListed, TypeOK
  <2>5. ASSUME NEW j \in Jobs, ListBackups(j) PROVE Cardinality(Spared') <= Keep
    <3>1. PICK D \in Cuts(backups) : doomed' = [doomed EXCEPT ![j] = D]
      BY <1>2, <2>5 DEF ListBackups, AllListed, TypeOK
    <3>2. Spared' \subseteq Autos(backups) \ D
      BY <2>5, <3>1 DEF ListBackups, Spared, TypeOK, Autos
    <3>3. Autos(backups) \ D \in SUBSET Jobs
      BY DEF Autos
    <3> QED
      BY <3>1, <3>2, <3>3, CutLeavesKeep, FewerAreSpared
  <2>6. ASSUME NEW j \in Jobs, Prune(j) PROVE Cardinality(Spared') <= Keep
    <3>1. PICK z \in doomed[j] : /\ backups' = backups \ {z}
                                 /\ doomed' = [doomed EXCEPT ![j] = @ \ {z}]
      BY <2>6 DEF Prune
    <3>2. AllListed
      <4>1. misled' = misled /\ \A i \in Jobs \ {j} : pc'[i] = pc[i]
        BY <2>6 DEF Prune, TypeOK, history
      <4>2. pc[j] = "delete"
        BY <2>6 DEF Prune
      <4> QED
        BY <1>2, <4>1, <4>2 DEF AllListed
    <3>3. Spared' \subseteq Spared
      BY <3>1 DEF Spared, Autos, TypeOK
    <3>4. Spared \in SUBSET Jobs
      BY DEF Spared, Autos
    <3> QED
      BY <3>2, <3>3, <3>4, FewerAreSpared DEF DoomedInv
  <2> QED
    BY <2>1, <2>2, <2>3, <2>4, <2>5, <2>6 DEF Next, JobStep, Tick, history, vars
<1> QED
  BY <1>1, <1>2 DEF DoomedInv

(* The last job to list sees what all the others stored, and deletes what  *)
(* is too much, however it ranks ties: retention bounds the archives kept. *)
THEOREM PrunesDown == Spec => []PrunedDown
<1>1. Init => DoomedInv
  <2> SUFFICES ASSUME Init PROVE DoomedInv
    OBVIOUS
  <2>1. Spared = {}
    BY CopiesAssumption DEF Init, Spared, Autos
  <2> QED
    BY <2>1, FS_EmptySet, KeepAssumption DEF Init, DoomedInv
<1>2. Inv /\ DoomedInv /\ [Next]_vars => DoomedInv'
  BY DoomedStep
<1>3. Inv /\ DoomedInv => PrunedDown
  <2> SUFFICES ASSUME Inv, DoomedInv, Keep > 0, ~misled,
                      \A j \in Jobs : pc[j] \in {"idle", "done"}
               PROVE  Cardinality(Autos(backups)) <= Keep
    BY DEF PrunedDown
  <2>1. Spared = Autos(backups)
    BY DEF Spared, DoomedInv
  <2> QED
    BY <2>1 DEF DoomedInv, AllListed
<1> QED
  BY <1>1, <1>2, <1>3, InvHolds, PTL DEF Spec
=============================================================================
