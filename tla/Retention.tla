----------------------------- MODULE Retention -----------------------------
(***************************************************************************)
(* Scheduled backups: the cron job of StartScheduler and pruneAuto.  Every *)
(* firing runs in a goroutine of its own and calls without a time limit, so*)
(* a slow job overlaps the next ones; nothing waits for it at shutdown.    *)
(*                                                                         *)
(* Jobs are numbered in the order they fire, which is the order of their   *)
(* names (auto-<timestamp>).  The building of the archive is in Archive.   *)
(***************************************************************************)
EXTENDS Naturals, FiniteSets

CONSTANTS
  NJobs,     \* bound on the firings
  Keep,      \* BACKUP_KEEP
  Copies,    \* archives an operator put under backups/ under other names
  MaxTime,   \* bound on the clock
  StableUpTo,\* how many elements sort.Slice sorts without moving ties: 12
  Faults     \* what may go wrong: "error", "ambiguous", "cut", "crash"

Jobs == 1..NJobs

ASSUME NJobsAssumption == NJobs \in Nat
ASSUME KeepAssumption == Keep \in Nat
ASSUME CopiesAssumption == Copies \cap Jobs = {}
ASSUME MaxTimeAssumption == MaxTime \in Nat \ {0}
ASSUME StableAssumption == StableUpTo \in Nat
ASSUME FaultsAssumption == Faults \subseteq {"error", "ambiguous", "cut", "crash"}

VARIABLES
  now,       \* the clock of the storage backend
  fired,     \* how many jobs have fired
  pc,        \* where each job is
  backups,   \* the archives stored: names
  modified,  \* the time a job stored its archive, 0 before
  doomed,    \* what a job has still to delete
  misled,    \* history: some job read a listing that was cut short
  shuffled   \* history: some job sorted too many archives with ties

history == <<misled, shuffled>>
vars == <<now, fired, pc, backups, modified, doomed, history>>

Archives == Jobs \cup Copies
Autos(S) == S \cap Jobs

Init ==
  /\ now = 1
  /\ fired = 0
  /\ pc = [j \in Jobs |-> "idle"]
  /\ backups = Copies
  /\ modified = [x \in Archives |-> 0]
  /\ doomed = [j \in Jobs |-> {}]
  /\ misled = FALSE
  /\ shuffled = FALSE

Goto(j, from, to) == pc[j] = from /\ pc' = [pc EXCEPT ![j] = to]

(* Time stamps may be coarse (S3: seconds): archives can share one.        *)
Tick ==
  /\ now < MaxTime
  /\ now' = now + 1
  /\ UNCHANGED <<fired, pc, backups, modified, doomed, history>>

Fire ==
  /\ fired < NJobs
  /\ fired' = fired + 1
  /\ pc' = [pc EXCEPT ![fired + 1] = "create"]
  /\ UNCHANGED <<now, backups, modified, doomed, history>>

(* Create's upload.                                                        *)
Store(j) ==
  /\ Goto(j, "create", IF Keep > 0 THEN "list" ELSE "done")
  /\ backups' = backups \cup {j}
  /\ modified' = [modified EXCEPT ![j] = now]
  /\ UNCHANGED <<now, fired, doomed, history>>

(* Mutant: a failed Create does not end the job.                           *)
Fail_GoesOn(j) ==
  /\ "error" \in Faults
  /\ pc[j] \in {"create", "list", "delete"}
  /\ pc' = [pc EXCEPT ![j] = IF @ = "create" THEN "list" ELSE "failed"]
  /\ UNCHANGED <<now, fired, backups, modified, doomed, history>>

(* A job that fails returns; one that cannot create an archive prunes none.*)
Fail(j) ==
  /\ "error" \in Faults
  /\ pc[j] \in {"create", "list", "delete"}
  /\ pc' = [pc EXCEPT ![j] = "failed"]
  /\ doomed' = [doomed EXCEPT ![j] = {}]
  /\ UNCHANGED <<now, fired, backups, modified, history>>

(* The upload took effect and its answer was lost.                         *)
StoreFails(j) ==
  /\ "ambiguous" \in Faults
  /\ Goto(j, "create", "failed")
  /\ backups' = backups \cup {j}
  /\ modified' = [modified EXCEPT ![j] = now]
  /\ UNCHANGED <<now, fired, doomed, history>>

(* autos are sorted by time stamp, newest first; ties stay in key order    *)
(* as long as the sort is stable.                                          *)
Newer(x, y) == \/ modified[x] > modified[y]
               \/ modified[x] = modified[y] /\ x < y

(* Mutants: one too many; one too few; copies are pruned as well.          *)
Excess_KeepsOneLess(S) ==
  { x \in Autos(S) : Cardinality({ y \in Autos(S) : Newer(y, x) }) + 1 >= Keep }
Excess_KeepsOneMore(S) ==
  { x \in Autos(S) : Cardinality({ y \in Autos(S) : Newer(y, x) }) > Keep }
Excess_AllNames(S) ==
  { x \in S : Cardinality({ y \in S : modified[y] >= modified[x] }) > Keep }

(* autos[keep:].                                                           *)
Excess(S) ==
  { x \in Autos(S) : Cardinality({ y \in Autos(S) : Newer(y, x) }) >= Keep }

(* sort.Slice is stable where it sorts by insertion and where nothing ties.*)
StablySorted(S) ==
  \/ Cardinality(Autos(S)) <= StableUpTo
  \/ \A x, y \in Autos(S) : modified[x] = modified[y] => x = y

(* What autos[keep:] may be: ties stand in any order after an unstable sort.*)
Cuts(S) ==
  IF StablySorted(S) THEN {Excess(S)}
  ELSE { D \in SUBSET Autos(S) :
           /\ Cardinality(Autos(S) \ D) = Cardinality(Autos(S) \ Excess(S))
           /\ \A x \in D, y \in Autos(S) \ D : modified[x] <= modified[y] }

(* A walk of backups/ that meets a vanished entry (another job's temporary *)
(* file, an archive it prunes) returns what sorts before it: see           *)
(* LocalDriver.                                                            *)
Listings ==
  {backups} \cup
    (IF "cut" \in Faults
     THEN { { x \in backups : x \in Copies \/ x < n } : n \in Jobs } ELSE {})

ListBackups(j) ==
  /\ pc[j] = "list"
  /\ \E S \in Listings : \E D \in Cuts(S) :
       /\ doomed' = [doomed EXCEPT ![j] = D]
       /\ pc' = [pc EXCEPT ![j] = IF D = {} THEN "done" ELSE "delete"]
       /\ misled' = (misled \/ S # backups)
       /\ shuffled' = (shuffled \/ ~StablySorted(S))
  /\ UNCHANGED <<now, fired, backups, modified>>

(* The newest of the excess first, ties in any order once a sort was not   *)
(* stable; deleting what is gone is no error.                              *)
Before(x, y) == IF shuffled THEN modified[x] > modified[y] ELSE Newer(x, y)

Prune(j) ==
  /\ pc[j] = "delete"
  /\ \E x \in doomed[j] :
       /\ \A y \in doomed[j] \ {x} : ~Before(y, x)
       /\ backups' = backups \ {x}
       /\ doomed' = [doomed EXCEPT ![j] = @ \ {x}]
       /\ pc' = [pc EXCEPT ![j] = IF doomed[j] = {x} THEN "done" ELSE @]
  /\ UNCHANGED <<now, fired, modified, history>>

(* The process ends, or dies, under its jobs and starts again.             *)
Crash ==
  /\ "crash" \in Faults
  /\ \E j \in Jobs : pc[j] \in {"create", "list", "delete"}
  /\ pc' = [j \in Jobs |-> IF pc[j] \in {"create", "list", "delete"}
                           THEN "dropped" ELSE pc[j]]
  /\ doomed' = [j \in Jobs |-> {}]
  /\ UNCHANGED <<now, fired, backups, modified, history>>

JobStep(j) == Store(j) \/ StoreFails(j) \/ Fail(j) \/ ListBackups(j) \/ Prune(j)

Next == Tick \/ Fire \/ Crash \/ \E j \in Jobs : JobStep(j)

Spec == Init /\ [][Next]_vars

----------------------------------------------------------------------------
(* A stored archive has a time stamp, and jobs delete automatic ones only. *)
TypeOK ==
  /\ now \in 1..MaxTime
  /\ fired \in 0..NJobs
  /\ pc \in [Jobs -> {"idle", "create", "list", "delete",
                      "done", "failed", "dropped"}]
  /\ backups \subseteq Archives
  /\ modified \in [Archives -> 0..MaxTime]
  /\ \A x \in Autos(backups) : modified[x] # 0
  /\ doomed \in [Jobs -> SUBSET Jobs]
  /\ misled \in BOOLEAN
  /\ shuffled \in BOOLEAN

EverStored == { x \in Jobs : modified[x] # 0 }

(* Retention never takes one of the newest archives: whatever was pruned,  *)
(* by jobs that listed at different times, cut short or died, Keep newer   *)
(* automatic ones are still there, unless an unstable sort made two jobs   *)
(* choose differently among archives that share a time stamp.              *)
NewestAreKept ==
  ~shuffled => \A x \in EverStored \ backups :
    Cardinality({ y \in Autos(backups) : Newer(y, x) }) >= Keep

(* "Manual backups are never pruned."                                      *)
CopiesStay == Copies \subseteq backups

(* A backup that failed costs no older one: archives are deleted only when *)
(* a job has stored its own.                                               *)
PruningFollowsSuccess ==
  [][backups' # backups /\ backups' \subseteq backups
       => \E j \in Jobs : pc[j] = "delete" /\ modified[j] # 0]_vars

(* When all jobs have ended, and none of them failed, died or read a cut   *)
(* listing, no more than Keep automatic archives are left.                 *)
PrunedDown ==
  (Keep > 0 /\ ~misled /\ \A j \in Jobs : pc[j] \in {"idle", "done"})
    => Cardinality(Autos(backups)) <= Keep
=============================================================================
