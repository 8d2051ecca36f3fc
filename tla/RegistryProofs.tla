--------------------------- MODULE RegistryProofs ---------------------------
(***************************************************************************)
(* The registry's type correctness and its safety, for every set of        *)
(* clients, versions, files and bodies, every key order and every fault.   *)
(***************************************************************************)
EXTENDS RegistryProperties, TLAPS

(***************************************************************************)
(* The packument functions.                                                *)
(***************************************************************************)

(* A partial function is a function from some subset of S into T.          *)
LEMMA PartialFunctionsDef ==
  ASSUME NEW S, NEW T, NEW f
  PROVE  f \in PartialFunctions(S, T)
           <=> \E D \in SUBSET S : f \in [D -> T]
  BY DEF PartialFunctions

(* The empty map is a partial function (asMap of an absent document).      *)
LEMMA EmptyIsPartial ==
  ASSUME NEW S, NEW T
  PROVE  [x \in {} |-> x] \in PartialFunctions(S, T)
<1>1. [x \in {} |-> x] \in [{} -> T]
  OBVIOUS
<1> QED
  BY <1>1 DEF PartialFunctions

(* Binding a key keeps a partial function one.                             *)
LEMMA BindIsPartial ==
  ASSUME NEW S, NEW T, NEW f \in PartialFunctions(S, T), NEW k \in S, NEW x \in T
  PROVE  Bind(f, k, x) \in PartialFunctions(S, T)
<1>1. PICK D \in SUBSET S : f \in [D -> T]
  BY PartialFunctionsDef
<1>2. Bind(f, k, x) \in [D \cup {k} -> T]
  BY <1>1 DEF Bind
<1>3. D \cup {k} \in SUBSET S
  BY <1>1
<1> QED
  BY <1>2, <1>3, PartialFunctionsDef

(* Binding changes the bound key and nothing else.                         *)
LEMMA BindValues ==
  ASSUME NEW f, NEW k, NEW x
  PROVE  /\ DOMAIN Bind(f, k, x) = DOMAIN f \cup {k}
         /\ Bind(f, k, x)[k] = x
         /\ \A j \in DOMAIN f : j # k => Bind(f, k, x)[j] = f[j]
  BY DEF Bind

(* The body's tags laid over the stored ones are tags.                     *)
LEMMA OverlayIsPartial ==
  ASSUME NEW S, NEW T, NEW f \in PartialFunctions(S, T), NEW g \in PartialFunctions(S, T)
  PROVE  Overlay(f, g) \in PartialFunctions(S, T)
<1>1. PICK D \in SUBSET S : f \in [D -> T]
  BY PartialFunctionsDef
<1>2. PICK E \in SUBSET S : g \in [E -> T]
  BY PartialFunctionsDef
<1>3. Overlay(f, g) \in [D \cup E -> T]
  BY <1>1, <1>2 DEF Overlay
<1> QED
  BY <1>3, PartialFunctionsDef

(* What asMap reads from a stored or an absent manifest is well typed.     *)
LEMMA ReadsAreTyped ==
  ASSUME NEW m \in Manifests \cup {NoManifest}
  PROVE  /\ VersionsOf(m) \in PartialFunctions(Versions, Entries)
         /\ TagsOf(m) \in PartialFunctions(Tags, Versions)
         /\ RevNumber(m) \in Nat
<1>1. CASE m = NoManifest
  BY <1>1, EmptyIsPartial DEF VersionsOf, TagsOf, RevNumber
<1>2. CASE m # NoManifest
  BY <1>2 DEF VersionsOf, TagsOf, RevNumber, Manifests, Revisions
<1> QED
  BY <1>1, <1>2

(* The merged document is a whole manifest that carries its publisher in   *)
(* the revision, lists the new version and keeps every other version.      *)
LEMMA MergeIsManifest ==
  ASSUME NEW m \in Manifests \cup {NoManifest}, NEW b \in Bodies, NEW c \in Clients
  PROVE  Merge(m, b, c) \in Manifests
<1> DEFINE tags == Overlay(TagsOf(m), b.tags)
<1>1. /\ b.version \in Versions
      /\ b.file \in Files
      /\ b.sha \in Contents
      /\ b.tags \in PartialFunctions(Tags, Versions)
  BY BodiesAssumption
<1>2. NextRev(m, c) \in Revisions
  BY ReadsAreTyped DEF NextRev, Revisions
<1>3. Entry(b, c) \in Entries
  BY <1>1 DEF Entry, Entries
<1>4. Bind(VersionsOf(m), b.version, Entry(b, c))
        \in PartialFunctions(Versions, Entries)
  BY <1>1, <1>3, ReadsAreTyped, BindIsPartial
<1>5. tags \in PartialFunctions(Tags, Versions)
  BY <1>1, ReadsAreTyped, OverlayIsPartial
<1>6. TagsAfter(m, b) \in PartialFunctions(Tags, Versions)
  <2>1. Bind(tags, Latest, b.version) \in PartialFunctions(Tags, Versions)
    BY <1>1, <1>5, LatestAssumption, BindIsPartial
  <2> QED
    BY <2>1, <1>5 DEF TagsAfter
<1> QED
  BY <1>2, <1>4, <1>6 DEF Merge, Manifests

LEMMA MergeValues ==
  ASSUME NEW m \in Manifests \cup {NoManifest}, NEW b \in Bodies, NEW c \in Clients
  PROVE  /\ Merge(m, b, c) # NoManifest
         /\ Merge(m, b, c).rev.suffix = c
         /\ Merge(m, b, c).rev.n = RevNumber(m) + 1
         /\ VersionsOf(Merge(m, b, c))
              = Bind(VersionsOf(m), b.version, Entry(b, c))
<1>1. Merge(m, b, c) # NoManifest
  BY MergeIsManifest, NoManifestAssumption
<1> QED
  BY <1>1 DEF Merge, NextRev, VersionsOf

(***************************************************************************)
(* The inductive invariant, conjunct by conjunct.                          *)
(***************************************************************************)

(* A handler is inside its critical section iff it holds the lock.         *)
LockInv == \A c \in Clients : pc[c] \in InLock <=> lock = c

(* Which command can be at which program point, and what it has by then.   *)
RoleInv ==
  \A c \in Clients :
    /\ pc[c] \in InServer => Publishes(c) \/ Unpublishes(c)
    /\ pc[c] \in {"putTarball", "putManifest"} => Publishes(c)
    /\ pc[c] \in {"listKeys", "deleteKeys"} => Unpublishes(c)
    /\ Unpublishes(c) /\ pc[c] \in InServer \cup {"fetched"} => seen[c] # NoManifest
    /\ Installs(c) /\ pc[c] = "fetched" => seen[c] # NoManifest

(* A publish knows its body; an unpublish and an install have none.        *)
LEMMA BodyOfPublish ==
  ASSUME TypeOK, NEW c \in Clients, Publishes(c)
  PROVE  /\ cmd[c].body \in Bodies
         /\ cmd[c].body.version \in Versions
         /\ cmd[c].body.file \in Files
         /\ cmd[c].body.sha \in Contents
<1>1. cmd[c] \in Commands
  BY DEF TypeOK
<1>2. cmd[c].body \in Bodies
  BY <1>1 DEF Commands, Publishes
<1> QED
  BY <1>2, BodiesAssumption

LEMMA RestrictIsPartial ==
  ASSUME NEW S, NEW T, NEW f \in PartialFunctions(S, T), NEW k
  PROVE  Restrict(f, DOMAIN f \ {k}) \in PartialFunctions(S, T)
<1>1. PICK D \in SUBSET S : f \in [D -> T]
  BY PartialFunctionsDef
<1>2. Restrict(f, DOMAIN f \ {k}) \in [D \ {k} -> T]
  BY <1>1 DEF Restrict
<1>3. D \ {k} \in SUBSET S
  BY <1>1
<1> QED
  BY <1>2, <1>3, PartialFunctionsDef

(* The state of a package after one key is deleted is again a state.       *)
LEMMA DeleteIsTyped ==
  ASSUME TypeOK, NEW k, Delete(k)
  PROVE  /\ manifest' \in Manifests \cup {NoManifest}
         /\ tarballs' \in PartialFunctions(Files, Contents)
<1>1. tarballs \in PartialFunctions(Files, Contents)
  BY DEF TypeOK
<1>2. tarballs' \in PartialFunctions(Files, Contents)
  BY <1>1, RestrictIsPartial DEF Delete
<1> QED
  BY <1>2 DEF Delete, TypeOK

LEMMA PutIsTyped ==
  ASSUME TypeOK, NEW c \in Clients, Publishes(c)
  PROVE  TarballsAfterPut(c) \in PartialFunctions(Files, Contents)
<1>1. tarballs \in PartialFunctions(Files, Contents)
  BY DEF TypeOK
<1> QED
  BY <1>1, BodyOfPublish, BindIsPartial DEF TarballsAfterPut

(* Every answer is one of the statuses, and returning frees the lock.      *)
LEMMA ReturnIsTyped ==
  ASSUME TypeOK, NEW c \in Clients, NEW code \in Statuses, Return(c, code)
  PROVE  /\ pc' \in [Clients -> Points]
         /\ status' \in [Clients -> Statuses]
         /\ lock' \in Clients \cup {NoClient}
  BY DEF TypeOK, Return, Points, Ended

LEMMA GotoIsTyped ==
  ASSUME TypeOK, NEW c \in Clients, NEW from, NEW to \in Points, Goto(c, from, to)
  PROVE  pc' \in [Clients -> Points]
  BY DEF TypeOK, Goto

LEMMA InitTyped == Init => TypeOK /\ RoleInv /\ LockInv
<1> SUFFICES ASSUME Init PROVE TypeOK /\ RoleInv /\ LockInv
  OBVIOUS
<1>1. tarballs \in PartialFunctions(Files, Contents)
  BY EmptyIsPartial DEF Init
<1>2. TypeOK
  BY <1>1 DEF Init, TypeOK, Points, Statuses, Records, Keys
<1>3. RoleInv
  BY DEF Init, RoleInv, InServer, InLock
<1>4. LockInv
  BY NoClientAssumption DEF Init, LockInv, InLock
<1> QED
  BY <1>2, <1>3, <1>4

LEMMA CodesAreStatuses ==
  /\ "created" \in Statuses /\ "conflict" \in Statuses /\ "notFound" \in Statuses
  /\ "error" \in Statuses /\ "forbidden" \in Statuses /\ "rejected" \in Statuses
  /\ "removed" \in Statuses /\ "served" \in Statuses
  BY DEF Statuses

LEMMA PointsOfThePrograms ==
  /\ InServer \subseteq Points /\ InLock \subseteq InServer /\ Ended \subseteq Points
  /\ "idle" \in Points /\ "fetched" \in Points
  BY DEF Points, InServer

(* The record of a request inside the server is a publish or an unpublish. *)
LEMMA RecordIsTyped ==
  ASSUME TypeOK, RoleInv, NEW c \in Clients, pc[c] \in InServer
  PROVE  RecordOf(c) \in Records
  BY DEF RoleInv, RecordOf, Records, Publishes, Unpublishes

(* Every step keeps the types, one action at a time.                       *)
LEMMA TypeStep == TypeOK /\ RoleInv /\ [Next]_vars => TypeOK'
<1> SUFFICES ASSUME TypeOK, RoleInv, [Next]_vars PROVE TypeOK'
  OBVIOUS
<1> USE CodesAreStatuses, PointsOfThePrograms
<1>1. ASSUME NEW c \in Clients, FetchManifest(c) PROVE TypeOK'
  <2>1. pc' \in [Clients -> Points] /\ status' \in [Clients -> Statuses]
          /\ lock' \in Clients \cup {NoClient}
    BY <1>1, ReturnIsTyped, GotoIsTyped DEF FetchManifest, TypeOK
  <2>2. seen' \in [Clients -> Manifests \cup {NoManifest}]
    BY <1>1 DEF FetchManifest, TypeOK
  <2> QED
    BY <1>1, <2>1, <2>2 DEF FetchManifest, TypeOK, store, local, logs
<1>2. ASSUME NEW c \in Clients, Send(c) PROVE TypeOK'
  BY <1>2 DEF Send, TypeOK, store, local, answer, logs, InServer
<1>3. ASSUME NEW c \in Clients, RefusePublish(c) \/ RefuseUnpublish(c) PROVE TypeOK'
  <2>1. pc' \in [Clients -> Points] /\ status' \in [Clients -> Statuses]
          /\ lock' \in Clients \cup {NoClient}
    BY <1>3, ReturnIsTyped DEF RefusePublish, RefuseUnpublish, Deny
  <2>2. audit' \subseteq Records
    BY <1>3 DEF RefusePublish, RefuseUnpublish, Deny, Records, TypeOK
  <2> QED
    BY <1>3, <2>1, <2>2
       DEF RefusePublish, RefuseUnpublish, TypeOK, store, local
<1>4. ASSUME NEW c \in Clients, LockPackage(c) PROVE TypeOK'
  BY <1>4 DEF LockPackage, Goto, TypeOK, store, local, answer, logs, InLock
<1>5. ASSUME NEW c \in Clients, GetFails(c) \/ CheckFails(c) PROVE TypeOK'
  BY <1>5, ReturnIsTyped DEF GetFails, CheckFails, TypeOK, store, local, logs
<1>6. ASSUME NEW c \in Clients, PublishCheck(c) PROVE TypeOK'
  <2>1. pc' \in [Clients -> Points] /\ status' \in [Clients -> Statuses]
          /\ lock' \in Clients \cup {NoClient}
    BY <1>6, ReturnIsTyped, GotoIsTyped DEF PublishCheck, TypeOK, InLock
  <2> QED
    BY <1>6, <2>1 DEF PublishCheck, TypeOK, store, logs
<1>7. ASSUME NEW c \in Clients, PutTarball(c) PROVE TypeOK'
  <2>1. Publishes(c)
    BY <1>7 DEF PutTarball, Goto, RoleInv
  <2>2. Merge(view[c], cmd[c].body, c) \in Manifests
    BY <2>1, BodyOfPublish, MergeIsManifest DEF TypeOK
  <2>3. tarballs' \in PartialFunctions(Files, Contents)
    BY <1>7, <2>1, PutIsTyped DEF PutTarball
  <2> QED
    BY <1>7, <2>2, <2>3
       DEF PutTarball, Goto, TypeOK, InLock, answer, logs
<1>8. ASSUME NEW c \in Clients, PutTarballFails(c) PROVE TypeOK'
  <2>1. Publishes(c)
    BY <1>8 DEF PutTarballFails, RoleInv
  <2>2. tarballs' \in PartialFunctions(Files, Contents)
    BY <1>8, <2>1, PutIsTyped DEF PutTarballFails, TypeOK
  <2> QED
    BY <1>8, <2>2, ReturnIsTyped DEF PutTarballFails, TypeOK, local, logs
<1>9. ASSUME NEW c \in Clients, PutManifest(c) PROVE TypeOK'
  BY <1>9 DEF PutManifest, Goto, TypeOK, InLock, local, answer, logs
<1>10. ASSUME NEW c \in Clients, PutManifestFails(c) PROVE TypeOK'
  <2>1. manifest' \in Manifests \cup {NoManifest}
    BY <1>10 DEF PutManifestFails, TypeOK
  <2> QED
    BY <1>10, <2>1, ReturnIsTyped DEF PutManifestFails, TypeOK, local, logs
<1>11. ASSUME NEW c \in Clients, UnpublishCheck(c) PROVE TypeOK'
  <2>1. pc' \in [Clients -> Points] /\ status' \in [Clients -> Statuses]
          /\ lock' \in Clients \cup {NoClient}
    BY <1>11, ReturnIsTyped, GotoIsTyped DEF UnpublishCheck, TypeOK, InLock
  <2>2. view' \in [Clients -> Manifests \cup {NoManifest}]
    BY <1>11 DEF UnpublishCheck, TypeOK
  <2> QED
    BY <1>11, <2>1, <2>2 DEF UnpublishCheck, TypeOK, store, logs
<1>12. ASSUME NEW c \in Clients, ListKeys(c) PROVE TypeOK'
  <2>1. StoredKeys \subseteq Keys
    <3>1. PICK D \in SUBSET Files : tarballs \in [D -> Contents]
      BY PartialFunctionsDef DEF TypeOK
    <3> QED
      BY <3>1 DEF StoredKeys, Keys
  <2> QED
    BY <1>12, <2>1 DEF ListKeys, Goto, TypeOK, InLock, store, answer, logs
<1>13. ASSUME NEW c \in Clients, ListKeysFails(c) PROVE TypeOK'
  BY <1>13, ReturnIsTyped DEF ListKeysFails, TypeOK, store, local, logs
<1>14. ASSUME NEW c \in Clients, DeleteKey(c) PROVE TypeOK'
  <2>1. PICK k \in Keys : /\ Delete(k)
                          /\ todo' = [todo EXCEPT ![c] = @ \ {k}]
                          /\ pc' = [pc EXCEPT ![c] = IF todo[c] = {k}
                                                     THEN "recordEvent" ELSE @]
    BY <1>14 DEF DeleteKey
  <2>2. pc' \in [Clients -> Points] /\ todo' \in [Clients -> SUBSET Keys]
    BY <2>1 DEF TypeOK, InLock
  <2> QED
    BY <1>14, <2>1, <2>2, DeleteIsTyped DEF DeleteKey, TypeOK, answer, logs
<1>15. ASSUME NEW c \in Clients, DeleteKeyFails(c) PROVE TypeOK'
  <2>1. /\ manifest' \in Manifests \cup {NoManifest}
        /\ tarballs' \in PartialFunctions(Files, Contents)
    <3>1. CASE UNCHANGED store
      BY <3>1 DEF store, TypeOK
    <3>2. CASE \E k \in Keys : Delete(k)
      BY <3>2, DeleteIsTyped
    <3> QED
      BY <1>15, <3>1, <3>2 DEF DeleteKeyFails
  <2> QED
    BY <1>15, <2>1, ReturnIsTyped DEF DeleteKeyFails, TypeOK, local, logs
<1>16. ASSUME NEW c \in Clients, RecordEvent(c) PROVE TypeOK'
  <2>1. RecordOf(c) \in Records
    BY <1>16, RecordIsTyped DEF RecordEvent, Goto, InLock
  <2>2. feed' \subseteq Records
    BY <1>16, <2>1 DEF RecordEvent, TypeOK
  <2> QED
    BY <1>16, <2>2 DEF RecordEvent, Goto, TypeOK, InLock, store, local, answer
<1>17. ASSUME NEW c \in Clients, RecordAudit(c) PROVE TypeOK'
  <2>1. RecordOf(c) \in Records
    BY <1>17, RecordIsTyped DEF RecordAudit, Goto, InLock
  <2>2. audit' \subseteq Records
    BY <1>17, <2>1 DEF RecordAudit, TypeOK
  <2> QED
    BY <1>17, <2>2 DEF RecordAudit, Goto, TypeOK, InLock, store, local, answer
<1>18. ASSUME NEW c \in Clients, Reply(c) PROVE TypeOK'
  BY <1>18, ReturnIsTyped DEF Reply, TypeOK, store, local, logs
<1>19. ASSUME NEW c \in Clients, FetchTarball(c) PROVE TypeOK'
  <2>1. got' \in [Clients -> SUBSET Contents]
    <3>1. PICK D \in SUBSET Files : tarballs \in [D -> Contents]
      BY PartialFunctionsDef DEF TypeOK
    <3> QED
      BY <1>19, <3>1 DEF FetchTarball, TypeOK
  <2>2. pc' \in [Clients -> Points] /\ status' \in [Clients -> Statuses]
          /\ lock' \in Clients \cup {NoClient}
    BY <1>19, ReturnIsTyped DEF FetchTarball
  <2> QED
    BY <1>19, <2>1, <2>2 DEF FetchTarball, TypeOK, store, local, logs
<1>20. CASE Crash
  BY <1>20 DEF Crash, TypeOK, Ended, store, local, answer, logs
<1>21. CASE UNCHANGED vars
  BY <1>21 DEF vars, TypeOK
<1> QED
  BY <1>1, <1>2, <1>3, <1>4, <1>5, <1>6, <1>7, <1>8, <1>9, <1>10, <1>11,
     <1>12, <1>13, <1>14, <1>15, <1>16, <1>17, <1>18, <1>19, <1>20, <1>21
     DEF Next, ClientStep, HandlerStep, PublishStep, UnpublishStep

(* The commands never change.                                              *)
LEMMA CommandsFixed == [Next]_vars => cmd' = cmd
  BY DEF Next, ClientStep, HandlerStep, PublishStep, UnpublishStep, vars,
         FetchManifest, Send, RefusePublish, RefuseUnpublish, LockPackage,
         GetFails, CheckFails, PublishCheck, PutTarball, PutTarballFails,
         PutManifest, PutManifestFails, UnpublishCheck, ListKeys,
         ListKeysFails, DeleteKey, DeleteKeyFails, RecordEvent, RecordAudit,
         Reply, FetchTarball, Crash

(* What a step does to program counters and lock, whatever it is: client c *)
(* queues, enters, moves on inside, or leaves; or the process crashes.     *)
Moves(c) ==
  \/ /\ pc[c] \in {"idle", "fetched"}
     /\ \E p \in {"fetched", "waiting", "done"} : pc' = [pc EXCEPT ![c] = p]
     /\ lock' = IF lock = c THEN NoClient ELSE lock
  \/ /\ pc[c] = "waiting" /\ lock = NoClient
     /\ pc' = [pc EXCEPT ![c] = "locked"] /\ lock' = c
  \/ /\ pc[c] \in InLock
     /\ \E p \in InLock : pc' = [pc EXCEPT ![c] = p]
     /\ lock' = lock
  \/ /\ pc[c] \in InLock
     /\ pc' = [pc EXCEPT ![c] = "done"]
     /\ lock' = IF lock = c THEN NoClient ELSE lock

LEMMA ClientsMove ==
  ASSUME TypeOK, LockInv, NEW c \in Clients,
         ClientStep(c) \/ LockPackage(c) \/ HandlerStep(c)
  PROVE  Moves(c)
<1> USE DEF Goto, Return, TypeOK, InLock
<1>1. CASE FetchManifest(c) \/ Send(c) \/ RefusePublish(c)
             \/ RefuseUnpublish(c) \/ GetFails(c) \/ FetchTarball(c)
  BY <1>1, NoClientAssumption
     DEF Moves, FetchManifest, Send, Sends, RefusePublish, RefuseUnpublish, Deny,
         GetFails, FetchTarball, LockInv
<1>2. CASE LockPackage(c)
  BY <1>2 DEF LockPackage, Moves
<1>3. CASE PublishStep(c)
  BY <1>3 DEF PublishStep, Moves, PublishCheck, PutTarball, PutTarballFails,
              PutManifest, PutManifestFails
<1>4. CASE UnpublishStep(c)
  <2>1. CASE UnpublishCheck(c)
    BY <2>1 DEF Moves, UnpublishCheck
  <2>2. CASE ListKeys(c)
    BY <2>2 DEF Moves, ListKeys
  <2>3. CASE ListKeysFails(c) \/ DeleteKeyFails(c)
    BY <2>3 DEF Moves, ListKeysFails, DeleteKeyFails
  <2>4. CASE DeleteKey(c)
    BY <2>4 DEF Moves, DeleteKey
  <2> QED
    BY <1>4, <2>1, <2>2, <2>3, <2>4 DEF UnpublishStep
<1>5. CASE CheckFails(c) \/ RecordEvent(c) \/ RecordAudit(c) \/ Reply(c)
  BY <1>5 DEF Moves, CheckFails, RecordEvent, RecordAudit, Reply
<1> QED
  BY <1>1, <1>2, <1>3, <1>4, <1>5 DEF ClientStep, HandlerStep

(* The lock is held exactly while its handler is between lock and unlock.  *)
LEMMA LockStep == TypeOK /\ LockInv /\ [Next]_vars => LockInv'
<1> SUFFICES ASSUME TypeOK, LockInv, [Next]_vars PROVE LockInv'
  OBVIOUS
<1>1. ASSUME NEW c \in Clients, ClientStep(c) \/ LockPackage(c) \/ HandlerStep(c)
      PROVE  LockInv'
  BY <1>1, ClientsMove, NoClientAssumption DEF Moves, LockInv, TypeOK, InLock
<1>2. CASE Crash
  BY <1>2, NoClientAssumption DEF Crash, LockInv, TypeOK, InLock, InServer
<1>3. CASE UNCHANGED vars
  BY <1>3 DEF vars, LockInv
<1> QED
  BY <1>1, <1>2, <1>3 DEF Next

(* A program point belongs to the command that reaches it.                 *)
LEMMA RoleStep == TypeOK /\ RoleInv /\ [Next]_vars => RoleInv'
<1> SUFFICES ASSUME TypeOK, RoleInv, [Next]_vars PROVE RoleInv'
  OBVIOUS
<1>0. cmd' = cmd
  BY CommandsFixed
<1> USE <1>0 DEF RoleInv, TypeOK, InServer, InLock, Publishes, Unpublishes,
                 Installs, Goto, Return
<1>1. ASSUME NEW c \in Clients, FetchManifest(c) PROVE RoleInv'
  BY <1>1 DEF FetchManifest
<1>2. ASSUME NEW c \in Clients, Send(c) PROVE RoleInv'
  BY <1>2 DEF Send, Sends
<1>3. ASSUME NEW c \in Clients,
             \/ RefusePublish(c) \/ RefuseUnpublish(c) \/ GetFails(c)
             \/ FetchTarball(c) \/ CheckFails(c) \/ PutTarballFails(c)
             \/ PutManifestFails(c) \/ ListKeysFails(c) \/ DeleteKeyFails(c)
             \/ Reply(c)
      PROVE  RoleInv'
  <2>1. seen' = seen /\ pc' = [pc EXCEPT ![c] = "done"]
    BY <1>3 DEF RefusePublish, RefuseUnpublish, Deny, GetFails, FetchTarball,
                CheckFails, PutTarballFails, PutManifestFails, ListKeysFails,
                DeleteKeyFails, Reply
  <2> QED
    BY <2>1
<1>4. ASSUME NEW c \in Clients, LockPackage(c) PROVE RoleInv'
  BY <1>4 DEF LockPackage
<1>5. ASSUME NEW c \in Clients, PublishCheck(c) PROVE RoleInv'
  BY <1>5 DEF PublishCheck
<1>6. ASSUME NEW c \in Clients, PutTarball(c) \/ PutManifest(c) PROVE RoleInv'
  BY <1>6 DEF PutTarball, PutManifest
<1>7. ASSUME NEW c \in Clients, UnpublishCheck(c) PROVE RoleInv'
  BY <1>7 DEF UnpublishCheck
<1>8. ASSUME NEW c \in Clients, ListKeys(c) PROVE RoleInv'
  BY <1>8 DEF ListKeys
<1>9. ASSUME NEW c \in Clients, DeleteKey(c) PROVE RoleInv'
  BY <1>9 DEF DeleteKey
<1>10. ASSUME NEW c \in Clients, RecordEvent(c) \/ RecordAudit(c) PROVE RoleInv'
  BY <1>10 DEF RecordEvent, RecordAudit
<1>11. CASE Crash
  BY <1>11 DEF Crash
<1>12. CASE UNCHANGED vars
  BY <1>12 DEF vars
<1> QED
  BY <1>1, <1>2, <1>3, <1>4, <1>5, <1>6, <1>7, <1>8, <1>9, <1>10, <1>11, <1>12
     DEF Next, ClientStep, HandlerStep, PublishStep, UnpublishStep

(***************************************************************************)
(* Type correctness of every reachable state.                              *)
(***************************************************************************)
THEOREM TypeCorrect == Spec => []TypeOK
<1>1. Init => TypeOK /\ RoleInv
  BY InitTyped
<1>2. (TypeOK /\ RoleInv) /\ [Next]_vars => (TypeOK /\ RoleInv)'
  BY TypeStep, RoleStep
<1> QED
  BY <1>1, <1>2, PTL DEF Spec

(* Two handlers are never between lock and unlock together.                *)
THEOREM MutualExclusion ==
  Spec => [](\A c, d \in Clients : pc[c] \in InLock /\ pc[d] \in InLock => c = d)
<1>1. Init => TypeOK /\ RoleInv /\ LockInv
  BY InitTyped
<1>2. (TypeOK /\ RoleInv /\ LockInv) /\ [Next]_vars => (TypeOK /\ RoleInv /\ LockInv)'
  BY TypeStep, RoleStep, LockStep
<1>3. LockInv => \A c, d \in Clients : pc[c] \in InLock /\ pc[d] \in InLock => c = d
  BY DEF LockInv
<1> QED
  BY <1>1, <1>2, <1>3, PTL DEF Spec

(***************************************************************************)
(* The read-decide-write of both handlers.                                 *)
(***************************************************************************)

(* Only the lock holder that is storing or deleting changes the manifest.  *)
LEMMA ManifestChanges ==
  ASSUME [Next]_vars, manifest' # manifest
  PROVE  \E c \in Clients :
           \/ PutManifest(c)
           \/ PutManifestFails(c)
           \/ DeleteKey(c) /\ manifest' = NoManifest
           \/ DeleteKeyFails(c) /\ manifest' = NoManifest
  BY DEF Next, ClientStep, HandlerStep, PublishStep, UnpublishStep, vars, store,
         FetchManifest, Send, RefusePublish, RefuseUnpublish, LockPackage,
         GetFails, CheckFails, PublishCheck, PutTarball, PutTarballFails,
         UnpublishCheck, ListKeys, ListKeysFails, DeleteKey, DeleteKeyFails,
         Delete, RecordEvent, RecordAudit, Reply, FetchTarball, Crash

(* Only the check of a handler changes what it has read.                   *)
LEMMA ViewChanges ==
  ASSUME TypeOK, [Next]_vars, NEW d \in Clients, view'[d] # view[d]
  PROVE  /\ PublishCheck(d) \/ UnpublishCheck(d)
         /\ view'[d] = manifest
         /\ manifest' = manifest
  BY DEF Next, ClientStep, HandlerStep, PublishStep, UnpublishStep, vars, store,
         local, FetchManifest, Send, RefusePublish, RefuseUnpublish, LockPackage,
         GetFails, CheckFails, PublishCheck, PutTarball, PutTarballFails,
         PutManifest, PutManifestFails, UnpublishCheck, ListKeys, ListKeysFails,
         DeleteKey, DeleteKeyFails, RecordEvent, RecordAudit, Reply,
         FetchTarball, Crash, TypeOK

Deciding == {"putTarball", "putManifest", "listKeys", "deleteKeys"}

(* A handler comes to a point after its check from the check itself, whose *)
(* view it then has, or from the point before.                             *)
LEMMA DecidingComesFrom ==
  ASSUME TypeOK, [Next]_vars, NEW d \in Clients, pc'[d] \in Deciding
  PROVE  \/ pc[d] = "locked" /\ view'[d] = manifest /\ manifest' = manifest
            /\ pc'[d] \in {"putTarball", "listKeys"}
         \/ /\ pc[d] \in Deciding
            /\ pc'[d] = "putTarball" => pc[d] = "putTarball"
            /\ pc'[d] = "putManifest" => pc[d] \in {"putTarball", "putManifest"}
            /\ pc'[d] = "listKeys" => pc[d] = "listKeys"
            /\ pc'[d] = "deleteKeys" => pc[d] \in {"listKeys", "deleteKeys"}
<1> USE DEF TypeOK, Goto, Return, Deciding
<1>1. ASSUME NEW c \in Clients, ClientStep(c) \/ LockPackage(c) PROVE pc[d] = pc'[d]
  BY <1>1 DEF ClientStep, FetchManifest, Send, RefusePublish, RefuseUnpublish, Deny,
              GetFails, FetchTarball, LockPackage
<1>2. ASSUME NEW c \in Clients, PublishCheck(c) \/ UnpublishCheck(c)
      PROVE  \/ pc[d] = pc'[d]
             \/ /\ pc[d] = "locked" /\ view'[d] = manifest /\ manifest' = manifest
                /\ pc'[d] \in {"putTarball", "listKeys"}
  BY <1>2 DEF PublishCheck, UnpublishCheck, store
<1>3. ASSUME NEW c \in Clients, PutTarball(c)
      PROVE  pc[d] = pc'[d] \/ (pc[d] = "putTarball" /\ pc'[d] = "putManifest")
  BY <1>3 DEF PutTarball
<1>4. ASSUME NEW c \in Clients, ListKeys(c)
      PROVE  pc[d] = pc'[d] \/ (pc[d] = "listKeys" /\ pc'[d] = "deleteKeys")
  BY <1>4 DEF ListKeys
<1>5. ASSUME NEW c \in Clients,
             \/ PutTarballFails(c) \/ PutManifest(c) \/ PutManifestFails(c)
             \/ ListKeysFails(c) \/ DeleteKey(c) \/ DeleteKeyFails(c)
             \/ CheckFails(c) \/ RecordEvent(c) \/ RecordAudit(c) \/ Reply(c)
      PROVE  pc[d] = pc'[d]
  BY <1>5 DEF PutTarballFails, PutManifest, PutManifestFails, ListKeysFails,
              DeleteKey, DeleteKeyFails, CheckFails, RecordEvent, RecordAudit, Reply
<1>6. CASE Crash
  BY <1>6 DEF Crash
<1>7. CASE UNCHANGED vars
  BY <1>7 DEF vars
<1> QED
  BY <1>1, <1>2, <1>3, <1>4, <1>5, <1>6, <1>7
     DEF Next, HandlerStep, PublishStep, UnpublishStep

LEMMA DecisionStep ==
  TypeOK /\ LockInv /\ DecisionIsCurrent /\ [Next]_vars => DecisionIsCurrent'
<1> SUFFICES ASSUME TypeOK, LockInv, DecisionIsCurrent, [Next]_vars,
                    NEW d \in Clients, pc'[d] \in Deciding
             PROVE  /\ pc'[d] # "deleteKeys" => manifest' = view'[d]
                    /\ pc'[d] = "deleteKeys" => manifest' \in {view'[d], NoManifest}
  BY DEF DecisionIsCurrent, Deciding
<1>1. CASE pc[d] = "locked" /\ view'[d] = manifest /\ manifest' = manifest
  BY <1>1
<1>2. CASE pc[d] \in Deciding /\ view'[d] = view[d] /\ manifest' = manifest
  BY <1>2, DecidingComesFrom DEF DecisionIsCurrent, Deciding
<1>3. CASE pc[d] \in Deciding /\ view'[d] = view[d] /\ manifest' # manifest
  <2>1. PICK c \in Clients : \/ PutManifest(c)
                             \/ PutManifestFails(c)
                             \/ DeleteKey(c) /\ manifest' = NoManifest
                             \/ DeleteKeyFails(c) /\ manifest' = NoManifest
    BY <1>3, ManifestChanges
  <2>2. pc[c] \in InLock
    BY <2>1 DEF PutManifest, PutManifestFails, DeleteKey, DeleteKeyFails, Goto, InLock
  <2>3. c = d
    BY <1>3, <2>2 DEF LockInv, Deciding, InLock
  <2>4. pc'[c] = "deleteKeys" /\ manifest' = NoManifest
    BY <2>1, <2>3 DEF PutManifest, PutManifestFails, DeleteKey, DeleteKeyFails,
                      Goto, Return, TypeOK, Deciding
  <2> QED
    BY <2>3, <2>4
<1>4. pc[d] \in Deciding => view'[d] = view[d]
  BY ViewChanges DEF PublishCheck, UnpublishCheck, Deciding
<1> QED
  BY <1>1, <1>2, <1>3, <1>4, DecidingComesFrom

(* The manifest a handler decided on is the stored one when it acts.       *)
THEOREM DecisionsAreCurrent == Spec => []DecisionIsCurrent
<1> DEFINE I == TypeOK /\ RoleInv /\ LockInv /\ DecisionIsCurrent
<1>1. Init => I
  BY InitTyped DEF Init, DecisionIsCurrent
<1>2. I /\ [Next]_vars => I'
  BY TypeStep, RoleStep, LockStep, DecisionStep
<1>3. I => DecisionIsCurrent
  OBVIOUS
<1> HIDE DEF I
<1> QED
  BY <1>1, <1>2, <1>3, PTL DEF Spec

(***************************************************************************)
(* Revisions.  Each publish builds one document, with its own suffix, and  *)
(* every manifest that is stored, was served or was read is one of them.   *)
(***************************************************************************)

Before == {"idle", "fetched", "waiting", "locked", "putTarball"}

DraftInv ==
  \A c \in Clients :
    /\ pc[c] \in Before => doc[c] = NoManifest
    /\ pc[c] = "putManifest" => doc[c] = Merge(view[c], cmd[c].body, c)
    /\ doc[c] # NoManifest => doc[c].rev.suffix = c

(* The manifest m is the document of the publish its revision names.       *)
Origin(m) == m # NoManifest => doc[m.rev.suffix] = m

OriginInv ==
  /\ Origin(manifest)
  /\ \A c \in Clients : Origin(seen[c]) /\ Origin(view[c])

(* Only PutTarball writes a document, and for its own client.              *)
LEMMA DocChanges ==
  ASSUME TypeOK, [Next]_vars, NEW d \in Clients, doc'[d] # doc[d]
  PROVE  PutTarball(d)
  BY DEF Next, ClientStep, HandlerStep, PublishStep, UnpublishStep, vars,
         local, FetchManifest, Send, RefusePublish, RefuseUnpublish, LockPackage,
         GetFails, CheckFails, PublishCheck, PutTarball, PutTarballFails,
         PutManifest, PutManifestFails, UnpublishCheck, ListKeys, ListKeysFails,
         DeleteKey, DeleteKeyFails, RecordEvent, RecordAudit, Reply,
         FetchTarball, Crash, TypeOK

(* Only the GET of a manifest changes what a client was served.            *)
LEMMA SeenChanges ==
  ASSUME TypeOK, [Next]_vars, NEW d \in Clients, seen'[d] # seen[d]
  PROVE  /\ FetchManifest(d)
         /\ seen'[d] = manifest
         /\ manifest # NoManifest
         /\ manifest' = manifest
  BY DEF Next, ClientStep, HandlerStep, PublishStep, UnpublishStep, vars, store,
         FetchManifest, Send, RefusePublish, RefuseUnpublish, LockPackage,
         GetFails, CheckFails, PublishCheck, PutTarball, PutTarballFails,
         PutManifest, PutManifestFails, UnpublishCheck, ListKeys, ListKeysFails,
         DeleteKey, DeleteKeyFails, RecordEvent, RecordAudit, Reply,
         FetchTarball, Crash, TypeOK

(* No step goes back to a point before the document is built, and the point*)
(* after it is entered by building it.                                     *)
LEMMA ProgressIsForward ==
  ASSUME TypeOK, LockInv, [Next]_vars, NEW d \in Clients
  PROVE  /\ pc'[d] \in Before => pc[d] \in Before /\ ~PutTarball(d)
         /\ pc'[d] = "putManifest" => pc[d] = "putManifest" \/ PutTarball(d)
<1> USE DEF Goto, Return, TypeOK, Before
<1>1. ASSUME NEW c \in Clients,
             \/ ClientStep(c) \/ LockPackage(c)
             \/ PublishCheck(c) \/ UnpublishCheck(c)
      PROVE  /\ pc'[d] \in Before => pc[d] \in Before
             /\ pc'[d] = "putManifest" => pc[d] = "putManifest"
  BY <1>1 DEF ClientStep, FetchManifest, Send, Sends, RefusePublish,
              RefuseUnpublish, Deny, GetFails, FetchTarball, LockPackage,
              PublishCheck, UnpublishCheck
<1>2. ASSUME NEW c \in Clients,
             \/ PutTarballFails(c) \/ PutManifest(c) \/ PutManifestFails(c)
             \/ ListKeys(c) \/ ListKeysFails(c) \/ DeleteKey(c)
             \/ DeleteKeyFails(c) \/ CheckFails(c) \/ RecordEvent(c)
             \/ RecordAudit(c) \/ Reply(c)
      PROVE  /\ pc'[d] \in Before => pc[d] \in Before
             /\ pc'[d] = "putManifest" => pc[d] = "putManifest"
  BY <1>2 DEF PutTarballFails, PutManifest, PutManifestFails, ListKeys,
              ListKeysFails, DeleteKey, DeleteKeyFails, CheckFails,
              RecordEvent, RecordAudit, Reply
<1>3. ASSUME NEW c \in Clients, PutTarball(c)
      PROVE  /\ pc'[d] \in Before => pc[d] \in Before
             /\ pc'[d] = "putManifest" => pc[d] = "putManifest" \/ c = d
  BY <1>3 DEF PutTarball
<1>4. PutTarball(d) => pc'[d] = "putManifest"
  BY DEF PutTarball
<1>5. CASE Crash
  BY <1>4, <1>5 DEF Crash
<1>6. CASE UNCHANGED vars
  BY <1>4, <1>6 DEF vars
<1> QED
  BY <1>1, <1>2, <1>3, <1>4, <1>5, <1>6
     DEF Next, HandlerStep, PublishStep, UnpublishStep

LEMMA DraftStep ==
  TypeOK /\ RoleInv /\ LockInv /\ DraftInv /\ [Next]_vars => DraftInv'
<1> SUFFICES ASSUME TypeOK, RoleInv, LockInv, DraftInv, [Next]_vars, NEW c \in Clients
             PROVE  /\ pc'[c] \in Before => doc'[c] = NoManifest
                    /\ pc'[c] = "putManifest"
                         => doc'[c] = Merge(view'[c], cmd'[c].body, c)
                    /\ doc'[c] # NoManifest => doc'[c].rev.suffix = c
  BY DEF DraftInv
<1>1. CASE PutTarball(c)
  <2>1. Publishes(c)
    BY <1>1 DEF PutTarball, Goto, RoleInv
  <2>2. doc'[c] = Merge(view[c], cmd[c].body, c) /\ view' = view /\ cmd' = cmd
    BY <1>1 DEF PutTarball, TypeOK
  <2>3. Merge(view[c], cmd[c].body, c).rev.suffix = c
    BY <2>1, BodyOfPublish, MergeValues DEF TypeOK
  <2> QED
    BY <1>1, <2>2, <2>3, ProgressIsForward
<1>2. CASE ~PutTarball(c)
  <2>1. doc'[c] = doc[c]
    BY <1>2, DocChanges
  <2>2. pc'[c] = "putManifest" => view'[c] = view[c] /\ cmd' = cmd /\ pc[c] = "putManifest"
    BY <1>2, ProgressIsForward, ViewChanges, CommandsFixed
       DEF PublishCheck, UnpublishCheck
  <2> QED
    BY <2>1, <2>2, ProgressIsForward DEF DraftInv
<1> QED
  BY <1>1, <1>2

(* A document, once built, is never replaced.                              *)
LEMMA OriginIsKept ==
  ASSUME TypeOK, RoleInv, LockInv, DraftInv, [Next]_vars,
         NEW m \in Manifests \cup {NoManifest}, Origin(m)
  PROVE  Origin(m)'
<1> SUFFICES ASSUME m # NoManifest PROVE doc'[m.rev.suffix] = m
  BY DEF Origin
<1>1. m.rev.suffix \in Clients
  BY DEF Manifests, Revisions
<1>2. doc[m.rev.suffix] = m
  BY DEF Origin
<1>3. ~PutTarball(m.rev.suffix)
  BY <1>1, <1>2 DEF PutTarball, Goto, DraftInv, Before
<1> QED
  BY <1>1, <1>2, <1>3, DocChanges

LEMMA OriginStep ==
  /\ TypeOK /\ RoleInv /\ LockInv /\ DraftInv /\ OriginInv /\ [Next]_vars
  => OriginInv'
<1> SUFFICES ASSUME TypeOK, RoleInv, LockInv, DraftInv, OriginInv, [Next]_vars
             PROVE  OriginInv'
  OBVIOUS
<1>1. Origin(manifest)'
  <2>1. CASE manifest' = manifest
    <3>1. (doc'[manifest.rev.suffix] = manifest) \/ manifest = NoManifest
      BY OriginIsKept DEF OriginInv, TypeOK, Origin
    <3> QED
      BY <2>1, <3>1 DEF Origin
  <2>2. CASE manifest' = NoManifest
    BY <2>2 DEF Origin
  <2>3. CASE \E c \in Clients : (PutManifest(c) \/ PutManifestFails(c))
                               /\ manifest' = doc[c] /\ manifest' # NoManifest
    <3>1. PICK c \in Clients : /\ PutManifest(c) \/ PutManifestFails(c)
                               /\ manifest' = doc[c] /\ doc[c] # NoManifest
      BY <2>3
    <3>2. doc' = doc
      BY <3>1 DEF PutManifest, PutManifestFails, local
    <3> QED
      BY <3>1, <3>2 DEF DraftInv, Origin
  <2> QED
    BY <2>1, <2>2, <2>3, ManifestChanges DEF PutManifest, PutManifestFails
<1>2. ASSUME NEW c \in Clients PROVE Origin(seen[c])'
  <2>1. seen'[c] \in {seen[c], manifest}
    BY SeenChanges
  <2>2. seen'[c] = NoManifest \/ doc'[seen'[c].rev.suffix] = seen'[c]
    BY <2>1, OriginIsKept DEF OriginInv, TypeOK, Origin
  <2> QED
    BY <2>2 DEF Origin
<1>3. ASSUME NEW c \in Clients PROVE Origin(view[c])'
  <2>1. view'[c] \in {view[c], manifest}
    BY ViewChanges
  <2>2. view'[c] = NoManifest \/ doc'[view'[c].rev.suffix] = view'[c]
    BY <2>1, OriginIsKept DEF OriginInv, TypeOK, Origin
  <2> QED
    BY <2>2 DEF Origin
<1> QED
  BY <1>1, <1>2, <1>3 DEF OriginInv

(* A revision names one state of the package for ever.                     *)
THEOREM RevisionsNameManifests == Spec => []RevisionNamesManifest
<1> DEFINE I == TypeOK /\ RoleInv /\ LockInv /\ DraftInv /\ OriginInv
<1>1. Init => I
  BY InitTyped DEF Init, DraftInv, OriginInv, Origin
<1>2. I /\ [Next]_vars => I'
  BY TypeStep, RoleStep, LockStep, DraftStep, OriginStep
<1>3. I => RevisionNamesManifest
  <2> SUFFICES ASSUME I, NEW m1 \in Documents, NEW m2 \in Documents, m1.rev = m2.rev
               PROVE  m1 = m2
    BY DEF RevisionNamesManifest
  <2>1. ASSUME NEW m \in Documents PROVE doc[m.rev.suffix] = m
    BY <2>1 DEF Documents, OriginInv, Origin, DraftInv
  <2> QED
    BY <2>1
<1> HIDE DEF I
<1> QED
  BY <1>1, <1>2, <1>3, PTL DEF Spec
=============================================================================
