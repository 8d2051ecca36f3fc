------------------------------ MODULE Registry ------------------------------
(***************************************************************************)
(* The package handlers over one package's directory of the blob store:    *)
(* publish (PUT /<pkg>), unpublish (DELETE /<pkg>/-rev/<rev>), and the two *)
(* reads, manifest and tarball.  Publish and unpublish run under the       *)
(* in-process lock of the package; reads take no lock.                     *)
(*                                                                         *)
(* A client is one npm command: "npm publish" is one PUT, "npm unpublish"  *)
(* and "npm install" first GET the manifest and then DELETE its revision   *)
(* or GET a tarball.  A retry is another client.  Packages share no key,   *)
(* no lock and no manifest, so one package is modelled.                    *)
(*                                                                         *)
(* Files and the audit log survive a crash; requests, their local          *)
(* variables and the lock do not.                                          *)
(***************************************************************************)
EXTENDS Packument, FiniteSets, Functions

CONSTANTS
  ManifestKey,  \* the key <pkg>/package.json
  Rank,         \* the order in which blob.FS.List returns the keys
  NoClient,     \* nobody holds the lock
  Faults        \* what may go wrong: see FaultKinds

(* "error": a blob call fails and changed nothing.  "ambiguous": a write or*)
(* a delete took effect and still reports an error (the S3 answer was lost *)
(* or the request's context was cancelled).  "record": the event row or the*)
(* audit line is not written; both handlers go on.  "crash": the process   *)
(* dies and is started again.                                              *)
FaultKinds == {"error", "ambiguous", "record", "crash"}

Keys == Files \cup {ManifestKey}

ASSUME FaultsAssumption == Faults \subseteq FaultKinds
ASSUME ManifestKeyAssumption == ManifestKey \notin Files
ASSUME NoClientAssumption == NoClient \notin Clients
ASSUME RankAssumption ==
  /\ Rank \in [Keys -> Nat]
  /\ \A k, j \in Keys : Rank[k] = Rank[j] => k = j

VARIABLES
  manifest,   \* the stored package.json, or NoManifest
  tarballs,   \* the stored tarballs: file name -> content
  lock,       \* the client whose handler holds the package lock
  cmd,        \* the command each client runs
  pc,         \* where the client's command is
  seen,       \* the manifest the client was served
  view,       \* the manifest its handler read under the lock
  doc,        \* the document its handler built ("merged")
  todo,       \* the listed keys DeletePackage has still to delete
  status,     \* the answer the client got
  got,        \* the tarball content an install received
  feed,       \* user_events rows of publishes and unpublishes
  audit       \* lines of audit.jsonl

store  == <<manifest, tarballs>>
logs   == <<feed, audit>>
answer == <<status, got>>
local  == <<view, doc, todo>>
vars   == <<manifest, tarballs, lock, cmd, pc, seen, view, doc, todo,
            status, got, feed, audit>>

Commands == [op : {"publish"}, body : Bodies]
              \cup [op : {"unpublish"}]
              \cup [op : {"install"}, version : Versions]

(* Program points: "idle" and "fetched" are the client's, from "waiting" to*)
(* "reply" the request is inside the server.                               *)
InLock == {"locked", "putTarball", "putManifest", "listKeys", "deleteKeys",
           "recordEvent", "recordAudit", "reply"}
InServer == InLock \cup {"waiting"}
Ended == {"done", "dropped"}
Points == InServer \cup Ended \cup {"idle", "fetched"}

Statuses == {"none", "created", "conflict", "notFound", "error", "forbidden",
             "rejected", "removed", "served"}

Publishes(c)   == cmd[c].op = "publish"
Unpublishes(c) == cmd[c].op = "unpublish"
Installs(c)    == cmd[c].op = "install"

Records == [by : Clients, action : {"publish", "unpublish", "denied"}]

(* The record of a command that succeeded.                                 *)
RecordOf(c) == [by |-> c, action |-> cmd[c].op]

Init ==
  /\ manifest = NoManifest
  /\ tarballs = [f \in {} |-> f]
  /\ lock = NoClient
  /\ cmd \in [Clients -> Commands]
  /\ pc = [c \in Clients |-> "idle"]
  /\ seen = [c \in Clients |-> NoManifest]
  /\ view = [c \in Clients |-> NoManifest]
  /\ doc = [c \in Clients |-> NoManifest]
  /\ todo = [c \in Clients |-> {}]
  /\ status = [c \in Clients |-> "none"]
  /\ got = [c \in Clients |-> {}]
  /\ feed = {}
  /\ audit = {}

----------------------------------------------------------------------------
Goto(c, from, to) == pc[c] = from /\ pc' = [pc EXCEPT ![c] = to]

(* The handler returns: the answer is written and the deferred unlock runs.*)
Return(c, code) ==
  /\ pc' = [pc EXCEPT ![c] = "done"]
  /\ status' = [status EXCEPT ![c] = code]
  /\ lock' = IF lock = c THEN NoClient ELSE lock

(* Whether a failing blob call may have taken effect.                      *)
Effects == { applied \in BOOLEAN :
               (IF applied THEN "ambiguous" ELSE "error") \in Faults }

(* Whether a best-effort record is written.                                *)
Written == { ok \in BOOLEAN : ok \/ "record" \in Faults }

(* serveManifest: the client's GET, answered without the lock.             *)
FetchManifest(c) ==
  /\ ~Publishes(c)
  /\ pc[c] = "idle"
  /\ IF manifest = NoManifest
     THEN Return(c, "notFound") /\ UNCHANGED seen
     ELSE /\ Goto(c, "idle", "fetched")
          /\ seen' = [seen EXCEPT ![c] = manifest]
          /\ UNCHANGED <<lock, status>>
  /\ UNCHANGED <<store, cmd, local, got, logs>>

(* A publish is sent as it is, an unpublish with the revision it fetched.  *)
Sends(c) == \/ Publishes(c) /\ pc[c] = "idle"
            \/ Unpublishes(c) /\ pc[c] = "fetched"

(* The request passes authorisation and validation and queues on the lock. *)
Send(c) ==
  /\ Sends(c)
  /\ pc' = [pc EXCEPT ![c] = "waiting"]
  /\ UNCHANGED <<store, lock, cmd, seen, local, answer, logs>>

Deny(c) ==
  /\ Return(c, "forbidden")
  /\ \E ok \in Written :
       audit' = IF ok THEN audit \cup {[by |-> c, action |-> "denied"]} ELSE audit

(* The principal may not publish, which is audited, or the body is refused.*)
RefusePublish(c) ==
  /\ Publishes(c)
  /\ Sends(c)
  /\ \/ Deny(c)
     \/ Return(c, "rejected") /\ UNCHANGED audit
  /\ UNCHANGED <<store, cmd, seen, local, got, feed>>

(* Without a principal the answer is 401 and nothing is audited.           *)
RefuseUnpublish(c) ==
  /\ Unpublishes(c)
  /\ Sends(c)
  /\ \/ Deny(c)
     \/ Return(c, "rejected") /\ UNCHANGED audit
  /\ UNCHANGED <<store, cmd, seen, local, got, feed>>

(* Mutant: the handlers do not take the lock.                              *)
LockPackage_NoMutex(c) ==
  /\ Goto(c, "waiting", "locked")
  /\ lock' = c
  /\ UNCHANGED <<store, cmd, seen, local, answer, logs>>

(* Storage.Lock.                                                           *)
LockPackage(c) ==
  /\ lock = NoClient
  /\ Goto(c, "waiting", "locked")
  /\ lock' = c
  /\ UNCHANGED <<store, cmd, seen, local, answer, logs>>

(* A read fails: the GET of a manifest or of a tarball answers 500.        *)
GetFails(c) ==
  /\ "error" \in Faults
  /\ ~Publishes(c)
  /\ \/ pc[c] = "idle"
     \/ Installs(c) /\ pc[c] = "fetched"
  /\ Return(c, "error")
  /\ UNCHANGED <<store, cmd, seen, local, got, logs>>

(* The handler that holds the lock cannot read the manifest.               *)
CheckFails(c) ==
  /\ "error" \in Faults
  /\ pc[c] = "locked"
  /\ Return(c, "error")
  /\ UNCHANGED <<store, cmd, seen, local, got, logs>>

----------------------------------------------------------------------------
(* handlePublish, under the lock.                                          *)

(* Mutant: no 409 for a version that is already present.                   *)
PublishCheck_NoConflict(c) ==
  /\ Publishes(c)
  /\ Goto(c, "locked", "putTarball")
  /\ view' = [view EXCEPT ![c] = manifest]
  /\ UNCHANGED <<store, lock, cmd, seen, doc, todo, answer, logs>>

(* Mutant: the unlock is not deferred and the 409 return keeps the lock.   *)
PublishCheck_KeepsLock(c) ==
  /\ Publishes(c)
  /\ pc[c] = "locked"
  /\ view' = [view EXCEPT ![c] = manifest]
  /\ IF cmd[c].body.version \in DOMAIN VersionsOf(manifest)
     THEN /\ pc' = [pc EXCEPT ![c] = "done"]
          /\ status' = [status EXCEPT ![c] = "conflict"]
     ELSE Goto(c, "locked", "putTarball") /\ UNCHANGED status
  /\ UNCHANGED <<store, lock, cmd, seen, doc, todo, got, logs>>

PublishCheck(c) ==
  /\ Publishes(c)
  /\ pc[c] = "locked"
  /\ view' = [view EXCEPT ![c] = manifest]
  /\ IF cmd[c].body.version \in DOMAIN VersionsOf(manifest)
     THEN Return(c, "conflict")
     ELSE Goto(c, "locked", "putTarball") /\ UNCHANGED <<lock, status>>
  /\ UNCHANGED <<store, cmd, seen, doc, todo, got, logs>>

(* Mutant: a tarball that is already stored is kept.                       *)
TarballsAfterPut_KeepsOld(c) ==
  IF cmd[c].body.file \in DOMAIN tarballs THEN tarballs
  ELSE Bind(tarballs, cmd[c].body.file, cmd[c].body.sha)

TarballsAfterPut(c) == Bind(tarballs, cmd[c].body.file, cmd[c].body.sha)

PutTarball(c) ==
  /\ Goto(c, "putTarball", "putManifest")
  /\ tarballs' = TarballsAfterPut(c)
  /\ doc' = [doc EXCEPT ![c] = Merge(view[c], cmd[c].body, c)]
  /\ UNCHANGED <<manifest, lock, cmd, seen, view, todo, answer, logs>>

PutTarballFails(c) ==
  /\ pc[c] = "putTarball"
  /\ \E applied \in Effects :
       tarballs' = IF applied THEN TarballsAfterPut(c) ELSE tarballs
  /\ Return(c, "error")
  /\ UNCHANGED <<manifest, cmd, seen, local, got, logs>>

PutManifest(c) ==
  /\ Goto(c, "putManifest", "recordEvent")
  /\ manifest' = doc[c]
  /\ UNCHANGED <<tarballs, lock, cmd, seen, local, answer, logs>>

PutManifestFails(c) ==
  /\ pc[c] = "putManifest"
  /\ \E applied \in Effects :
       manifest' = IF applied THEN doc[c] ELSE manifest
  /\ Return(c, "error")
  /\ UNCHANGED <<tarballs, cmd, seen, local, got, logs>>

----------------------------------------------------------------------------
(* handleUnpublish, under the lock.                                        *)

(* Mutant: any revision is accepted.                                       *)
UnpublishCheck_AnyRevision(c) ==
  /\ Unpublishes(c)
  /\ pc[c] = "locked"
  /\ \/ manifest = NoManifest /\ Return(c, "notFound") /\ UNCHANGED view
     \/ /\ manifest # NoManifest
        /\ Goto(c, "locked", "listKeys")
        /\ view' = [view EXCEPT ![c] = manifest]
        /\ UNCHANGED <<lock, status>>
  /\ UNCHANGED <<store, cmd, seen, doc, todo, got, logs>>

(* Mutant: only the revision numbers are compared.                         *)
UnpublishCheck_NumberOnly(c) ==
  /\ Unpublishes(c)
  /\ pc[c] = "locked"
  /\ \/ manifest = NoManifest /\ Return(c, "notFound") /\ UNCHANGED view
     \/ /\ manifest # NoManifest
        /\ manifest.rev.n # seen[c].rev.n
        /\ Return(c, "conflict")
        /\ UNCHANGED view
     \/ /\ manifest # NoManifest
        /\ manifest.rev.n = seen[c].rev.n
        /\ Goto(c, "locked", "listKeys")
        /\ view' = [view EXCEPT ![c] = manifest]
        /\ UNCHANGED <<lock, status>>
  /\ UNCHANGED <<store, cmd, seen, doc, todo, got, logs>>

UnpublishCheck(c) ==
  /\ Unpublishes(c)
  /\ pc[c] = "locked"
  /\ \/ manifest = NoManifest /\ Return(c, "notFound") /\ UNCHANGED view
     \/ /\ manifest # NoManifest
        /\ manifest.rev # seen[c].rev
        /\ Return(c, "conflict")
        /\ UNCHANGED view
     \/ /\ manifest # NoManifest
        /\ manifest.rev = seen[c].rev
        /\ Goto(c, "locked", "listKeys")
        /\ view' = [view EXCEPT ![c] = manifest]
        /\ UNCHANGED <<lock, status>>
  /\ UNCHANGED <<store, cmd, seen, doc, todo, got, logs>>

(* Mutants: only the tarballs, or only the manifest, are deleted.          *)
StoredKeys_Tarballs == DOMAIN tarballs
StoredKeys_Manifest == {ManifestKey}

(* DeletePackage: the keys of the package, listed once.                    *)
StoredKeys == DOMAIN tarballs \cup
                (IF manifest = NoManifest THEN {} ELSE {ManifestKey})

ListKeys(c) ==
  /\ Goto(c, "listKeys", "deleteKeys")
  /\ todo' = [todo EXCEPT ![c] = StoredKeys]
  /\ UNCHANGED <<store, lock, cmd, seen, view, doc, answer, logs>>

ListKeysFails(c) ==
  /\ "error" \in Faults
  /\ pc[c] = "listKeys"
  /\ Return(c, "error")
  /\ UNCHANGED <<store, cmd, seen, local, got, logs>>

(* sortObjects: the listing is in key order.                               *)
IsNextKey(c, k) == k \in todo[c] /\ \A j \in todo[c] : Rank[k] <= Rank[j]

Delete(k) ==
  /\ manifest' = IF k = ManifestKey THEN NoManifest ELSE manifest
  /\ tarballs' = Restrict(tarballs, DOMAIN tarballs \ {k})

DeleteKey(c) ==
  /\ pc[c] = "deleteKeys"
  /\ \E k \in Keys :
       /\ IsNextKey(c, k)
       /\ Delete(k)
       /\ todo' = [todo EXCEPT ![c] = @ \ {k}]
       /\ pc' = [pc EXCEPT ![c] = IF todo[c] = {k} THEN "recordEvent" ELSE @]
  /\ UNCHANGED <<lock, cmd, seen, view, doc, answer, logs>>

(* DeletePackage stops at the first key it cannot delete.                  *)
DeleteKeyFails(c) ==
  /\ pc[c] = "deleteKeys"
  /\ \E applied \in Effects :
       IF applied THEN \E k \in Keys : IsNextKey(c, k) /\ Delete(k)
                  ELSE UNCHANGED store
  /\ Return(c, "error")
  /\ UNCHANGED <<cmd, seen, local, got, logs>>

----------------------------------------------------------------------------
(* The end of both handlers: event row, audit line, answer and unlock.     *)

(* Mutant: the handler answers without an audit line.                      *)
RecordEvent_NoAudit(c) ==
  /\ Goto(c, "recordEvent", "reply")
  /\ \E ok \in Written : feed' = IF ok THEN feed \cup {RecordOf(c)} ELSE feed
  /\ UNCHANGED <<store, lock, cmd, seen, local, answer, audit>>

RecordEvent(c) ==
  /\ Goto(c, "recordEvent", "recordAudit")
  /\ \E ok \in Written : feed' = IF ok THEN feed \cup {RecordOf(c)} ELSE feed
  /\ UNCHANGED <<store, lock, cmd, seen, local, answer, audit>>

RecordAudit(c) ==
  /\ Goto(c, "recordAudit", "reply")
  /\ \E ok \in Written : audit' = IF ok THEN audit \cup {RecordOf(c)} ELSE audit
  /\ UNCHANGED <<store, lock, cmd, seen, local, answer, feed>>

Reply(c) ==
  /\ pc[c] = "reply"
  /\ Return(c, IF Publishes(c) THEN "created" ELSE "removed")
  /\ UNCHANGED <<store, cmd, seen, local, got, logs>>

----------------------------------------------------------------------------
(* serveTarball: the install downloads the file its manifest names.        *)
FetchTarball(c) ==
  /\ Installs(c)
  /\ pc[c] = "fetched"
  /\ LET v == cmd[c].version
         f == seen[c].versions[v].file
     IN  IF v \in DOMAIN seen[c].versions /\ f \in DOMAIN tarballs
         THEN /\ Return(c, "served")
              /\ got' = [got EXCEPT ![c] = {tarballs[f]}]
         ELSE Return(c, "notFound") /\ UNCHANGED got
  /\ UNCHANGED <<store, cmd, seen, local, logs>>

(* The process dies with every request in it and comes back empty-handed.  *)
Crash ==
  /\ "crash" \in Faults
  /\ \E c \in Clients : pc[c] \in InServer
  /\ pc' = [c \in Clients |-> IF pc[c] \in InServer THEN "dropped" ELSE pc[c]]
  /\ lock' = NoClient
  /\ UNCHANGED <<store, cmd, seen, local, answer, logs>>

PublishStep(c) ==
  PublishCheck(c) \/ PutTarball(c) \/ PutTarballFails(c)
    \/ PutManifest(c) \/ PutManifestFails(c)

UnpublishStep(c) ==
  UnpublishCheck(c) \/ ListKeys(c) \/ ListKeysFails(c)
    \/ DeleteKey(c) \/ DeleteKeyFails(c)

(* The steps of an accepted request, from the lock to the answer.          *)
HandlerStep(c) ==
  PublishStep(c) \/ UnpublishStep(c) \/ CheckFails(c)
    \/ RecordEvent(c) \/ RecordAudit(c) \/ Reply(c)

ClientStep(c) ==
  FetchManifest(c) \/ FetchTarball(c) \/ GetFails(c)
    \/ Send(c) \/ RefusePublish(c) \/ RefuseUnpublish(c)

Next == \/ \E c \in Clients : ClientStep(c) \/ LockPackage(c) \/ HandlerStep(c)
        \/ Crash

(* Every blob, database and file call returns, so an accepted request goes *)
(* on; sync.Mutex hands itself over in FIFO order to a waiter that starves.*)
Fairness == \A c \in Clients : WF_vars(HandlerStep(c)) /\ SF_vars(LockPackage(c))

Spec == Init /\ [][Next]_vars
FairSpec == Spec /\ Fairness
=============================================================================
