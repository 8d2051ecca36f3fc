------------------------------ MODULE Restore ------------------------------
(***************************************************************************)
(* Restoring a backup on the local backend: concurrent Restore requests    *)
(* stage an archive and stop the server, then ApplyRestore swaps the files,*)
(* one action per file operation; any of them may fail and the process may *)
(* die between any two.  A file is known by where its data came from: the  *)
(* live server or the archive of one restore.                              *)
(***************************************************************************)
EXTENDS FiniteSets

CONSTANTS
  Restores,    \* the restore requests
  Packages,    \* the entries of the storage root that hold packages
  Archived,    \* the packages in the archive each request names
  HasAudit,    \* the requests whose archive has an audit log
  InRoot,      \* which of database and audit log lie in the storage root
  Spelled,     \* which have the path filepath.Join builds for a root entry
  Faults,      \* which of "error" and "crash" may happen
  Live,        \* data the server wrote
  Partial,     \* a copy that is not complete
  NoFile,      \* no such file
  NoRestore    \* a nil pointer to a staged restore

Kept == {"db", "audit", "backups"}
Pieces == {"db", "audit", "storage"}
Steps == {"wal", "db", "audit", "tree", "clear", "move", "copy", "clean"}

ASSUME ArchivedAssumption ==
  Archived \in [Restores -> SUBSET Packages] /\ HasAudit \subseteq Restores
ASSUME LayoutAssumption ==
  InRoot \subseteq {"db", "audit"} /\ Spelled \subseteq {"db", "audit"}
ASSUME NamesAssumption ==
  /\ Packages \cap Kept = {}
  /\ NoRestore \notin Restores
  /\ Live \notin Restores /\ Partial \notin Restores /\ NoFile \notin Restores
  /\ Live # Partial /\ Live # NoFile /\ Partial # NoFile

VARIABLES
  disk,      \* package entry, database, audit log, backups -> what is there
  wal,       \* the database whose writes metadata.db-wal holds
  old,       \* what lies in <root>.old
  staged,    \* the pieces in each request's temporary directory
  pc,        \* where each request is
  pending,   \* the staged restore that waits for the stop
  phase,     \* where the process is
  applying,  \* the restore that ApplyRestore works on
  todo,      \* entries still to be moved aside or copied
  before,    \* history: the packages as ApplyRestore found them, until copied
             \*   or, in the root, published again
  late,      \* history: the packages published since ApplyRestore began
  unseen,    \* history: a tree was staged, but os.Stat did not find it
  applied    \* history: the restore this run of the process ended with

files == <<disk, wal, old>>
request == <<staged, pc, pending>>
history == <<before, late, unseen, applied>>
vars == <<files, request, phase, applying, todo, history>>

Items == Packages \cup Kept
Nothing == [i \in Packages |-> NoFile]

Contents(r) == {"db"} \cup (IF r \in HasAudit THEN {"audit"} ELSE {})
                 \cup (IF Archived[r] = {} THEN {} ELSE {"storage"})

Init ==
  /\ \E P \in SUBSET Packages :
       disk = [i \in Items |-> IF i \in P \cup Kept THEN Live ELSE NoFile]
  /\ wal = NoFile
  /\ old = [i \in Items |-> NoFile]
  /\ staged = [r \in Restores |-> {}]
  /\ pc = [r \in Restores |-> "idle"]
  /\ pending = NoRestore
  /\ phase = "serving"
  /\ applying = NoRestore
  /\ todo = {}
  /\ before = Nothing
  /\ late = {}
  /\ unseen = FALSE
  /\ applied = NoRestore

----------------------------------------------------------------------------
(* Restore: the check of pending, the archive unpacked into a directory of *)
(* its own, and the pointer stored.  Handlers may outlive the 5 s limit of *)
(* Shutdown, so they run until the process is down.                        *)
Goto(r, from, to) ==
  phase # "down" /\ pc[r] = from /\ pc' = [pc EXCEPT ![r] = to]

Check(r) ==
  /\ pending = NoRestore
  /\ Goto(r, "idle", "staging")
  /\ UNCHANGED <<files, staged, pending, phase, applying, todo, history>>

Refuse(r) ==
  /\ pending # NoRestore
  /\ Goto(r, "idle", "refused")
  /\ UNCHANGED <<files, staged, pending, phase, applying, todo, history>>

Stage(r) ==
  /\ Goto(r, "staging", "staged")
  /\ staged' = [staged EXCEPT ![r] = Contents(r)]
  /\ UNCHANGED <<files, pending, phase, applying, todo, history>>

(* No such archive, a bad one, or one without a database: cleanup.         *)
StageFails(r) ==
  /\ "error" \in Faults
  /\ Goto(r, "staging", "refused")
  /\ UNCHANGED <<files, staged, pending, phase, applying, todo, history>>

Accept(r) ==
  /\ Goto(r, "staged", "accepted")
  /\ pending' = r
  /\ phase' = IF phase = "serving" THEN "stopping" ELSE phase
  /\ UNCHANGED <<files, staged, applying, todo, history>>

----------------------------------------------------------------------------
(* The process around it.  A commit goes to the write-ahead log; once the  *)
(* database is closed it fails.                                            *)
Write ==
  /\ phase \in {"serving", "stopping"}
  /\ wal' = disk["db"]
  /\ UNCHANGED <<disk, old, request, phase, applying, todo, history>>

(* A publish.  Its handler may outlive the 5 s limit of Shutdown, and the  *)
(* blob store is never closed: it may store beside ApplyRestore too.  What *)
(* it adds to an incomplete copy leaves it incomplete; what it replaces in *)
(* the root is not ApplyRestore's to keep any more.                        *)
Publish(p) ==
  /\ phase # "down"
  /\ disk' = [disk EXCEPT ![p] = IF @ = Partial THEN Partial ELSE Live]
  /\ before' = [before EXCEPT ![p] = IF @ = disk[p] THEN NoFile ELSE @]
  /\ late' = IF phase \in Steps THEN late \cup {p} ELSE late
  /\ UNCHANGED <<wal, old, request, phase, applying, todo, unseen, applied>>

(* SIGTERM, without a restore.                                             *)
Terminate ==
  /\ phase = "serving"
  /\ phase' = "stopping"
  /\ UNCHANGED <<files, request, applying, todo, history>>

(* Closing the database checkpoints the log and removes it, unless that    *)
(* fails, which nobody looks at.                                           *)
Close ==
  /\ phase = "stopping"
  /\ phase' = "closed"
  /\ \/ wal' = NoFile
     \/ "error" \in Faults /\ wal' = wal
  /\ UNCHANGED <<disk, old, request, applying, todo, history>>

Running == {"staging", "staged"}

Down(keep) ==
  /\ phase' = "down"
  /\ applying' = NoRestore
  /\ pending' = NoRestore
  /\ pc' = [r \in Restores |-> IF pc[r] \in Running THEN "dropped" ELSE pc[r]]
  /\ staged' = keep

Crash ==
  /\ "crash" \in Faults
  /\ phase # "down"
  /\ Down(staged)
  /\ UNCHANGED <<files, todo, history>>

(* A missing database or audit log is created when it is opened.           *)
Start ==
  /\ phase = "down"
  /\ phase' = "serving"
  /\ late' = {}
  /\ unseen' = FALSE
  /\ applied' = NoRestore
  /\ disk' = [i \in Items |->
                IF i \in {"db", "audit"} /\ disk[i] = NoFile THEN Live ELSE disk[i]]
  /\ UNCHANGED <<wal, old, request, applying, todo, before>>

----------------------------------------------------------------------------
(* ApplyRestore, or its error when nothing is pending.                     *)
NonePending ==
  /\ phase = "closed"
  /\ pending = NoRestore
  /\ Down(staged)
  /\ UNCHANGED <<files, todo, history>>

(* Mutant: the nil pointer is not looked for.                              *)
Take_Nil ==
  /\ phase = "closed"
  /\ phase' = "wal"
  /\ applying' = pending
  /\ pending' = NoRestore
  /\ before' = [p \in Packages |-> disk[p]]
  /\ UNCHANGED <<files, staged, pc, todo, late, unseen, applied>>

Take ==
  /\ phase = "closed"
  /\ pending # NoRestore
  /\ phase' = "wal"
  /\ applying' = pending
  /\ pending' = NoRestore
  /\ before' = [p \in Packages |-> disk[p]]
  /\ UNCHANGED <<files, staged, pc, todo, late, unseen, applied>>

(* Mutant: the log stays.                                                  *)
RemoveWal_Skipped ==
  /\ phase = "wal"
  /\ phase' = "db"
  /\ UNCHANGED <<files, request, applying, todo, history>>

RemoveWal ==
  /\ phase = "wal"
  /\ phase' = "db"
  /\ wal' = NoFile
  /\ UNCHANGED <<disk, old, request, applying, todo, history>>

SwapDatabase ==
  /\ phase = "db"
  /\ phase' = "audit"
  /\ disk' = [disk EXCEPT !["db"] = applying]
  /\ staged' = [staged EXCEPT ![applying] = @ \ {"db"}]
  /\ UNCHANGED <<wal, old, pc, pending, applying, todo, history>>

(* An archive without an audit log leaves the current one.                 *)
SwapAudit ==
  /\ phase = "audit"
  /\ phase' = "tree"
  /\ disk' = IF "audit" \in staged[applying]
             THEN [disk EXCEPT !["audit"] = applying] ELSE disk
  /\ staged' = [staged EXCEPT ![applying] = @ \ {"audit"}]
  /\ UNCHANGED <<wal, old, pc, pending, applying, todo, history>>

(* An archive without package objects leaves the current tree, and so does *)
(* any other error of os.Stat: both return nil.                            *)
NoTree ==
  /\ phase = "tree"
  /\ "storage" \notin staged[applying] \/ "error" \in Faults
  /\ unseen' = ("storage" \in staged[applying])
  /\ applied' = applying
  /\ Down([staged EXCEPT ![applying] = {}])
  /\ UNCHANGED <<files, todo, before, late>>

SwapTree ==
  /\ phase = "tree"
  /\ "storage" \in staged[applying]
  /\ phase' = "clear"
  /\ UNCHANGED <<files, request, applying, todo, history>>

(* os.RemoveAll of <root>.old, before the move and after the copy.         *)
RemoveOld(i) ==
  /\ phase \in {"clear", "clean"}
  /\ old[i] # NoFile
  /\ old' = [old EXCEPT ![i] = NoFile]
  /\ UNCHANGED <<disk, wal, request, phase, applying, todo, history>>

(* Mutant: the database is not looked for.                                 *)
Preserved_Forgets(i) ==
  \/ i = "backups"
  \/ i = "audit" /\ (i \in InRoot => i \in Spelled)

(* preservedByRestore compares paths: those of the entries are built by    *)
(* filepath.Join, the two of the files come from the environment.          *)
Preserved(i) ==
  \/ i = "backups"
  \/ i \in {"db", "audit"} /\ (i \in InRoot => i \in Spelled)

(* Mutant: only what the archive replaces is moved.                        *)
ReadRoot_Replaced ==
  /\ phase = "clear"
  /\ \A i \in Items : old[i] = NoFile
  /\ phase' = "move"
  /\ todo' = { i \in Archived[applying] : disk[i] # NoFile }
  /\ UNCHANGED <<files, request, applying, history>>

ReadRoot ==
  /\ phase = "clear"
  /\ \A i \in Items : old[i] = NoFile
  /\ phase' = "move"
  /\ todo' = { i \in Items : disk[i] # NoFile /\ ~Preserved(i) }
  /\ UNCHANGED <<files, request, applying, history>>

(* Mutant: the entry is removed at once.                                   *)
MoveAside_Removes(i) ==
  /\ phase = "move"
  /\ i \in todo
  /\ todo' = todo \ {i}
  /\ disk' = [disk EXCEPT ![i] = NoFile]
  /\ UNCHANGED <<wal, old, request, phase, applying, history>>

MoveAside(i) ==
  /\ phase = "move"
  /\ i \in todo
  /\ todo' = todo \ {i}
  /\ old' = [old EXCEPT ![i] = disk[i]]
  /\ disk' = [disk EXCEPT ![i] = NoFile]
  /\ UNCHANGED <<wal, request, phase, applying, history>>

EndMove ==
  /\ phase = "move"
  /\ todo = {}
  /\ phase' = "copy"
  /\ todo' = Archived[applying]
  /\ UNCHANGED <<files, request, applying, history>>

CopyPart(i) ==
  /\ phase = "copy"
  /\ i \in todo
  /\ disk' = [disk EXCEPT ![i] = Partial]
  /\ UNCHANGED <<wal, old, request, phase, applying, todo, history>>

CopyRest(i) ==
  /\ phase = "copy"
  /\ i \in todo
  /\ disk[i] = Partial
  /\ disk' = [disk EXCEPT ![i] = applying]
  /\ todo' = todo \ {i}
  /\ UNCHANGED <<wal, old, request, phase, applying, history>>

EndCopy ==
  /\ phase = "copy"
  /\ todo = {}
  /\ phase' = "clean"
  /\ before' = Nothing
  /\ UNCHANGED <<files, request, applying, todo, late, unseen, applied>>

(* The result of the last RemoveAll is ignored.                            *)
Finish ==
  /\ phase = "clean"
  /\ (\A i \in Items : old[i] = NoFile) \/ "error" \in Faults
  /\ applied' = applying
  /\ Down([staged EXCEPT ![applying] = {}])
  /\ UNCHANGED <<files, todo, before, late, unseen>>

(* Every error return; the deferred RemoveAll drops what was staged.       *)
ApplyFails ==
  /\ "error" \in Faults
  /\ phase \in Steps \ {"tree", "clean"}
  /\ Down([staged EXCEPT ![applying] = {}])
  /\ UNCHANGED <<files, todo, history>>

RequestStep(r) == Check(r) \/ Refuse(r) \/ Stage(r) \/ StageFails(r) \/ Accept(r)
TreeStep(i) == RemoveOld(i) \/ MoveAside(i) \/ CopyPart(i) \/ CopyRest(i)
ApplyStep == \/ NonePending \/ Take \/ RemoveWal \/ SwapDatabase \/ SwapAudit \/ NoTree
             \/ SwapTree \/ ReadRoot \/ EndMove \/ EndCopy \/ Finish \/ ApplyFails
             \/ \E i \in Items : TreeStep(i)

Next == \/ \E r \in Restores : RequestStep(r)
        \/ ApplyStep
        \/ \E p \in Packages : Publish(p)
        \/ Write \/ Terminate \/ Close \/ Crash \/ Start

Spec == Init /\ [][Next]_vars

----------------------------------------------------------------------------
TypeOK ==
  /\ disk \in [Items -> Restores \cup {Live, Partial, NoFile}]
  /\ wal \in Restores \cup {Live, Partial, NoFile}
  /\ old \in [Items -> Restores \cup {Live, Partial, NoFile}]
  /\ staged \in [Restores -> SUBSET Pieces]
  /\ pc \in [Restores -> Running \cup {"idle", "refused", "accepted", "dropped"}]
  /\ pending \in Restores \cup {NoRestore}
  /\ phase \in Steps \cup {"serving", "stopping", "closed", "down"}
  /\ applying \in Restores \cup {NoRestore}
  /\ phase \in Steps <=> applying # NoRestore
  /\ todo \subseteq Items
  /\ before \in [Packages -> Restores \cup {Live, Partial, NoFile}]
  /\ late \subseteq Packages
  /\ unseen \in BOOLEAN
  /\ applied \in Restores \cup {NoRestore}

(* backup.go:197 "a stale WAL would resurrect pre-restore writes over the  *)
(* new file": a log that is there was written for the database that is     *)
(* there, wherever the swap was interrupted.                               *)
LogBelongsToDatabase == wal # NoFile => wal = disk["db"]

(* zip.go:114 "The backups directory, the database and the audit log [...] *)
(* are not restore-owned and survive": whenever the process is not inside  *)
(* ApplyRestore, however that ended, they are where the server looks.      *)
KeptFilesSurvive ==
  phase \notin Steps =>
    /\ disk["backups"] = Live
    /\ disk["db"] \notin {NoFile, Partial}
    /\ disk["audit"] \notin {NoFile, Partial}

(* zip.go:116 "kept in <root>.old until the copy succeeds, so a failure    *)
(* leaves the data recoverable": each package entry ApplyRestore found is  *)
(* in the root or in <root>.old until the whole copy is there, also after  *)
(* a failure or a crash, up to the next ApplyRestore.                      *)
TreeIsRecoverable ==
  \A p \in Packages : before[p] \in {NoFile, disk[p], old[p]}

(* An ApplyRestore without an error leaves the database and the audit log  *)
(* of the archive, and either the archive's packages and no others, or, in *)
(* two cases, every package as it was: when the archive has none, and when *)
(* os.Stat failed on the staged tree (unseen).  That holds after earlier   *)
(* ones that failed half-way too.  It says nothing of a package that a     *)
(* late handler published meanwhile.                                       *)
Restored(p) == disk[p] = IF p \in Archived[applied] THEN applied ELSE NoFile

SuccessMeansRestored ==
  applied # NoRestore =>
    /\ disk["db"] = applied
    /\ applied \in HasAudit => disk["audit"] = applied
    /\ IF Archived[applied] = {} \/ unseen
       THEN \A p \in Packages \ late : disk[p] = before[p]
       ELSE \A p \in Packages \ late : Restored(p)
=============================================================================
