--------------------------- MODULE RestoreProofs ---------------------------
(***************************************************************************)
(* Theorems about Restore, for every set of restores, packages, archives   *)
(* and faults and, but for the last two, every layout of the files.        *)
(***************************************************************************)
EXTENDS Restore, TLAPS

(* What is staged is whole until ApplyRestore takes it piece by piece, and *)
(* a request is staged, waits or is applied once.                          *)
StagedInv ==
  /\ \A r \in Restores : pc[r] = "staged" => staged[r] = Contents(r)
  /\ pending # NoRestore => /\ pc[pending] = "accepted"
                            /\ staged[pending] = Contents(pending)
                            /\ pending # applying
  /\ applying # NoRestore => pc[applying] = "accepted"
  /\ phase \in {"wal", "db"} => staged[applying] = Contents(applying)
  /\ phase = "audit" => staged[applying] = Contents(applying) \ {"db"}
  /\ phase = "tree" => staged[applying] = Contents(applying) \ {"db", "audit"}

TreeSteps == {"clear", "move", "copy", "clean"}

(* How far the swap has come, by phase: only packages are moved and copied,*)
(* and where no late handler interferes they are where the swap put them.  *)
SwapInv ==
  /\ phase \in {"move", "copy"} => todo \subseteq Packages
  /\ phase \in {"audit", "tree"} \cup TreeSteps => disk["db"] = applying
  /\ phase \in {"tree"} \cup TreeSteps =>
       (applying \in HasAudit => disk["audit"] = applying)
  /\ phase \in TreeSteps => Archived[applying] # {}
  /\ phase = "move" => \A p \in Packages \ late : p \in todo \/ disk[p] = NoFile
  /\ phase = "copy" => \A p \in Packages \ late :
       IF p \in Archived[applying] THEN p \in todo \/ disk[p] = applying
                                   ELSE p \notin todo /\ disk[p] = NoFile
  /\ phase = "clean" => \A p \in Packages \ late :
       disk[p] = IF p \in Archived[applying] THEN applying ELSE NoFile

(* Where the entries that ApplyRestore found are, by phase.                *)
FoundInv ==
  /\ TreeIsRecoverable
  /\ phase \in {"wal", "db", "audit", "tree", "clear"} =>
       \A p \in Packages : IF p \in late THEN before[p] \in {NoFile, disk[p]}
                                        ELSE before[p] = disk[p]
  /\ phase = "move" => \A p \in Packages :
       before[p] \in {NoFile, IF p \in todo THEN disk[p] ELSE old[p]}
  /\ phase = "copy" =>
       \A p \in Packages : before[p] \in {NoFile, old[p]}
  /\ phase = "clean" => before = Nothing

LogInv ==
  /\ LogBelongsToDatabase
  /\ phase \in Steps \ {"wal"} => wal = NoFile

(* Neither is ever moved or half-written.                                  *)
KeptInv ==
  /\ disk["backups"] = Live
  /\ disk["db"] \notin {NoFile, Partial}
  /\ disk["audit"] \notin {NoFile, Partial}

(* What lies in the root is found there under the path it is known by.     *)
Layout == InRoot \subseteq Spelled

----------------------------------------------------------------------------
LEMMA InitTypeOK == Init => TypeOK
  BY NamesAssumption DEF Init, TypeOK, Items, Nothing, Kept, Steps, Running

LEMMA ContentsType == \A r \in Restores : Contents(r) \in SUBSET Pieces
  BY DEF Contents, Pieces

LEMMA NextTypeOK ==
  ASSUME TypeOK, [Next]_vars
  PROVE  TypeOK'
<1> USE NamesAssumption, ArchivedAssumption
<1> USE DEF TypeOK, files, request, history, Running, Steps, Goto
<1>1. ASSUME NEW r \in Restores, RequestStep(r) PROVE TypeOK'
  <2>1. CASE Check(r) \/ Refuse(r) \/ StageFails(r)
    BY <2>1 DEF Check, Refuse, StageFails
  <2>2. CASE Stage(r)
    BY <2>2, ContentsType DEF Stage
  <2>3. CASE Accept(r)
    BY <2>3 DEF Accept
  <2> QED BY <1>1, <2>1, <2>2, <2>3 DEF RequestStep
<1>2. ASSUME NEW keep \in [Restores -> SUBSET Pieces], Down(keep),
             UNCHANGED files, todo' = todo,
             before' \in [Packages -> Restores \cup {Live, Partial, NoFile}],
             late' = late, unseen' \in BOOLEAN,
             applied' \in Restores \cup {NoRestore}
      PROVE  TypeOK'
  BY <1>2 DEF Down
<1>3. Nothing \in [Packages -> Restores \cup {Live, Partial, NoFile}]
  BY DEF Nothing
<1>4. phase \in Steps =>
        [staged EXCEPT ![applying] = {}] \in [Restores -> SUBSET Pieces]
  OBVIOUS
<1>5. CASE NonePending \/ Crash
  BY <1>2, <1>5 DEF NonePending, Crash
<1>6. CASE NoTree \/ Finish \/ ApplyFails
  <2>1. CASE NoTree
    <3>1. unseen' \in BOOLEAN /\ applied' \in Restores \cup {NoRestore}
      BY <2>1 DEF NoTree
    <3> QED BY <1>2, <1>4, <2>1, <3>1 DEF NoTree
  <2> QED BY <1>2, <1>4, <1>6, <2>1 DEF Finish, ApplyFails
<1>7. CASE Take \/ RemoveWal
  BY <1>7 DEF Take, RemoveWal, Items
<1>8. CASE SwapDatabase \/ SwapAudit
  BY <1>8 DEF SwapDatabase, SwapAudit, Pieces
<1>9. CASE SwapTree \/ ReadRoot \/ EndMove \/ EndCopy
  BY <1>9, <1>3 DEF SwapTree, ReadRoot, EndMove, EndCopy, Items
<1>10. ASSUME NEW i \in Items, TreeStep(i) PROVE TypeOK'
  BY <1>10 DEF TreeStep, RemoveOld, MoveAside, CopyPart, CopyRest
<1>11. ASSUME NEW p \in Packages, Publish(p) PROVE TypeOK'
  BY <1>11 DEF Publish
<1>12. CASE Write \/ Terminate \/ Close
  BY <1>12 DEF Write, Terminate, Close, Items, Kept
<1>13. CASE Start
  BY <1>13 DEF Start
<1>14. CASE UNCHANGED vars
  BY <1>14 DEF vars
<1> QED BY <1>1, <1>5, <1>6, <1>7, <1>8, <1>9, <1>10, <1>11, <1>12, <1>13,
           <1>14 DEF Next, ApplyStep

THEOREM RestoreTyped == Spec => []TypeOK
<1>1. Init => TypeOK
  BY InitTypeOK
<1>2. TypeOK /\ [Next]_vars => TypeOK'
  BY NextTypeOK
<1> QED BY <1>1, <1>2, PTL DEF Spec

----------------------------------------------------------------------------
LEMMA NextStagedInv ==
  ASSUME TypeOK, StagedInv, [Next]_vars
  PROVE  StagedInv'
<1> USE NamesAssumption
<1> USE DEF TypeOK, StagedInv, Contents, files, request, history, Running, Steps,
            Goto, Down
<1>1. ASSUME NEW r \in Restores, RequestStep(r) PROVE StagedInv'
  <2>1. CASE Check(r) \/ Refuse(r) \/ StageFails(r)
    BY <2>1 DEF Check, Refuse, StageFails
  <2>2. CASE Stage(r)
    BY <2>2 DEF Stage
  <2>3. CASE Accept(r)
    BY <2>3 DEF Accept
  <2> QED BY <1>1, <2>1, <2>2, <2>3 DEF RequestStep
<1>2. CASE NonePending \/ Crash \/ NoTree \/ Finish \/ ApplyFails
  BY <1>2 DEF NonePending, Crash, NoTree, Finish, ApplyFails
<1>3. CASE Take \/ RemoveWal
  BY <1>3 DEF Take, RemoveWal
<1>4. CASE SwapDatabase \/ SwapAudit
  BY <1>4 DEF SwapDatabase, SwapAudit
<1>5. CASE SwapTree \/ ReadRoot \/ EndMove \/ EndCopy
  BY <1>5 DEF SwapTree, ReadRoot, EndMove, EndCopy
<1>6. ASSUME NEW i \in Items, TreeStep(i) PROVE StagedInv'
  BY <1>6 DEF TreeStep, RemoveOld, MoveAside, CopyPart, CopyRest
<1>7. CASE Write \/ Terminate \/ Close \/ Start \/ \E p \in Packages : Publish(p)
  BY <1>7 DEF Write, Terminate, Close, Start, Publish
<1>8. CASE UNCHANGED vars
  BY <1>8 DEF vars
<1> QED BY <1>1, <1>2, <1>3, <1>4, <1>5, <1>6, <1>7, <1>8 DEF Next, ApplyStep

LEMMA NextLogInv ==
  ASSUME TypeOK, LogInv, [Next]_vars
  PROVE  LogInv'
<1> USE NamesAssumption
<1> USE DEF TypeOK, LogInv, LogBelongsToDatabase, files, request, history, Steps,
            Items, Kept, Down
<1>1. CASE \E r \in Restores : RequestStep(r)
  BY <1>1 DEF RequestStep, Check, Refuse, Stage, StageFails, Accept, Goto
<1>2. CASE NonePending \/ Crash \/ NoTree \/ Finish \/ ApplyFails
  BY <1>2 DEF NonePending, Crash, NoTree, Finish, ApplyFails
<1>3. CASE Take \/ RemoveWal \/ SwapDatabase \/ SwapAudit
  BY <1>3 DEF Take, RemoveWal, SwapDatabase, SwapAudit
<1>4. CASE SwapTree \/ ReadRoot \/ EndMove \/ EndCopy
  BY <1>4 DEF SwapTree, ReadRoot, EndMove, EndCopy
<1>5. ASSUME NEW i \in Items, TreeStep(i) PROVE LogInv'
  BY <1>5 DEF TreeStep, RemoveOld, MoveAside, CopyPart, CopyRest
<1>6. ASSUME NEW p \in Packages, Publish(p) PROVE LogInv'
  BY <1>6 DEF Publish
<1>7. CASE Write \/ Terminate \/ Close
  BY <1>7 DEF Write, Terminate, Close
<1>8. CASE Start
  BY <1>8 DEF Start
<1>9. CASE UNCHANGED vars
  BY <1>9 DEF vars
<1> QED BY <1>1, <1>2, <1>3, <1>4, <1>5, <1>6, <1>7, <1>8, <1>9 DEF Next, ApplyStep

(* Whenever the swap of the database is interrupted, there is no log of    *)
(* another database beside the one that is there: the log goes first.      *)
THEOREM LogBelongs == Spec => []LogBelongsToDatabase
<1>1. Init => LogInv
  BY NamesAssumption DEF Init, LogInv, LogBelongsToDatabase, Steps
<1>2. TypeOK /\ LogInv /\ [Next]_vars => LogInv'
  BY NextLogInv
<1>3. LogInv => LogBelongsToDatabase
  BY DEF LogInv
<1> QED BY <1>1, <1>2, <1>3, RestoreTyped, PTL DEF Spec

----------------------------------------------------------------------------
LEMMA InitFoundInv == Init => FoundInv
  BY NamesAssumption DEF Init, FoundInv, TreeIsRecoverable, Nothing

LEMMA NextFoundInv ==
  ASSUME TypeOK, FoundInv, [Next]_vars
  PROVE  FoundInv'
<1> USE NamesAssumption
<1> USE DEF TypeOK, FoundInv, TreeIsRecoverable, files, request, history, Steps,
            Items, Kept, Down, Nothing
<1>1. CASE \E r \in Restores : RequestStep(r)
  BY <1>1 DEF RequestStep, Check, Refuse, Stage, StageFails, Accept, Goto
<1>2. CASE NonePending \/ Crash \/ NoTree \/ Finish \/ ApplyFails
  BY <1>2 DEF NonePending, Crash, NoTree, Finish, ApplyFails
<1>3. CASE Take \/ RemoveWal
  BY <1>3 DEF Take, RemoveWal
<1>4. CASE SwapDatabase \/ SwapAudit
  BY <1>4 DEF SwapDatabase, SwapAudit
<1>5. CASE SwapTree \/ ReadRoot
  BY <1>5 DEF SwapTree, ReadRoot, Preserved
<1>6. CASE EndMove \/ EndCopy
  BY <1>6 DEF EndMove, EndCopy
<1>7. ASSUME NEW i \in Items, TreeStep(i) PROVE FoundInv'
  <2>1. CASE RemoveOld(i)
    BY <2>1 DEF RemoveOld
  <2>2. CASE MoveAside(i)
    BY <2>2 DEF MoveAside
  <2>3. CASE CopyPart(i) \/ CopyRest(i)
    BY <2>3 DEF CopyPart, CopyRest
  <2> QED BY <1>7, <2>1, <2>2, <2>3 DEF TreeStep
<1>8. ASSUME NEW p \in Packages, Publish(p) PROVE FoundInv'
  BY <1>8 DEF Publish
<1>9. CASE Write \/ Terminate \/ Close \/ Start
  BY <1>9 DEF Write, Terminate, Close, Start
<1>10. CASE UNCHANGED vars
  BY <1>10 DEF vars
<1> QED BY <1>1, <1>2, <1>3, <1>4, <1>5, <1>6, <1>7, <1>8, <1>9, <1>10
        DEF Next, ApplyStep

(* Until the copy is complete, no crash and no error loses a package entry *)
(* that ApplyRestore found.                                                *)
THEOREM TreeRecoverable == Spec => []TreeIsRecoverable
<1>1. Init => FoundInv
  BY InitFoundInv
<1>2. TypeOK /\ FoundInv /\ [Next]_vars => FoundInv'
  BY NextFoundInv
<1>3. FoundInv => TreeIsRecoverable
  BY DEF FoundInv
<1> QED BY <1>1, <1>2, <1>3, RestoreTyped, PTL DEF Spec

----------------------------------------------------------------------------
LEMMA NextSwapInv ==
  ASSUME Layout, TypeOK, StagedInv, SwapInv, [Next]_vars
  PROVE  SwapInv'
<1> USE NamesAssumption, ArchivedAssumption
<1> USE DEF TypeOK, SwapInv, TreeSteps, files, request, history, Steps, Items,
            Kept, Down
<1>1. CASE \E r \in Restores : RequestStep(r)
  BY <1>1 DEF RequestStep, Check, Refuse, Stage, StageFails, Accept, Goto
<1>2. CASE NonePending \/ Crash \/ NoTree \/ Finish \/ ApplyFails
  BY <1>2 DEF NonePending, Crash, NoTree, Finish, ApplyFails
<1>3. CASE Take \/ RemoveWal
  BY <1>3 DEF Take, RemoveWal
<1>4. CASE SwapDatabase
  BY <1>4 DEF SwapDatabase
<1>5. CASE SwapAudit
  BY <1>5 DEF SwapAudit, StagedInv, Contents
<1>6. CASE SwapTree
  BY <1>6 DEF SwapTree, StagedInv, Contents
<1>7. CASE ReadRoot
  BY <1>7 DEF ReadRoot, Preserved, Layout
<1>8. CASE EndMove \/ EndCopy
  BY <1>8 DEF EndMove, EndCopy
<1>9. ASSUME NEW i \in Items, TreeStep(i) PROVE SwapInv'
  <2>1. CASE RemoveOld(i)
    BY <2>1 DEF RemoveOld
  <2>2. CASE MoveAside(i)
    BY <2>2 DEF MoveAside
  <2>3. CASE CopyPart(i)
    BY <2>3 DEF CopyPart
  <2>4. CASE CopyRest(i)
    BY <2>4 DEF CopyRest
  <2> QED BY <1>9, <2>1, <2>2, <2>3, <2>4 DEF TreeStep
<1>10. CASE Write \/ Terminate \/ Close \/ Start \/ \E p \in Packages : Publish(p)
  BY <1>10 DEF Write, Terminate, Close, Start, Publish
<1>11. CASE UNCHANGED vars
  BY <1>11 DEF vars
<1> QED BY <1>1, <1>2, <1>3, <1>4, <1>5, <1>6, <1>7, <1>8, <1>9, <1>10, <1>11
        DEF Next, ApplyStep

LEMMA NextKeptInv ==
  ASSUME TypeOK, SwapInv, KeptInv, [Next]_vars
  PROVE  KeptInv'
<1> USE NamesAssumption
<1> USE DEF TypeOK, SwapInv, KeptInv, files, request, history, Steps, Items, Kept,
            Down
<1>1. CASE \E r \in Restores : RequestStep(r)
  BY <1>1 DEF RequestStep, Check, Refuse, Stage, StageFails, Accept, Goto
<1>2. CASE NonePending \/ Crash \/ NoTree \/ Finish \/ ApplyFails
  BY <1>2 DEF NonePending, Crash, NoTree, Finish, ApplyFails
<1>3. CASE Take \/ RemoveWal \/ SwapDatabase \/ SwapAudit
  BY <1>3 DEF Take, RemoveWal, SwapDatabase, SwapAudit
<1>4. CASE SwapTree \/ ReadRoot \/ EndMove \/ EndCopy
  BY <1>4 DEF SwapTree, ReadRoot, EndMove, EndCopy
<1>5. ASSUME NEW i \in Items, TreeStep(i) PROVE KeptInv'
  BY <1>5 DEF TreeStep, RemoveOld, MoveAside, CopyPart, CopyRest
<1>6. ASSUME NEW p \in Packages, Publish(p) PROVE KeptInv'
  BY <1>6 DEF Publish
<1>7. CASE Write \/ Terminate \/ Close \/ Start
  BY <1>7 DEF Write, Terminate, Close, Start
<1>8. CASE UNCHANGED vars
  BY <1>8 DEF vars
<1> QED BY <1>1, <1>2, <1>3, <1>4, <1>5, <1>6, <1>7, <1>8 DEF Next, ApplyStep

LEMMA SwapInvariants ==
  ASSUME Layout
  PROVE  Spec => [](TypeOK /\ StagedInv /\ SwapInv /\ KeptInv)
<1>1. Init => StagedInv /\ SwapInv /\ KeptInv
  BY NamesAssumption DEF Init, StagedInv, SwapInv, KeptInv, TreeSteps, Items, Kept
<1>2. TypeOK /\ StagedInv /\ SwapInv /\ KeptInv /\ [Next]_vars
        => StagedInv' /\ SwapInv' /\ KeptInv'
  BY NextStagedInv, NextSwapInv, NextKeptInv
<1> QED BY <1>1, <1>2, RestoreTyped, PTL DEF Spec

(* With a database path that is spelled the way the comparison needs, the  *)
(* database, the audit log and the backups survive every restore.          *)
THEOREM KeptFilesStay ==
  ASSUME Layout
  PROVE  Spec => []KeptFilesSurvive
<1>1. KeptInv => KeptFilesSurvive
  BY DEF KeptInv, KeptFilesSurvive
<1> QED BY <1>1, SwapInvariants, PTL

----------------------------------------------------------------------------
(* Both histories of a success are those of a process that is down.        *)
OverInv == applied # NoRestore \/ unseen => phase = "down"

LEMMA NextSuccess ==
  ASSUME TypeOK, StagedInv, SwapInv, FoundInv, SuccessMeansRestored, OverInv,
         [Next]_vars
  PROVE  SuccessMeansRestored' /\ OverInv'
<1> USE NamesAssumption, ArchivedAssumption
<1> USE DEF TypeOK, SuccessMeansRestored, Restored, OverInv, files, request,
            history, Down
<1>1. CASE Finish
  BY <1>1 DEF Finish, SwapInv, TreeSteps
<1>2. CASE NoTree
  BY <1>2 DEF NoTree, StagedInv, SwapInv, TreeSteps, FoundInv, Contents
<1>3. CASE Start
  BY <1>3 DEF Start
<1>4. CASE UNCHANGED vars
  BY <1>4 DEF vars
<1>5. CASE ~(Finish \/ NoTree \/ Start \/ UNCHANGED vars)
  <2>1. phase # "down" /\ applied' = applied /\ unseen' = unseen
    BY <1>5 DEF Next, RequestStep, Check, Refuse, Stage, StageFails, Accept, Goto,
                ApplyStep, NonePending, Take, RemoveWal, SwapDatabase, SwapAudit,
                SwapTree, ReadRoot, EndMove, EndCopy, ApplyFails, TreeStep,
                RemoveOld, MoveAside, CopyPart, CopyRest, Write, Terminate, Close,
                Crash, Publish, Steps
  <2> QED BY <2>1
<1> QED BY <1>1, <1>2, <1>3, <1>4, <1>5

(* An ApplyRestore that returns no error has restored everything the       *)
(* archive holds, whatever earlier ones left behind; only where the        *)
(* archive has no package or os.Stat failed on its tree are the packages   *)
(* those of before, all of them.  Packages that a late handler published   *)
(* meanwhile are left out.                                                 *)
THEOREM SuccessRestores ==
  ASSUME Layout
  PROVE  Spec => []SuccessMeansRestored
<1>1. Init => FoundInv /\ SuccessMeansRestored /\ OverInv
  BY InitFoundInv DEF Init, SuccessMeansRestored, OverInv
<1>2. TypeOK /\ StagedInv /\ SwapInv /\ FoundInv /\ SuccessMeansRestored /\ OverInv
        /\ [Next]_vars => FoundInv' /\ SuccessMeansRestored' /\ OverInv'
  BY NextFoundInv, NextSuccess
<1> QED BY <1>1, <1>2, SwapInvariants, PTL DEF Spec
=============================================================================
