-------------------------- MODULE LocalDriverProofs --------------------------
(***************************************************************************)
(* Theorems about LocalDriver, for all sets of calls, keys, directories and*)
(* contents: objects are whole, only crashes leave temporary files, and    *)
(* what a listing may be relied on for.                                    *)
(***************************************************************************)
EXTENDS Website, LocalDriverRefinement, FiniteSetTheorems, FunctionTheorems, TLAPS

(* A Put that is under way has its temporary file, and all of it before the*)
(* rename.                                                                 *)
WriteInv ==
  \A c \in Calls :
    /\ pc[c] \in Writing => arg[c].op = "put" /\ c \in DOMAIN files
    /\ pc[c] = "rename" => files[c] = arg[c].data

Phases == Writing \cup {"ready", "walk", "done", "failed", "dropped"}

----------------------------------------------------------------------------
(* Types.                                                                  *)

FileMaps == UNION { [P -> Contents \cup {Partial}] : P \in SUBSET Paths }

LEMMA FilesTyped ==
  ASSUME NEW F
  PROVE  F \in FileMaps
         <=> /\ F = [p \in DOMAIN F |-> F[p]]
             /\ DOMAIN F \subseteq Paths
             /\ \A p \in DOMAIN F : F[p] \in Contents \cup {Partial}
PROOF
  <1>1. ASSUME F \in FileMaps
        PROVE  /\ F = [p \in DOMAIN F |-> F[p]]
               /\ DOMAIN F \subseteq Paths
               /\ \A p \in DOMAIN F : F[p] \in Contents \cup {Partial}
    <2>1. PICK P \in SUBSET Paths : F \in [P -> Contents \cup {Partial}]
      BY <1>1 DEF FileMaps
    <2> QED
      BY <2>1
  <1>2. ASSUME /\ F = [p \in DOMAIN F |-> F[p]]
               /\ DOMAIN F \subseteq Paths
               /\ \A p \in DOMAIN F : F[p] \in Contents \cup {Partial}
        PROVE  F \in FileMaps
    <2>1. F \in [DOMAIN F -> Contents \cup {Partial}]
      BY <1>2
    <2>2. DOMAIN F \in SUBSET Paths
      BY <1>2
    <2> QED
      BY <2>1, <2>2 DEF FileMaps
  <1> QED
    BY <1>1, <1>2

LEMMA PutArgs ==
  ASSUME TypeOK, NEW c \in Calls
  PROVE  /\ arg[c].op = "put" => arg[c].key \in Keys /\ arg[c].data \in Contents
         /\ arg[c].op \in {"delete", "get"} => arg[c].key \in Keys
         /\ arg[c].op = "list" => arg[c].prefix \in Dirs \cup {AllKeys}
         /\ arg[c].op \in {"put", "delete", "get", "list"}
PROOF
  BY DEF TypeOK, Operations

(* What is stored when a call stores or removes files.                     *)
LEMMA ChangesTyped ==
  ASSUME TypeOK
  PROVE  /\ \A c \in Calls, d \in Contents \cup {Partial} :
              /\ DOMAIN Plus(c, d) = DOMAIN files \cup {c}
              /\ \A p \in DOMAIN files \cup {c} :
                   Plus(c, d)[p] = IF p = c THEN d ELSE files[p]
              /\ Plus(c, d) \in FileMaps
         /\ \A F : /\ DOMAIN Without(F) = DOMAIN files \ F
                   /\ \A p \in DOMAIN files \ F : Without(F)[p] = files[p]
                   /\ Without(F) \in FileMaps
PROOF
  <1>1. /\ DOMAIN files \subseteq Paths
        /\ \A p \in DOMAIN files : files[p] \in Contents \cup {Partial}
    BY FilesTyped DEF TypeOK, FileMaps
  <1>2. ASSUME NEW c \in Calls, NEW d \in Contents \cup {Partial}
        PROVE  /\ DOMAIN Plus(c, d) = DOMAIN files \cup {c}
               /\ \A p \in DOMAIN files \cup {c} :
                    Plus(c, d)[p] = IF p = c THEN d ELSE files[p]
               /\ Plus(c, d) \in FileMaps
    <2>1. Plus(c, d) \in [DOMAIN files \cup {c} -> Contents \cup {Partial}]
      BY <1>1 DEF Plus
    <2>2. DOMAIN files \cup {c} \in SUBSET Paths
      BY <1>1 DEF Paths
    <2>3. Plus(c, d) \in FileMaps
      BY <2>1, <2>2 DEF FileMaps
    <2> QED
      BY <2>3 DEF Plus
  <1>3. ASSUME NEW F
        PROVE  /\ DOMAIN Without(F) = DOMAIN files \ F
               /\ \A p \in DOMAIN files \ F : Without(F)[p] = files[p]
               /\ Without(F) \in FileMaps
    <2>1. Without(F) \in [DOMAIN files \ F -> Contents \cup {Partial}]
      BY <1>1 DEF Without, Restrict
    <2>2. DOMAIN files \ F \in SUBSET Paths
      BY <1>1
    <2>3. Without(F) \in FileMaps
      BY <2>1, <2>2 DEF FileMaps
    <2> QED
      BY <2>3 DEF Without, Restrict
  <1> QED
    BY <1>2, <1>3

LEMMA RenamedTyped ==
  ASSUME TypeOK, NEW c \in Calls, arg[c].key \in Keys, c \in DOMAIN files
  PROVE  /\ DOMAIN Renamed(c) = (DOMAIN files \ {c}) \cup {arg[c].key}
         /\ \A p \in (DOMAIN files \ {c}) \cup {arg[c].key} :
              Renamed(c)[p] = IF p = arg[c].key THEN files[c] ELSE files[p]
         /\ Renamed(c) \in FileMaps
PROOF
  <1>1. /\ DOMAIN files \subseteq Paths
        /\ \A p \in DOMAIN files : files[p] \in Contents \cup {Partial}
    BY FilesTyped DEF TypeOK, FileMaps
  <1>2. Renamed(c) \in [(DOMAIN files \ {c}) \cup {arg[c].key} -> Contents \cup {Partial}]
    BY <1>1 DEF Renamed
  <1>3. (DOMAIN files \ {c}) \cup {arg[c].key} \in SUBSET Paths
    BY <1>1 DEF Paths
  <1>4. Renamed(c) \in FileMaps
    BY <1>2, <1>3 DEF FileMaps
  <1> QED
    BY <1>4 DEF Renamed

Histories == [always : SUBSET Keys, ever : SUBSET Keys, quiet : BOOLEAN, cut : BOOLEAN]

LEMMA ChangeTyped ==
  ASSUME TypeOK, NEW c \in Calls, NEW F, Change(c, F)
  PROVE  /\ files' = F
         /\ history' \in [Calls -> Histories]
PROOF
  <1>1. history \in [Calls -> Histories]
    BY DEF TypeOK, Histories
  <1>2. ASSUME NEW w \in Calls
        PROVE  [history[w] EXCEPT
                  !.always = @ \cap DOMAIN F,
                  !.ever = @ \cup (DOMAIN F \cap Keys),
                  !.quiet = @ /\ ~Under(arg[c].key, arg[w].prefix)] \in Histories
    <2>1. (history[w].quiet /\ ~Under(arg[c].key, arg[w].prefix)) \in BOOLEAN
      OBVIOUS
    <2>2. /\ history[w] \in Histories
          /\ history[w].always \cap DOMAIN F \in SUBSET Keys
          /\ history[w].ever \cup (DOMAIN F \cap Keys) \in SUBSET Keys
      BY <1>1 DEF Histories
    <2> QED
      BY <2>1, <2>2 DEF Histories
  <1> QED
    BY <1>1, <1>2 DEF Change

(* Every step is one of these; most of them leave most variables alone.    *)
LEMMA NextTyped ==
  ASSUME TypeOK, WriteInv, [Next]_vars
  PROVE  TypeOK'
PROOF
  <1> USE DEF Phases, Writing
  <1>1. CASE UNCHANGED vars
    BY <1>1 DEF vars, walk, TypeOK, Place
  <1>2. ASSUME NEW c \in Calls, CreateTemp(c)  PROVE TypeOK'
    <2>1. /\ pc' = [pc EXCEPT ![c] = "copy"]
          /\ arg[c].op = "put"
          /\ dirs' = dirs \cup {DirOf[arg[c].key]}
          /\ Change(c, Plus(c, Partial))
          /\ UNCHANGED <<arg, walk, result>>
      BY <1>2, PathsAssumption DEF CreateTemp, Begin, Place, Paths
    <2>2. DirOf[arg[c].key] \in Dirs
      BY <2>1, PutArgs, DirsAssumption
    <2>3. files' = Plus(c, Partial) /\ history' \in [Calls -> Histories]
      BY <2>1, ChangeTyped
    <2>4. files' \in FileMaps /\ DOMAIN files' = DOMAIN files \cup {c}
      BY <2>3, ChangesTyped
    <2>5. \A p \in DOMAIN files' : Place(p)' \in dirs'
      BY <2>1, <2>4, PathsAssumption DEF TypeOK, Place, Paths
    <2> QED
      BY <2>1, <2>2, <2>3, <2>4, <2>5 DEF TypeOK, FileMaps, walk, Histories
  <1>3. ASSUME NEW c \in Calls, CopyData(c)  PROVE TypeOK'
    <2>1. /\ pc[c] = "copy"
          /\ pc' = [pc EXCEPT ![c] = "rename"]
          /\ Change(c, Plus(c, arg[c].data))
          /\ UNCHANGED <<dirs, arg, walk, result>>
      BY <1>3 DEF CopyData, Goto
    <2>2. arg[c].data \in Contents /\ c \in DOMAIN files
      BY <2>1, PutArgs DEF WriteInv
    <2>3. files' = Plus(c, arg[c].data) /\ history' \in [Calls -> Histories]
      BY <2>1, ChangeTyped
    <2>4. files' \in FileMaps /\ DOMAIN files' = DOMAIN files
      <3>1. files' \in FileMaps /\ DOMAIN files' = DOMAIN files \cup {c}
        BY <2>2, <2>3, ChangesTyped
      <3> QED
        BY <2>2, <3>1
    <2>5. \A p \in DOMAIN files' : Place(p)' \in dirs'
      BY <2>1, <2>4 DEF TypeOK, Place
    <2> QED
      BY <2>1, <2>3, <2>4, <2>5 DEF TypeOK, FileMaps, walk, Histories
  <1>4. ASSUME NEW c \in Calls, Rename(c)  PROVE TypeOK'
    <2>1. /\ pc[c] = "rename"
          /\ pc' = [pc EXCEPT ![c] = "done"]
          /\ Change(c, Renamed(c))
          /\ UNCHANGED <<dirs, arg, walk, result>>
      BY <1>4 DEF Rename, Goto
    <2>2. arg[c].op = "put" /\ arg[c].key \in Keys /\ c \in DOMAIN files
      BY <2>1, PutArgs DEF WriteInv
    <2>3. DirOf[arg[c].key] \in dirs
      BY <2>2, PathsAssumption DEF TypeOK, Place, Paths
    <2>4. files' = Renamed(c) /\ history' \in [Calls -> Histories]
      BY <2>1, ChangeTyped
    <2>5. /\ files' \in FileMaps
          /\ DOMAIN files' = (DOMAIN files \ {c}) \cup {arg[c].key}
      BY <2>2, <2>4, RenamedTyped
    <2>6. \A p \in DOMAIN files' : Place(p)' \in dirs'
      BY <2>1, <2>2, <2>3, <2>5 DEF TypeOK, Place
    <2> QED
      BY <2>1, <2>4, <2>5, <2>6 DEF TypeOK, FileMaps, walk, Histories
  <1>5. ASSUME NEW c \in Calls, PutFails(c) \/ Delete(c)  PROVE TypeOK'
    <2>1. /\ \E to \in {"failed", "done"} : pc' = [pc EXCEPT ![c] = to]
          /\ \E F : Change(c, Without(F))
          /\ UNCHANGED <<dirs, arg, walk, result>>
      BY <1>5 DEF PutFails, Delete, Begin
    <2>2. PICK F : Change(c, Without(F))
      BY <2>1
    <2>3. files' = Without(F) /\ history' \in [Calls -> Histories]
      BY <2>2, ChangeTyped
    <2>4. files' \in FileMaps /\ DOMAIN files' \subseteq DOMAIN files
      BY <2>3, ChangesTyped
    <2>5. \A p \in DOMAIN files' : Place(p)' \in dirs'
      BY <2>1, <2>4 DEF TypeOK, Place
    <2> QED
      BY <2>1, <2>3, <2>4, <2>5 DEF TypeOK, FileMaps, walk, Histories
  <1>6. ASSUME NEW c \in Calls, Get(c)  PROVE TypeOK'
    <2>1. \A p \in DOMAIN files : files[p] \in Contents \cup {Partial}
      BY FilesTyped DEF TypeOK, FileMaps
    <2> QED
      BY <1>6, <2>1 DEF Get, Begin, TypeOK, walk, Place
  <1>7. ASSUME NEW c \in Calls, ReadRoot(c)  PROVE TypeOK'
    <2>1. [NoHistory EXCEPT
             !.always = Stored, !.ever = Stored,
             !.quiet = \A p \in Calls :
                         pc[p] \in Writing => ~Under(p, arg[c].prefix)] \in Histories
      BY DEF Histories, NoHistory, Stored
    <2> QED
      BY <1>7, <2>1 DEF ReadRoot, Begin, TypeOK, Place, Histories
  <1>8. ASSUME NEW c \in Calls, ReadDir(c)  PROVE TypeOK'
    <2>1. DOMAIN files \subseteq Paths
      BY FilesTyped DEF TypeOK, FileMaps
    <2> QED
      BY <1>8, <2>1 DEF ReadDir, TypeOK, Place
  <1>9. ASSUME NEW c \in Calls, VisitEntry(c)  PROVE TypeOK'
    <2>1. PICK p \in left[c] :
            /\ left' = [left EXCEPT ![c] = @ \ {p}]
            /\ \/ found' = [found EXCEPT ![c] = @ \cup {p}]
               \/ found' = found
            /\ \/ pc' = [pc EXCEPT ![c] = "done"]
               \/ pc' = pc
            /\ \E g \in BOOLEAN : history' = [history EXCEPT ![c].cut = g]
      BY <1>9 DEF VisitEntry
    <2>2. UNCHANGED <<files, dirs, arg, dirsLeft, result>>
      BY <1>9 DEF VisitEntry
    <2>3. history \in [Calls -> Histories]
      BY DEF TypeOK, Histories
    <2>4. \A h \in Histories, g \in BOOLEAN : [h EXCEPT !.cut = g] \in Histories
      BY DEF Histories
    <2>5. history' \in [Calls -> Histories]
      BY <2>1, <2>3, <2>4
    <2>6. found' \in [Calls -> SUBSET Paths] /\ left' \in [Calls -> SUBSET Paths]
      BY <2>1 DEF TypeOK
    <2> QED
      BY <2>1, <2>2, <2>5, <2>6 DEF TypeOK, Place, Histories
  <1>10. ASSUME NEW c \in Calls, EndWalk(c)  PROVE TypeOK'
    BY <1>10 DEF EndWalk, Goto, TypeOK, Place, walk
  <1>11. CASE Crash
    BY <1>11 DEF Crash, TypeOK, Place, walk
  <1>12. ASSUME NEW c \in Calls, Refused(c)  PROVE TypeOK'
    <2>1. arg[c].op = "put" => Place(c) \in Dirs
      <3>1. arg[c].op = "put" => arg[c].key \in Keys /\ c \notin Keys
        BY PutArgs, PathsAssumption
      <3> QED
        BY <3>1, PathsAssumption, DirsAssumption DEF Place
    <2> QED
      BY <1>12, <2>1 DEF Refused, Goto, TypeOK, Place, walk
  <1>13. ASSUME NEW c \in Calls, WalkFails(c)  PROVE TypeOK'
    <2>1. NoHistory \in Histories
      BY DEF NoHistory, Histories
    <2> QED
      BY <1>13, <2>1 DEF WalkFails, Goto, TypeOK, Place, Histories
  <1> QED
    BY <1>1, <1>2, <1>3, <1>4, <1>5, <1>6, <1>7, <1>8, <1>9, <1>10, <1>11, <1>12, <1>13
       DEF Next, PutStep, ListStep, FailStep

----------------------------------------------------------------------------
(* What is in the files.                                                   *)

(* Every step that changes files changes only those of its own call: its   *)
(* temporary file and the object it is about.                              *)
Stores(c) ==
  \/ /\ pc[c] = "ready"
     /\ arg[c].op = "put"
     /\ pc' = [pc EXCEPT ![c] = "copy"]
     /\ Change(c, Plus(c, Partial))
  \/ /\ pc[c] = "copy"
     /\ pc' = [pc EXCEPT ![c] = "rename"]
     /\ Change(c, Plus(c, arg[c].data))
  \/ /\ pc[c] = "rename"
     /\ pc' = [pc EXCEPT ![c] = "done"]
     /\ Change(c, Renamed(c))
  \/ /\ pc[c] \in Writing
     /\ pc' = [pc EXCEPT ![c] = "failed"]
     /\ Change(c, Without({c}))
  \/ /\ pc[c] = "ready"
     /\ arg[c].op = "delete"
     /\ pc' = [pc EXCEPT ![c] = "done"]
     /\ Change(c, Without({arg[c].key}))

(* No other step starts or finishes a Put; a crash drops it.               *)
LeavesFiles ==
  /\ files' = files
  /\ \A c \in Calls :
       /\ pc'[c] \in Writing => pc'[c] = pc[c]
       /\ pc[c] \in Writing => pc'[c] \in {pc[c], "dropped"}
       /\ pc[c] = "dropped" => pc'[c] = "dropped"

LEMMA FilesChange ==
  ASSUME TypeOK, [Next]_vars
  PROVE  /\ arg' = arg
         /\ \/ LeavesFiles
            \/ \E c \in Calls : Stores(c) /\ UNCHANGED <<walk, result>>
PROOF
  <1>1. CASE UNCHANGED vars
    BY <1>1 DEF vars, LeavesFiles
  <1>2. CASE \E c \in Calls : PutStep(c) \/ Delete(c)
    BY <1>2 DEF PutStep, CreateTemp, CopyData, Rename, PutFails, Delete, Begin, Goto, Stores
  <1>3. CASE \E c \in Calls : Get(c) \/ ListStep(c) \/ FailStep(c)
    BY <1>3 DEF Get, ListStep, ReadRoot, ReadDir, VisitEntry, EndWalk, FailStep, Refused,
                WalkFails, Begin, Goto, TypeOK, LeavesFiles, Writing
  <1>4. CASE Crash
    BY <1>4 DEF Crash, LeavesFiles, Writing
  <1> QED
    BY <1>1, <1>2, <1>3, <1>4 DEF Next

Whole == \A k \in Stored : files[k] # Partial

LEMMA NextWhole ==
  ASSUME TypeOK, WriteInv, Whole, LeftoversAreFromCrashes, [Next]_vars
  PROVE  WriteInv' /\ Whole' /\ LeftoversAreFromCrashes'
PROOF
  <1>1. CASE LeavesFiles
    BY <1>1, FilesChange
       DEF LeavesFiles, WriteInv, Whole, Stored, LeftoversAreFromCrashes, Writing
  <1>2. ASSUME NEW c \in Calls, Stores(c)
        PROVE  WriteInv' /\ Whole' /\ LeftoversAreFromCrashes'
    <2>1. Keys \cap Calls = {} /\ Partial \notin Contents /\ arg' = arg
      BY PathsAssumption, FilesChange
    <2>2. pc \in [Calls -> Phases] /\ pc' \in [Calls -> Phases]
      BY <1>2 DEF Stores, TypeOK, Phases, Writing
    <2>3. CASE /\ pc[c] = "ready"
               /\ arg[c].op = "put"
               /\ pc' = [pc EXCEPT ![c] = "copy"]
               /\ Change(c, Plus(c, Partial))
      <3>1. /\ DOMAIN files' = DOMAIN files \cup {c}
            /\ \A p \in DOMAIN files' : files'[p] = IF p = c THEN Partial ELSE files[p]
        <4>1. files' = Plus(c, Partial)
          BY <2>3 DEF Change
        <4> QED
          BY <4>1, ChangesTyped
      <3> QED
        BY <2>1, <2>2, <2>3, <3>1 DEF WriteInv, Whole, Stored, LeftoversAreFromCrashes, Writing
    <2>4. CASE /\ pc[c] = "copy"
               /\ pc' = [pc EXCEPT ![c] = "rename"]
               /\ Change(c, Plus(c, arg[c].data))
      <3>1. arg[c].data \in Contents
        BY <2>4, PutArgs DEF WriteInv, Writing
      <3>2. /\ DOMAIN files' = DOMAIN files \cup {c}
            /\ \A p \in DOMAIN files' : files'[p] = IF p = c THEN arg[c].data ELSE files[p]
        <4>1. files' = Plus(c, arg[c].data)
          BY <2>4 DEF Change
        <4>2. arg[c].data \in Contents \cup {Partial}
          BY <3>1
        <4>3. DOMAIN files' = DOMAIN files \cup {c}
          BY <4>1, <4>2, ChangesTyped
        <4>4. \A d \in Contents \cup {Partial} : \A p \in DOMAIN files \cup {c} :
                Plus(c, d)[p] = IF p = c THEN d ELSE files[p]
          BY ChangesTyped
        <4> QED
          BY <4>1, <4>2, <4>3, <4>4
      <3> QED
        BY <2>1, <2>2, <2>4, <3>1, <3>2
           DEF WriteInv, Whole, Stored, LeftoversAreFromCrashes, Writing
    <2>5. CASE /\ pc[c] = "rename"
               /\ pc' = [pc EXCEPT ![c] = "done"]
               /\ Change(c, Renamed(c))
      <3>1. arg[c].key \in Keys /\ c \in DOMAIN files /\ files[c] \in Contents
        BY <2>5, PutArgs DEF WriteInv, Writing
      <3>2. /\ DOMAIN files' = (DOMAIN files \ {c}) \cup {arg[c].key}
            /\ \A p \in DOMAIN files' :
                 files'[p] = IF p = arg[c].key THEN files[c] ELSE files[p]
        BY <2>5, <3>1, RenamedTyped DEF Change
      <3> QED
        BY <2>1, <2>2, <2>5, <3>1, <3>2
           DEF WriteInv, Whole, Stored, LeftoversAreFromCrashes, Writing
    <2>6. CASE /\ pc[c] \in Writing
               /\ pc' = [pc EXCEPT ![c] = "failed"]
               /\ Change(c, Without({c}))
      <3>1. /\ DOMAIN files' = DOMAIN files \ {c}
            /\ \A p \in DOMAIN files' : files'[p] = files[p]
        BY <2>6, ChangesTyped DEF Change
      <3> QED
        BY <2>1, <2>2, <2>6, <3>1 DEF WriteInv, Whole, Stored, LeftoversAreFromCrashes, Writing
    <2>7. CASE /\ pc[c] = "ready"
               /\ arg[c].op = "delete"
               /\ pc' = [pc EXCEPT ![c] = "done"]
               /\ Change(c, Without({arg[c].key}))
      <3>1. arg[c].key \in Keys
        BY <2>7, PutArgs
      <3>2. /\ DOMAIN files' = DOMAIN files \ {arg[c].key}
            /\ \A p \in DOMAIN files' : files'[p] = files[p]
        <4>1. files' = Without({arg[c].key})
          BY <2>7 DEF Change
        <4> QED
          BY <4>1, ChangesTyped
      <3> QED
        BY <2>1, <2>2, <2>7, <3>1, <3>2
           DEF WriteInv, Whole, Stored, LeftoversAreFromCrashes, Writing
    <2> QED
      BY <1>2, <2>3, <2>4, <2>5, <2>6, <2>7 DEF Stores
  <1> QED
    BY <1>1, <1>2, FilesChange

(* Only whole objects are ever read.                                       *)
LEMMA NextReads ==
  ASSUME TypeOK, Whole, \A c \in Calls : Partial \notin result[c], [Next]_vars
  PROVE  \A c \in Calls : Partial \notin result'[c]
PROOF
  <1>1. ASSUME NEW c \in Calls, Get(c)
        PROVE  \A d \in Calls : Partial \notin result'[d]
    BY <1>1, PutArgs DEF Get, Begin, Whole, Stored, TypeOK
  <1> QED
    BY <1>1 DEF Next, PutStep, ListStep, CreateTemp, CopyData, Rename, PutFails, Delete,
                ReadRoot, ReadDir, VisitEntry, EndWalk, FailStep, Refused, WalkFails, Crash,
                vars

LEMMA InitWhole ==
  Init => TypeOK /\ WriteInv /\ ObjectsAreWhole /\ LeftoversAreFromCrashes
PROOF
  <1> SUFFICES ASSUME Init
               PROVE  TypeOK /\ WriteInv /\ ObjectsAreWhole /\ LeftoversAreFromCrashes
    OBVIOUS
  <1>1. PICK K \in SUBSET Keys : files \in [K -> Contents]
    BY DEF Init
  <1>2. files \in [K -> Contents \cup {Partial}] /\ K \in SUBSET Paths
    BY <1>1 DEF Paths
  <1>3. files \in UNION { [P -> Contents \cup {Partial}] : P \in SUBSET Paths }
    BY <1>2
  <1>4. dirs \subseteq Dirs /\ \A p \in DOMAIN files : Place(p) \in dirs
    BY <1>1, DirsAssumption DEF Init, Place
  <1>5. NoHistory \in [always : SUBSET Keys, ever : SUBSET Keys, quiet : BOOLEAN, cut : BOOLEAN]
    BY DEF NoHistory
  <1>6. TypeOK
    BY <1>3, <1>4, <1>5 DEF Init, TypeOK, Writing
  <1>7. WriteInv /\ LeftoversAreFromCrashes
    BY <1>1, PathsAssumption DEF Init, WriteInv, LeftoversAreFromCrashes, Writing
  <1>8. ObjectsAreWhole
    BY <1>1, PathsAssumption DEF Init, ObjectsAreWhole, Stored
  <1> QED
    BY <1>6, <1>7, <1>8

LEMMA WholeHolds ==
  Spec => [](TypeOK /\ WriteInv /\ ObjectsAreWhole /\ LeftoversAreFromCrashes)
PROOF
  <1>1. TypeOK /\ WriteInv /\ ObjectsAreWhole /\ LeftoversAreFromCrashes /\ [Next]_vars
          => (TypeOK /\ WriteInv /\ ObjectsAreWhole /\ LeftoversAreFromCrashes)'
    BY NextTyped, NextWhole, NextReads DEF ObjectsAreWhole, Whole
  <1> QED
    BY <1>1, InitWhole, PTL DEF Spec

(* Every file lies in a directory that was created for it, and every walk, *)
(* result and history is well typed (local.go:24).                         *)
THEOREM DriverTyped == Spec => []TypeOK
  BY WholeHolds, PTL

(* Nobody reads half an object, whatever Puts run, fail and die (Put,      *)
(* local.go:24).                                                           *)
THEOREM ObjectsStayWhole == Spec => []ObjectsAreWhole
  BY WholeHolds, PTL

(* Only a crash leaves a temporary file behind: a Put that fails removes   *)
(* its own (the deferred Remove, local.go:38).                             *)
THEOREM LeftoversExplained == Spec => []LeftoversAreFromCrashes
  BY WholeHolds, PTL

----------------------------------------------------------------------------
(* What a listing is good for.                                             *)

Fresh(w) == pc[w] = "ready" => found[w] = {} /\ left[w] = {}

(* A walk in progress: a key that was there all the time has been found, or*)
(* is in the part of the tree still ahead.                                 *)
Walking(w) ==
  pc[w] = "walk" =>
    /\ arg[w].op = "list"
    /\ ~history[w].cut
    /\ history[w].always \subseteq Stored
    /\ Stored \subseteq history[w].ever
    /\ \A k \in Scope(w, history[w].always) :
         k \in found[w] \/ k \in left[w] \/ DirOf[k] \in dirsLeft[w]
    /\ found[w] \cap Keys \subseteq history[w].ever
    /\ \A p \in found[w] : Under(p, arg[w].prefix)

(* A walk nobody has disturbed: nothing under its prefix comes or goes.    *)
Undisturbed(w) ==
  pc[w] = "walk" /\ history[w].quiet =>
    /\ Scope(w, history[w].ever) \subseteq history[w].always
    /\ \A p \in left[w] : Under(p, arg[w].prefix) => p \in DOMAIN files
    /\ \A c \in Calls : pc[c] \in Writing => ~Under(c, arg[w].prefix)
    /\ \A p \in found[w] \ Keys : pc[p] = "dropped"

Returned(w) ==
  Listed(w) =>
    /\ \A p \in found[w] : Under(p, arg[w].prefix)
    /\ ~history[w].cut => /\ Scope(w, history[w].always) \subseteq found[w]
                          /\ found[w] \cap Keys \subseteq history[w].ever
    /\ history[w].quiet => /\ ~history[w].cut
                           /\ Scope(w, history[w].ever) \subseteq history[w].always
                           /\ \A p \in found[w] \ Keys : pc[p] = "dropped"

ListInv(w) == Fresh(w) /\ Walking(w) /\ Undisturbed(w) /\ Returned(w)

(* Steps that leave a listing and the files alone.                         *)
LEMMA Bystander ==
  ASSUME TypeOK, NEW w \in Calls, ListInv(w), LeavesFiles, arg' = arg,
         pc'[w] \in {pc[w], "dropped"},
         dirsLeft'[w] = dirsLeft[w], left'[w] = left[w], found'[w] = found[w],
         history'[w] = history[w]
  PROVE  ListInv(w)'
PROOF
  <1>1. \A p, x : Under(p, x)' = Under(p, x)
    BY DEF Under, Place
  <1>2. \A K : Scope(w, K)' = Scope(w, K)
    BY <1>1 DEF Scope
  <1>3. Stored' = Stored
    BY DEF LeavesFiles, Stored
  <1>4. found[w] \subseteq Paths
    BY DEF TypeOK
  <1>5. \A p \in Calls : pc[p] = "dropped" => pc'[p] = "dropped"
    BY DEF LeavesFiles
  <1>6. found[w] \ Keys \subseteq Calls
    BY <1>4 DEF Paths
  <1>7. Fresh(w)' /\ Walking(w)'
    BY <1>1, <1>2, <1>3 DEF ListInv, Fresh, Walking
  <1>8. Undisturbed(w)'
    BY <1>1, <1>2, <1>5, <1>6 DEF ListInv, Undisturbed, LeavesFiles
  <1>9. Returned(w)'
    BY <1>1, <1>2, <1>5, <1>6 DEF ListInv, Returned, Listed
  <1> QED
    BY <1>7, <1>8, <1>9 DEF ListInv

LEMMA StoreReaches ==
  ASSUME TypeOK, WriteInv, NEW c \in Calls, Stores(c)
  PROVE  /\ arg[c].key \in Keys
         /\ \A p : p # c /\ p # arg[c].key => (p \in DOMAIN files' <=> p \in DOMAIN files)
         /\ pc[c] # "walk" /\ pc[c] # "dropped"
         /\ \E to \in Writing \cup {"done", "failed"} : pc' = [pc EXCEPT ![c] = to]
         /\ arg[c].op # "list"
         /\ Change(c, files')
PROOF
  <1>1. arg[c].key \in Keys /\ arg[c].op # "list"
    BY PutArgs DEF Stores, WriteInv, Writing
  <1>2. /\ pc[c] # "walk" /\ pc[c] # "dropped"
        /\ \E to \in Writing \cup {"done", "failed"} : pc' = [pc EXCEPT ![c] = to]
        /\ Change(c, files')
    BY DEF Stores, Writing, Change
  <1>3. \/ \E d : files' = Plus(c, d)
        \/ files' = Renamed(c)
        \/ files' = Without({c})
        \/ files' = Without({arg[c].key})
    BY DEF Stores, Change
  <1>4. \A p : p # c /\ p # arg[c].key => (p \in DOMAIN files' <=> p \in DOMAIN files)
    BY <1>3 DEF Plus, Renamed, Without, Restrict
  <1> QED
    BY <1>1, <1>2, <1>4

LEMMA StoreKeepsLists ==
  ASSUME TypeOK, WriteInv, NEW c \in Calls, Stores(c), arg' = arg,
         UNCHANGED walk, NEW w \in Calls, ListInv(w)
  PROVE  ListInv(w)'
PROOF
  <1>1. /\ arg[c].key \in Keys
        /\ \A p : p # c /\ p # arg[c].key => (p \in DOMAIN files' <=> p \in DOMAIN files)
        /\ pc[c] # "walk" /\ pc[c] # "dropped"
        /\ \E to \in Writing \cup {"done", "failed"} : pc' = [pc EXCEPT ![c] = to]
        /\ arg[c].op # "list"
        /\ Change(c, files')
    BY StoreReaches
  <1>2. PICK to \in Writing \cup {"done", "failed"} : pc' = [pc EXCEPT ![c] = to]
    BY <1>1
  <1>3. /\ \A q \in Calls : q # c => pc'[q] = pc[q]
        /\ pc'[c] = to
        /\ to # "walk" /\ to # "ready"
    BY <1>2 DEF TypeOK, Writing
  <1>4. \A p, x : Under(p, x)' = Under(p, x)
    BY DEF Under, Place
  <1>5. \A K : Scope(w, K)' = Scope(w, K)
    BY <1>4 DEF Scope
  <1>6. UNCHANGED <<dirsLeft, left, found>>
    BY DEF walk
  <1>7. CASE w = c
    BY <1>1, <1>3, <1>7 DEF ListInv, Fresh, Walking, Undisturbed, Returned, Listed
  <1>8. CASE w # c /\ pc[w] # "walk"
    <2>1. history'[w] = history[w]
      BY <1>1, <1>8 DEF Change
    <2>2. \A p \in found[w] \ Keys : pc[p] = "dropped" => pc'[p] = "dropped"
      BY <1>1, <1>3 DEF TypeOK, Paths
    <2> QED
      BY <1>3, <1>4, <1>5, <1>6, <1>8, <2>1, <2>2
         DEF ListInv, Fresh, Walking, Undisturbed, Returned, Listed
  <1>9. CASE w # c /\ pc[w] = "walk"
    <2>1. history'[w] = [history[w] EXCEPT
            !.always = @ \cap DOMAIN files',
            !.ever = @ \cup (DOMAIN files' \cap Keys),
            !.quiet = @ /\ ~Under(arg[c].key, arg[w].prefix)]
      BY <1>1, <1>9 DEF Change
    <2>2. history[w] \in Histories
      BY DEF TypeOK, Histories
    <2>3. /\ history'[w].always = history[w].always \cap DOMAIN files'
          /\ history'[w].ever = history[w].ever \cup (DOMAIN files' \cap Keys)
          /\ history'[w].quiet = (history[w].quiet /\ ~Under(arg[c].key, arg[w].prefix))
          /\ history'[w].cut = history[w].cut
      BY <2>1, <2>2 DEF Histories
    <2>4. Fresh(w)' /\ Returned(w)'
      BY <1>3, <1>9 DEF Fresh, Returned, Listed
    <2>5. Walking(w)'
      BY <1>4, <1>5, <1>6, <1>9, <2>2, <2>3 DEF ListInv, Walking, Stored, Scope, Histories
    <2>6. ASSUME history'[w].quiet
          PROVE  /\ Scope(w, history'[w].ever) \subseteq history'[w].always
                 /\ \A p \in left[w] : Under(p, arg[w].prefix) => p \in DOMAIN files'
                 /\ \A q \in Calls : pc'[q] \in Writing => ~Under(q, arg[w].prefix)
                 /\ \A p \in found[w] \ Keys : pc'[p] = "dropped"
      <3>1. history[w].quiet /\ ~Under(arg[c].key, arg[w].prefix)
        BY <2>3, <2>6
      <3>2. ~Under(c, arg[w].prefix)
        BY <1>1, <3>1, PathsAssumption DEF Under, Place
      <3>3. \A p : Under(p, arg[w].prefix) => (p \in DOMAIN files' <=> p \in DOMAIN files)
        BY <1>1, <3>1, <3>2
      <3>4. /\ Scope(w, history[w].ever) \subseteq history[w].always
            /\ \A p \in left[w] : Under(p, arg[w].prefix) => p \in DOMAIN files
            /\ \A q \in Calls : pc[q] \in Writing => ~Under(q, arg[w].prefix)
            /\ \A p \in found[w] \ Keys : pc[p] = "dropped"
        BY <1>9, <3>1 DEF ListInv, Undisturbed
      <3>5. history[w].always \subseteq Stored /\ Stored \subseteq history[w].ever
        BY <1>9 DEF ListInv, Walking
      <3>6. Scope(w, history'[w].ever) \subseteq history'[w].always
        BY <2>3, <3>3, <3>4, <3>5 DEF Scope, Stored
      <3>7. \A q \in Calls : pc'[q] \in Writing => ~Under(q, arg[w].prefix)
        BY <1>3, <3>2, <3>4
      <3>8. \A p \in found[w] \ Keys : pc'[p] = "dropped"
        BY <1>1, <1>3, <3>4 DEF TypeOK, Paths
      <3> QED
        BY <3>3, <3>4, <3>6, <3>7, <3>8
    <2>7. Undisturbed(w)'
      BY <1>4, <1>5, <1>6, <2>6 DEF Undisturbed
    <2> QED
      BY <2>4, <2>5, <2>7 DEF ListInv
  <1> QED
    BY <1>7, <1>8, <1>9

(* The steps of the listing itself.                                        *)
LEMMA ReadRootKeeps ==
  ASSUME TypeOK, LeftoversAreFromCrashes, NEW w \in Calls, ListInv(w), ReadRoot(w)
  PROVE  ListInv(w)'
PROOF
  <1>1. /\ pc[w] = "ready" /\ pc'[w] = "walk"
        /\ arg[w].op = "list"
        /\ dirsLeft'[w] = dirs
        /\ found[w] = {} /\ left[w] = {}
        /\ \A q \in Calls : q # w => pc'[q] = pc[q]
        /\ UNCHANGED <<files, dirs, arg, left, found>>
    BY DEF ReadRoot, Begin, TypeOK, ListInv, Fresh
  <1>2. history'[w] = [always |-> Stored, ever |-> Stored,
                       quiet |-> \A p \in Calls :
                                   pc[p] \in Writing => ~Under(p, arg[w].prefix),
                       cut |-> FALSE]
    BY DEF ReadRoot, NoHistory, TypeOK
  <1>3. \A p, x : Under(p, x)' = Under(p, x)
    BY <1>1 DEF Under, Place
  <1>4. \A K : Scope(w, K)' = Scope(w, K)
    BY <1>1, <1>3 DEF Scope
  <1>5. \A k \in Stored : DirOf[k] \in dirs
    BY DEF TypeOK, Stored, Place
  <1>6. Walking(w)'
    BY <1>1, <1>2, <1>4, <1>5 DEF Walking, Stored, Scope
  <1>7. Undisturbed(w)'
    BY <1>1, <1>2, <1>3, <1>4 DEF Undisturbed, Writing, Scope
  <1> QED
    BY <1>1, <1>6, <1>7 DEF ListInv, Fresh, Returned, Listed

LEMMA ReadDirKeeps ==
  ASSUME TypeOK, LeftoversAreFromCrashes, NEW w \in Calls, ListInv(w), ReadDir(w)
  PROVE  ListInv(w)'
PROOF
  <1>1. PICK d \in dirsLeft[w] :
          /\ dirsLeft' = [dirsLeft EXCEPT ![w] = @ \ {d}]
          /\ left' = [left EXCEPT ![w] = { p \in DOMAIN files : Place(p) = d }]
    BY DEF ReadDir
  <1>2. /\ pc[w] = "walk"
        /\ left[w] = {}
        /\ dirsLeft'[w] = dirsLeft[w] \ {d}
        /\ left'[w] = { p \in DOMAIN files : Place(p) = d }
        /\ UNCHANGED <<files, dirs, arg, pc, found, history>>
    BY <1>1 DEF ReadDir, TypeOK
  <1>3. \A p, x : Under(p, x)' = Under(p, x)
    BY <1>2 DEF Under, Place
  <1>4. \A K : Scope(w, K)' = Scope(w, K)
    BY <1>2, <1>3 DEF Scope
  <1>5. \A k \in Keys : Place(k) = DirOf[k]
    BY DEF Place
  <1>6. Walking(w)'
    BY <1>2, <1>3, <1>4, <1>5 DEF ListInv, Walking, Stored, Scope
  <1>7. Undisturbed(w)'
    BY <1>2, <1>3, <1>4 DEF ListInv, Undisturbed
  <1> QED
    BY <1>2, <1>6, <1>7 DEF ListInv, Fresh, Returned, Listed

LEMMA VisitEntryKeeps ==
  ASSUME TypeOK, LeftoversAreFromCrashes, NEW w \in Calls, ListInv(w), VisitEntry(w)
  PROVE  ListInv(w)'
PROOF
  <1>1. PICK p \in left[w] :
          LET listed == Under(p, arg[w].prefix)
              gone   == listed /\ p \notin DOMAIN files
          IN  /\ left' = [left EXCEPT ![w] = @ \ {p}]
              /\ found' = IF listed /\ ~gone
                          THEN [found EXCEPT ![w] = @ \cup {p}] ELSE found
              /\ pc' = IF gone THEN [pc EXCEPT ![w] = "done"] ELSE pc
              /\ history' = [history EXCEPT ![w].cut = gone]
    BY DEF VisitEntry
  <1> DEFINE listed == Under(p, arg[w].prefix)
             gone   == listed /\ p \notin DOMAIN files
  <1>2. pc[w] = "walk" /\ UNCHANGED <<files, dirs, arg, dirsLeft>>
    BY DEF VisitEntry
  <1>3. \A q, x : Under(q, x)' = Under(q, x)
    BY <1>2 DEF Under, Place
  <1>4. \A K : Scope(w, K)' = Scope(w, K)
    BY <1>2, <1>3 DEF Scope
  <1>5. /\ left'[w] = left[w] \ {p}
        /\ found'[w] = IF listed /\ ~gone THEN found[w] \cup {p} ELSE found[w]
        /\ pc'[w] = IF gone THEN "done" ELSE "walk"
        /\ \A q \in Calls : q # w => pc'[q] = pc[q]
    BY <1>1, <1>2 DEF TypeOK
  <1>6. /\ history'[w].always = history[w].always
        /\ history'[w].ever = history[w].ever
        /\ history'[w].quiet = history[w].quiet
        /\ history'[w].cut = gone
    BY <1>1 DEF TypeOK
  <1>7. p \in Paths
    BY DEF TypeOK
  <1>8. Walking(w) /\ Undisturbed(w)
    BY DEF ListInv
  <1>9. CASE gone
    <2>1. ~history[w].quiet
      BY <1>2, <1>8, <1>9 DEF Undisturbed
    <2>2. Returned(w)'
      BY <1>2, <1>3, <1>5, <1>6, <1>8, <1>9, <2>1 DEF Walking, Returned, Listed
    <2> QED
      BY <1>5, <1>9, <2>2 DEF ListInv, Fresh, Walking, Undisturbed
  <1>10. CASE ~gone
    <2>1. Walking(w)'
      <3>1. /\ history[w].always \subseteq Stored /\ Stored \subseteq history[w].ever
            /\ \A k \in Scope(w, history[w].always) :
                 k \in found[w] \/ k \in left[w] \/ DirOf[k] \in dirsLeft[w]
            /\ found[w] \cap Keys \subseteq history[w].ever
            /\ \A q \in found[w] : Under(q, arg[w].prefix)
        BY <1>2, <1>8 DEF Walking
      <3>2. listed => p \in DOMAIN files
        BY <1>10
      <3>3. \A k \in Scope(w, history[w].always) :
              k \in found'[w] \/ k \in left'[w] \/ DirOf[k] \in dirsLeft'[w]
        BY <1>2, <1>5, <1>10, <3>1 DEF Scope
      <3>4. found'[w] \cap Keys \subseteq history[w].ever
        BY <1>5, <3>1, <3>2 DEF Stored
      <3>5. \A q \in found'[w] : Under(q, arg[w].prefix)
        BY <1>5, <3>1
      <3> QED
        BY <1>2, <1>3, <1>4, <1>6, <1>8, <1>10, <3>1, <3>3, <3>4, <3>5 DEF Walking, Stored
    <2>2. Undisturbed(w)'
      <3>1. ASSUME history[w].quiet  PROVE \A q \in found'[w] \ Keys : pc[q] = "dropped"
        <4>1. ASSUME listed, p \notin Keys  PROVE pc[p] = "dropped"
          <5>1. p \in DOMAIN files \cap Calls
            BY <1>7, <1>10, <4>1 DEF Paths
          <5>2. pc[p] \notin Writing
            BY <1>2, <1>8, <3>1, <4>1, <5>1 DEF Undisturbed
          <5> QED
            BY <5>1, <5>2 DEF LeftoversAreFromCrashes
        <4> QED
          BY <1>2, <1>5, <1>8, <3>1, <4>1 DEF Undisturbed
      <3>2. pc' = pc
        BY <1>1, <1>10
      <3> QED
        BY <1>2, <1>3, <1>4, <1>5, <1>6, <1>8, <3>1, <3>2 DEF Undisturbed
    <2> QED
      BY <1>5, <1>10, <2>1, <2>2 DEF ListInv, Fresh, Returned, Listed
  <1> QED
    BY <1>9, <1>10

LEMMA EndWalkKeeps ==
  ASSUME TypeOK, NEW w \in Calls, ListInv(w), EndWalk(w)
  PROVE  ListInv(w)'
PROOF
  <1>1. /\ pc[w] = "walk" /\ pc'[w] = "done"
        /\ left[w] = {} /\ dirsLeft[w] = {}
        /\ \A q \in Calls : q # w => pc'[q] = pc[q]
        /\ UNCHANGED <<files, dirs, arg, found, history>>
    BY DEF EndWalk, Goto, TypeOK, walk
  <1>2. \A p, x : Under(p, x)' = Under(p, x)
    BY <1>1 DEF Under, Place
  <1>3. \A K : Scope(w, K)' = Scope(w, K)
    BY <1>1, <1>2 DEF Scope
  <1>4. Walking(w) /\ Undisturbed(w)
    BY DEF ListInv
  <1>5. \A p \in found[w] \ Keys : pc[p] = "dropped" => pc'[p] = "dropped"
    BY <1>1 DEF TypeOK, Paths
  <1>6. Returned(w)'
    BY <1>1, <1>2, <1>3, <1>4, <1>5 DEF Walking, Undisturbed, Returned, Listed
  <1> QED
    BY <1>1, <1>6 DEF ListInv, Fresh, Walking, Undisturbed

LEMMA FailKeeps ==
  ASSUME TypeOK, NEW w \in Calls, ListInv(w), arg' = arg, FailStep(w)
  PROVE  ListInv(w)'
PROOF
  <1>1. /\ pc[w] \in {"ready", "walk"}
        /\ pc'[w] = "failed"
    BY DEF FailStep, Refused, WalkFails, Goto, TypeOK
  <1> QED
    BY <1>1 DEF ListInv, Fresh, Walking, Undisturbed, Returned, Listed

LEMMA NextLists ==
  ASSUME TypeOK, WriteInv, LeftoversAreFromCrashes, \A w \in Calls : ListInv(w),
         [Next]_vars
  PROVE  \A w \in Calls : ListInv(w)'
PROOF
  <1> SUFFICES ASSUME NEW w \in Calls  PROVE ListInv(w)'
    OBVIOUS
  <1>1. arg' = arg
    BY FilesChange
  <1>2. CASE \E c \in Calls : Stores(c) /\ UNCHANGED <<walk, result>>
    BY <1>1, <1>2, StoreKeepsLists
  <1>3. CASE LeavesFiles
    <2>1. CASE ReadRoot(w) \/ ReadDir(w) \/ VisitEntry(w) \/ EndWalk(w)
      BY <2>1, ReadRootKeeps, ReadDirKeeps, VisitEntryKeeps, EndWalkKeeps
    <2>2. CASE Get(w)
      BY <1>1, <2>2 DEF Get, Begin, TypeOK, ListInv, Fresh, Walking, Undisturbed, Returned, Listed
    <2>3. ASSUME NEW c \in Calls, c # w, Get(c) \/ ListStep(c) \/ FailStep(c)
          PROVE  ListInv(w)'
      <3>1. /\ pc'[w] = pc[w]
            /\ dirsLeft'[w] = dirsLeft[w] /\ left'[w] = left[w] /\ found'[w] = found[w]
            /\ history'[w] = history[w]
        BY <2>3 DEF Get, ListStep, ReadRoot, ReadDir, VisitEntry, EndWalk, FailStep, Refused,
                    WalkFails, Begin, Goto, walk, TypeOK
      <3> QED
        BY <1>1, <1>3, <3>1, Bystander
    <2>4. CASE Crash \/ UNCHANGED vars
      <3>1. /\ pc'[w] \in {pc[w], "dropped"}
            /\ dirsLeft'[w] = dirsLeft[w] /\ left'[w] = left[w] /\ found'[w] = found[w]
            /\ history'[w] = history[w]
        BY <2>4 DEF Crash, vars, walk
      <3> QED
        BY <1>1, <1>3, <3>1, Bystander
    <2>5. ASSUME NEW c \in Calls, PutStep(c) \/ Delete(c)
          PROVE  ListInv(w)'
      <3>1. Stores(c) /\ UNCHANGED walk
        BY <2>5 DEF PutStep, CreateTemp, CopyData, Rename, PutFails, Delete, Begin, Goto,
                    Stores
      <3> QED
        BY <1>1, <3>1, StoreKeepsLists
    <2>6. CASE FailStep(w)
      BY <1>1, <2>6, FailKeeps
    <2> QED
      BY <2>1, <2>2, <2>3, <2>4, <2>5, <2>6 DEF Next, ListStep
  <1> QED
    BY <1>2, <1>3, FilesChange

ListsInv == \A w \in Calls : ListInv(w)

LEMMA ListsHold == Spec => []ListsInv
PROOF
  <1>1. Init => ListsInv
    BY DEF Init, ListsInv, ListInv, Fresh, Walking, Undisturbed, Returned, Listed
  <1>2. TypeOK /\ WriteInv /\ ObjectsAreWhole /\ LeftoversAreFromCrashes /\ ListsInv
          /\ [Next]_vars
          => (TypeOK /\ WriteInv /\ ObjectsAreWhole /\ LeftoversAreFromCrashes /\ ListsInv)'
    BY NextTyped, NextWhole, NextReads, NextLists DEF ObjectsAreWhole, Whole, ListsInv
  <1> QED
    BY <1>1, <1>2, InitWhole, PTL DEF Spec

(* A listing that met no vanished entry misses nothing that was there all  *)
(* the time and invents nothing (List, local.go:86).                      *)
THEOREM ListingComplete == Spec => []UncutListingIsComplete
PROOF
  <1>1. ListsInv => UncutListingIsComplete
    BY DEF ListsInv, ListInv, Returned, UncutListingIsComplete
  <1> QED
    BY <1>1, ListsHold, PTL

(* DeletePackage and ListPackages may rely on the listing of a prefix that *)
(* nobody else changes: it is exact, and never cut short.                  *)
THEOREM ListingExact == Spec => []QuietListingIsExact
PROOF
  <1>1. ListsInv /\ TypeOK => QuietListingIsExact
    <2> SUFFICES ASSUME ListsInv, TypeOK, NEW c \in Calls, Listed(c), history[c].quiet
                 PROVE  /\ found[c] \cap Keys = Scope(c, history[c].always)
                        /\ found[c] \cap Keys = Scope(c, history[c].ever)
                        /\ \A p \in found[c] \ Keys : pc[p] = "dropped"
      BY DEF QuietListingIsExact
    <2>1. /\ \A p \in found[c] : Under(p, arg[c].prefix)
          /\ Scope(c, history[c].always) \subseteq found[c]
          /\ found[c] \cap Keys \subseteq history[c].ever
          /\ Scope(c, history[c].ever) \subseteq history[c].always
          /\ \A p \in found[c] \ Keys : pc[p] = "dropped"
      BY DEF ListsInv, ListInv, Returned
    <2>2. history[c].always \subseteq Keys /\ history[c].ever \subseteq Keys
      BY DEF TypeOK
    <2> QED
      BY <2>1, <2>2 DEF Scope
  <1> QED
    BY <1>1, ListsHold, DriverTyped, PTL

----------------------------------------------------------------------------
(* The pages of the website use the store as it is.                        *)
THEOREM PagesOnlyRead == PagedSpec => Spec
PROOF
  <1>1. PagedInit => Init
    BY DEF PagedInit
  <1>2. [PagedNext]_pageVars => [Next]_vars
    BY DEF PagedNext, Drive, ReadManifest, Answer, pageVars
  <1> QED
    BY <1>1, <1>2, PTL DEF PagedSpec, Spec

(* The best hits: of a finite set of entries with one per manifest, those  *)
(* with fewer than Limit better ones are Limit many, once one is left out. *)
OnePerKey(E) == \A d, e \in E : d[1] = e[1] => d = e

LEMMA BeforeIsOrder ==
  ASSUME NEW q \in Queries \cup {Every}, NEW E \in SUBSET (Manifests \X Contents),
         OnePerKey(E)
  PROVE  /\ \A x \in E : ~Before(q, x, x)
         /\ \A x, y \in E : x = y \/ Before(q, x, y) \/ Before(q, y, x)
         /\ \A x, y, z \in E : Before(q, x, y) /\ Before(q, y, z) => Before(q, x, z)
PROOF
  <1>1. \A x \in E : ScoreOf(q, x) \in Nat /\ Rank[x[1]] \in Nat
    <2> TAKE x \in E
    <2>1. x = <<x[1], x[2]>> /\ x[1] \in Manifests /\ x[2] \in Contents
      OBVIOUS
    <2>2. <<q, x[1], x[2]>> \in (Queries \cup {Every}) \X Manifests \X Contents
      BY <2>1
    <2> QED
      BY <2>1, <2>2, ScoreAssumption, ManifestsAssumption, RankAssumption DEF ScoreOf
  <1>2. \A x, y \in E : Rank[x[1]] = Rank[y[1]] => x = y
    <2> TAKE x \in E, y \in E
    <2>1. x[1] \in Keys /\ y[1] \in Keys
      BY ManifestsAssumption
    <2> QED
      BY <2>1, RankAssumption DEF OnePerKey
  <1> QED
    BY <1>1, <1>2 DEF Before

LEMMA BestAreFirst ==
  ASSUME NEW q \in Queries \cup {Every}, NEW E \in SUBSET (Manifests \X Contents),
         IsFiniteSet(E), OnePerKey(E), q # Every,
         NEW e \in Hits(q, E) \ Best(q, E)
  PROVE  /\ Cardinality(Best(q, E)) = Limit
         /\ \A d \in Best(q, E) : Before(q, d, e)
PROOF
  <1> DEFINE H == Hits(q, E)
             B == Best(q, E)
             Ahead(x) == { d \in H : Before(q, d, x) }
             Place_(x) == Cardinality(Ahead(x))
             n == Cardinality(H)
             place == [x \in H |-> Place_(x)]
  <1>1. H \subseteq E /\ B \subseteq H /\ e \in H /\ IsFiniteSet(H) /\ n \in Nat
    <2>1. H \subseteq E /\ B \subseteq H /\ e \in H
      BY DEF Hits, Best
    <2> QED
      BY <2>1, FS_Subset, FS_CardinalityType
  <1>2. /\ \A x \in H : ~Before(q, x, x)
        /\ \A x, y \in H : x = y \/ Before(q, x, y) \/ Before(q, y, x)
        /\ \A x, y, z \in H : Before(q, x, y) /\ Before(q, y, z) => Before(q, x, z)
    BY <1>1, BeforeIsOrder
  <1>3. B = { x \in H : Place_(x) < Limit }
    BY DEF Best
  <1> HIDE DEF H, B
  <1>4. ASSUME NEW x \in H
        PROVE  IsFiniteSet(Ahead(x)) /\ Place_(x) \in 0..(n - 1)
    <2>1. Ahead(x) \in SUBSET H /\ Ahead(x) # H
      BY <1>2
    <2>2. IsFiniteSet(Ahead(x)) /\ Place_(x) <= n /\ Place_(x) # n
      BY <1>1, <2>1, FS_Subset
    <2>3. Place_(x) \in Nat
      BY <2>2, FS_CardinalityType
    <2> QED
      BY <1>1, <2>2, <2>3
  <1>5. ASSUME NEW x \in H, NEW y \in H, Before(q, x, y)
        PROVE  Place_(x) < Place_(y)
    <2>1. Ahead(x) \in SUBSET Ahead(y) /\ Ahead(x) # Ahead(y)
      BY <1>2, <1>5
    <2>2. Place_(x) <= Place_(y) /\ Place_(x) # Place_(y)
      BY <1>4, <2>1, FS_Subset
    <2>3. Place_(x) \in 0..(n - 1) /\ Place_(y) \in 0..(n - 1)
      BY <1>4
    <2> QED
      BY <2>2, <2>3
  <1>6. place \in [H -> 0..(n - 1)] /\ \A x \in H : place[x] = Place_(x)
    BY <1>4
  <1> HIDE DEF place
  <1>7. \A x, y \in H : place[x] = place[y] => x = y
    <2> SUFFICES ASSUME NEW x \in H, NEW y \in H, x # y PROVE place[x] # place[y]
      OBVIOUS
    <2>1. Place_(x) < Place_(y) \/ Place_(y) < Place_(x)
      BY <1>2, <1>5
    <2>2. place[x] \in Nat /\ place[y] \in Nat
      BY <1>6
    <2> QED
      BY <1>6, <2>1, <2>2
  <1>8. place \in Surjection(H, 0..(n - 1))
    <2>1. place \in Injection(H, 0..(n - 1))
      BY <1>6, <1>7, Fun_IsInj
    <2>2. 0 \in Int /\ n - 1 \in Int
      BY <1>1
    <2>3. IsFiniteSet(0..(n - 1)) /\ Cardinality(0..(n - 1)) = n
      BY <1>1, <2>2, FS_Interval
    <2>4. Cardinality(H) = Cardinality(0..(n - 1))
      BY <2>3
    <2> HIDE DEF n
    <2> QED
      BY <1>1, <2>1, <2>3, <2>4, FS_Injection
  <1>9. Place_(e) >= Limit /\ Limit \in Nat \ {0} /\ Limit <= n
    <2>1. e \in H /\ e \notin B
      BY <1>1 DEF B
    <2>2. Place_(e) \in 0..(n - 1)
      BY <1>4, <2>1
    <2> QED
      BY <1>1, <1>3, <2>1, <2>2, ScoreAssumption
  <1> DEFINE first == [x \in B |-> place[x]]
  <1>10. first \in Bijection(B, 0..(Limit - 1))
    <2>1. \A x \in B : first[x] = place[x] /\ x \in H /\ place[x] \in 0..(Limit - 1)
      BY <1>3, <1>6, <1>9
    <2>2. first \in [B -> 0..(Limit - 1)]
      BY <2>1
    <2>3. \A x, y \in B : first[x] = first[y] => x = y
      BY <1>7, <2>1
    <2>4. ASSUME NEW i \in 0..(Limit - 1) PROVE \E x \in B : first[x] = i
      <3>1. i \in 0..(n - 1)
        BY <1>1, <1>9
      <3>2. PICK x \in H : place[x] = i
        BY <1>8, <3>1 DEF Surjection
      <3>3. x \in B
        BY <1>3, <1>6, <1>9, <3>2
      <3> QED
        BY <2>1, <3>2, <3>3
    <2> HIDE DEF first
    <2> QED
      BY <2>2, <2>3, <2>4, Fun_IsBij
  <1>11. Cardinality(B) = Limit
    <2>1. IsFiniteSet(B)
      BY <1>1, FS_Subset
    <2>2. ExistsBijection(B, 0..(Limit - 1))
      BY <1>10 DEF ExistsBijection
    <2>3. Cardinality(0..(Limit - 1)) = Limit
      BY <1>9, FS_Interval
    <2> QED
      BY <2>1, <2>2, <2>3, FS_Bijection
  <1>12. ASSUME NEW d \in B PROVE Before(q, d, e)
    <2>1. d \in H /\ e \in H /\ Place_(d) < Limit /\ d # e
      <3>1. e \notin B
        BY DEF B
      <3> QED
        BY <1>1, <1>3, <3>1
    <2>2. ~(Place_(e) < Place_(d))
      <3>1. Place_(d) \in 0..(n - 1) /\ Place_(e) \in 0..(n - 1)
        BY <1>4, <2>1
      <3> QED
        BY <1>9, <2>1, <3>1
    <2> QED
      BY <1>2, <1>5, <2>1, <2>2
  <1> QED
    BY <1>11, <1>12 DEF B

----------------------------------------------------------------------------
(* A page: the listing it comes from, what it has read so far, and what is *)
(* there all the time.                                                     *)

Pages == [at : {"none", "list", "read", "answered"},
          unread : SUBSET Manifests, read : SUBSET (Manifests \X Contents),
          failed : SUBSET Manifests, query : Queries \cup {Every},
          always : SUBSET (Manifests \X Contents), ever : SUBSET (Manifests \X Contents)]

(* While the store is listed: what was there all the time is among the keys*)
(* that the walk finds or has ahead.                                       *)
Listing(c) ==
  page[c].at = "list" =>
    /\ pc[c] = "walk"
    /\ page[c].read = {}
    /\ \A e \in page[c].always : e[1] \in history[c].always

Current(c) ==
  page[c].at \in {"list", "read"} =>
    /\ page[c].always \subseteq Entries(files)
    /\ Entries(files) \subseteq page[c].ever

(* While the manifests are read: what was there all the time has been read *)
(* or is ahead, unless reading it failed.                                  *)
Reading(c) ==
  page[c].at = "read" =>
    /\ pc[c] = "done"
    /\ IsFiniteSet(page[c].read)
    /\ OnePerKey(page[c].read)
    /\ page[c].read \subseteq page[c].ever
    /\ \A e \in page[c].read : e[1] \notin page[c].unread
    /\ ~history[c].cut =>
         \A e \in page[c].always \ page[c].read :
           e[1] \in page[c].failed \/ e[1] \in page[c].unread

(* PageIsTrue, for one page.                                               *)
IsTrue(p, cut) ==
  /\ p.read \subseteq Hits(p.query, p.ever)
  /\ ~cut => \A e \in Hits(p.query, p.always) \ p.read :
               \/ e[1] \in p.failed
               \/ /\ p.query # Every
                  /\ Cardinality(p.read) = Limit
                  /\ \A d \in p.read : Before(p.query, d, e)

Shown(c) ==
  page[c].at = "answered" => pc[c] = "done" /\ IsTrue(page[c], history[c].cut)

PageInv(c) ==
  /\ page[c].at # "none" => IsPage(c)
  /\ Listing(c)
  /\ Current(c)
  /\ Reading(c)
  /\ Shown(c)

PagesInv == page \in [Calls -> Pages] /\ \A c \in Calls : PageInv(c)

StoreInv == TypeOK /\ WriteInv /\ ObjectsAreWhole /\ ListsInv

LEMMA EntriesTyped ==
  ASSUME NEW F \in FileMaps, \A k \in DOMAIN F \cap Keys : F[k] # Partial
  PROVE  /\ Entries(F) \in SUBSET (Manifests \X Contents)
         /\ \A e \in Entries(F) : e[1] \in DOMAIN F \cap Keys /\ e[1] \in Manifests
         /\ OnePerKey(Entries(F))
         /\ \A k : IsFiniteSet({ e \in Entries(F) : e[1] = k })
PROOF
  <1>1. /\ DOMAIN F \subseteq Paths
        /\ \A p \in DOMAIN F : F[p] \in Contents \cup {Partial}
    BY FilesTyped
  <1>2. \A k \in Manifests \cap DOMAIN F : k \in Keys /\ F[k] \in Contents
    BY <1>1, ManifestsAssumption
  <1>3. /\ Entries(F) \in SUBSET (Manifests \X Contents)
        /\ \A e \in Entries(F) : e[1] \in DOMAIN F \cap Keys /\ e[1] \in Manifests
        /\ OnePerKey(Entries(F))
    BY <1>2 DEF Entries, OnePerKey
  <1>4. ASSUME NEW k PROVE IsFiniteSet({ e \in Entries(F) : e[1] = k })
    <2>1. { e \in Entries(F) : e[1] = k } \in SUBSET {<<k, F[k]>>}
      BY DEF Entries
    <2> QED
      BY <2>1, FS_Singleton, FS_Subset
  <1> QED
    BY <1>3, <1>4

LEMMA StoreEntries ==
  ASSUME TypeOK, ObjectsAreWhole
  PROVE  /\ Entries(files) \in SUBSET (Manifests \X Contents)
         /\ \A e \in Entries(files) : e[1] \in Stored /\ e[1] \in Manifests
         /\ OnePerKey(Entries(files))
         /\ \A k : IsFiniteSet({ e \in Entries(files) : e[1] = k })
PROOF
  <1>1. files \in FileMaps /\ \A k \in DOMAIN files \cap Keys : files[k] # Partial
    BY DEF TypeOK, FileMaps, ObjectsAreWhole, Stored
  <1> QED
    BY <1>1, EntriesTyped DEF Stored

LEMMA StoreEntriesNext ==
  ASSUME TypeOK', ObjectsAreWhole'
  PROVE  /\ Entries(files') \in SUBSET (Manifests \X Contents)
         /\ \A e \in Entries(files') : e[1] \in DOMAIN files' /\ e[1] \in Manifests
PROOF
  <1>1. files' \in FileMaps /\ \A k \in DOMAIN files' \cap Keys : files'[k] # Partial
    BY DEF TypeOK, FileMaps, ObjectsAreWhole, Stored
  <1> QED
    BY <1>1, EntriesTyped

(* Where a listing goes, and what its history keeps.                       *)
LEMMA ListMoves ==
  ASSUME TypeOK, WriteInv, NEW c \in Calls, arg[c].op = "list", [Next]_vars
  PROVE  /\ arg' = arg
         /\ pc[c] = "done" => pc'[c] = "done" /\ history'[c] = history[c]
         /\ pc[c] = "dropped" => pc'[c] = "dropped"
         /\ pc[c] = "ready" /\ pc'[c] = "walk" =>
              files' = files /\ history'[c].always = Stored
         /\ pc[c] = "walk" =>
              \/ /\ pc'[c] = "walk"
                 /\ history[c].always \cap DOMAIN files' \subseteq history'[c].always
              \/ pc'[c] \in {"dropped", "failed"} /\ Lost(c)
              \/ pc'[c] = "done" /\ files' = files /\ history'[c].always = history[c].always
         /\ Crashes => files' = files
PROOF
  <1>1. arg' = arg
    BY FilesChange
  <1>2. pc[c] \notin Writing
    BY DEF WriteInv
  <1>3. ASSUME NEW d \in Calls, Stores(d)
        PROVE  /\ d # c
               /\ pc'[c] = pc[c]
               /\ ~Crashes
               /\ pc[c] # "walk" => history'[c] = history[c]
               /\ history[c].always \cap DOMAIN files' \subseteq history'[c].always
    <2>1. /\ arg[d].op # "list"
          /\ \E to \in Writing \cup {"done", "failed"} : pc' = [pc EXCEPT ![d] = to]
          /\ Change(d, files')
      BY <1>3, StoreReaches
    <2>2. d # c
      BY <2>1
    <2>3. pc'[c] = pc[c] /\ ~Crashes
      BY <2>1, <2>2 DEF TypeOK, Crashes, Writing
    <2>4. history[c] \in Histories
      BY DEF TypeOK, Histories
    <2>5. IF pc[c] # "walk" THEN history'[c] = history[c]
          ELSE history'[c] = [history[c] EXCEPT
                 !.always = @ \cap DOMAIN files',
                 !.ever = @ \cup (DOMAIN files' \cap Keys),
                 !.quiet = @ /\ ~Under(arg[d].key, arg[c].prefix)]
      BY <2>1 DEF Change
    <2> QED
      BY <2>2, <2>3, <2>4, <2>5 DEF Histories
  <1>4. CASE \E d \in Calls : PutStep(d) \/ Delete(d)
    <2>1. PICK d \in Calls : Stores(d)
      BY <1>4 DEF PutStep, CreateTemp, CopyData, Rename, PutFails, Delete, Begin, Goto, Stores
    <2> QED
      BY <1>1, <1>3, <2>1
  <1>5. ASSUME NEW d \in Calls, d # c, Get(d) \/ ListStep(d) \/ FailStep(d)
        PROVE  /\ files' = files
               /\ pc'[c] = pc[c]
               /\ history'[c] = history[c]
    BY <1>5 DEF Get, ListStep, ReadRoot, ReadDir, VisitEntry, EndWalk, FailStep, Refused,
                WalkFails, Begin, Goto, walk, TypeOK
  <1>6. CASE ReadRoot(c)
    <2>1. history'[c] = [NoHistory EXCEPT
            !.always = Stored, !.ever = Stored,
            !.quiet = \A p \in Calls :
                        pc[p] \in Writing => ~Under(p, arg[c].prefix)]
      BY <1>6 DEF ReadRoot, TypeOK
    <2>2. history'[c].always = Stored
      BY <2>1 DEF NoHistory
    <2> QED
      BY <1>1, <1>6, <2>2 DEF ReadRoot, Begin, TypeOK
  <1>7. CASE ReadDir(c) \/ EndWalk(c)
    BY <1>1, <1>7 DEF ReadDir, EndWalk, Goto, walk, TypeOK
  <1>8. CASE VisitEntry(c)
    <2>1. /\ pc[c] = "walk"
          /\ pc'[c] \in {"walk", "done"}
          /\ files' = files
          /\ \E g \in BOOLEAN : history' = [history EXCEPT ![c].cut = g]
      BY <1>8 DEF VisitEntry, TypeOK
    <2>2. history'[c].always = history[c].always
      BY <2>1 DEF TypeOK
    <2> QED
      BY <1>1, <2>1, <2>2
  <1>9. CASE Crash
    BY <1>1, <1>9 DEF Crash, TypeOK, Writing, Lost, Crashes
  <1>10. CASE UNCHANGED vars
    BY <1>1, <1>10 DEF vars
  <1>11. ~Get(c) /\ ~Refused(c)
    BY DEF Get, Begin, Refused
  <1>12. CASE WalkFails(c)
    BY <1>1, <1>12 DEF WalkFails, Goto, TypeOK, Lost
  <1> QED
    BY <1>1, <1>4, <1>5, <1>6, <1>7, <1>8, <1>9, <1>10, <1>11, <1>12
       DEF Next, ListStep, FailStep

LEMMA WatchedPage ==
  ASSUME NEW p \in Pages, NEW F, Entries(F) \in SUBSET (Manifests \X Contents)
  PROVE  /\ Watched(p, F) \in Pages
         /\ Watched(p, F).at = p.at
         /\ Watched(p, F).unread = p.unread
         /\ Watched(p, F).read = p.read
         /\ Watched(p, F).failed = p.failed
         /\ Watched(p, F).always = p.always \cap Entries(F)
         /\ Watched(p, F).ever = p.ever \cup Entries(F)
PROOF
  BY DEF Watched, Pages

(* A step of the store, as the page of call c sees it.                     *)
LEMMA DriveKeepsPage ==
  ASSUME StoreInv, StoreInv', PagesInv, Next, NEW c \in Calls, IsPage(c),
         page'[c] = PageAfter(c)
  PROVE  page'[c] \in Pages /\ PageInv(c)'
PROOF
  <1>1. page[c] \in Pages /\ PageInv(c)
    BY DEF PagesInv
  <1>2. /\ arg' = arg
        /\ pc[c] = "done" => pc'[c] = "done" /\ history'[c] = history[c]
        /\ pc[c] = "dropped" => pc'[c] = "dropped"
        /\ pc[c] = "ready" /\ pc'[c] = "walk" =>
             files' = files /\ history'[c].always = Stored
        /\ pc[c] = "walk" =>
             \/ /\ pc'[c] = "walk"
                /\ history[c].always \cap DOMAIN files' \subseteq history'[c].always
             \/ pc'[c] \in {"dropped", "failed"} /\ Lost(c)
             \/ pc'[c] = "done" /\ files' = files /\ history'[c].always = history[c].always
        /\ Crashes => files' = files
    <2>1. arg[c].op = "list" /\ [Next]_vars
      BY DEF IsPage
    <2> QED
      BY <2>1, ListMoves DEF StoreInv
  <1>3. IsPage(c)'
    BY <1>2 DEF IsPage
  <1>4. /\ Entries(files) \in SUBSET (Manifests \X Contents)
        /\ \A e \in Entries(files) : e[1] \in Stored /\ e[1] \in Manifests
    BY StoreEntries DEF StoreInv
  <1>5. /\ Entries(files') \in SUBSET (Manifests \X Contents)
        /\ \A e \in Entries(files') : e[1] \in DOMAIN files' /\ e[1] \in Manifests
    BY StoreEntriesNext DEF StoreInv
  <1>6. page[c].at \in {"none", "list", "read", "answered"}
    BY <1>1 DEF Pages
  <1>7. CASE page[c].at = "none" /\ pc[c] = "ready" /\ pc'[c] = "walk"
    <2>1. page'[c] = [NoPage EXCEPT !.at = "list", !.always = Entries(files),
                                    !.ever = Entries(files)]
      BY <1>7 DEF PageAfter
    <2>2. page'[c] = [at |-> "list", unread |-> {}, read |-> {}, failed |-> {},
                      query |-> Every, always |-> Entries(files), ever |-> Entries(files)]
      BY <2>1 DEF NoPage
    <2>3. page'[c] \in Pages
      BY <1>4, <2>2 DEF Pages
    <2> QED
      BY <1>2, <1>3, <1>4, <1>7, <2>2, <2>3
         DEF PageInv, Listing, Current, Reading, Shown
  <1>8. CASE page[c].at = "list" /\ ListEnds(c)
    <2>1. /\ pc[c] = "walk" /\ pc'[c] = "done"
          /\ files' = files /\ history'[c].always = history[c].always
      BY <1>2, <1>8 DEF ListEnds
    <2>2. page'[c] = [page[c] EXCEPT !.at = "read", !.unread = found'[c] \cap Manifests]
      BY <1>8 DEF PageAfter, ListEnds
    <2>3. /\ page'[c] \in Pages
          /\ page'[c].at = "read"
          /\ page'[c].unread = found'[c] \cap Manifests
          /\ page'[c].read = page[c].read
          /\ page'[c].always = page[c].always
          /\ page'[c].ever = page[c].ever
      <3> DEFINE U == found'[c] \cap Manifests
      <3>1. U \in SUBSET Manifests
        OBVIOUS
      <3>2. page'[c] = [page[c] EXCEPT !.at = "read", !.unread = U]
        BY <2>2
      <3> HIDE DEF U
      <3>3. /\ page'[c] \in Pages
            /\ page'[c].at = "read"
            /\ page'[c].unread = U
            /\ page'[c].read = page[c].read
            /\ page'[c].always = page[c].always
            /\ page'[c].ever = page[c].ever
        BY <1>1, <3>1, <3>2 DEF Pages
      <3> QED
        BY <3>3 DEF U
    <2>4. /\ page[c].read = {}
          /\ \A e \in page[c].always : e[1] \in history[c].always
          /\ page[c].always \subseteq Entries(files)
          /\ Entries(files) \subseteq page[c].ever
      BY <1>1, <1>8, <2>1 DEF PageInv, Listing, Current
    <2>5. ~history'[c].cut => Scope(c, history[c].always)' \subseteq found'[c]
      <3>1. Listed(c)'
        BY <1>3, <2>1 DEF Listed, IsPage
      <3> QED
        BY <3>1 DEF StoreInv, ListsInv, ListInv, Returned
    <2>6. history[c].always \subseteq Keys
      BY DEF StoreInv, TypeOK
    <2>7. ASSUME ~history'[c].cut, NEW e \in page[c].always
          PROVE  e[1] \in found'[c] \cap Manifests
      <3>1. e[1] \in history'[c].always /\ e[1] \in Manifests
        BY <1>4, <2>1, <2>4
      <3>2. arg'[c].prefix = AllKeys
        BY <1>3 DEF IsPage
      <3>3. e[1] \in Scope(c, history[c].always)'
        BY <3>1, <3>2 DEF Scope, Under
      <3> QED
        BY <2>5, <2>7, <3>1, <3>3
    <2>8. IsFiniteSet({}) /\ OnePerKey({})
      BY FS_EmptySet DEF OnePerKey
    <2> QED
      BY <1>3, <2>1, <2>3, <2>4, <2>7, <2>8 DEF PageInv, Listing, Current, Reading, Shown
  <1>9. CASE page[c].at \in {"list", "read"} /\ ~ListEnds(c) /\ Lost(c)
    <2>1. page'[c] = NoPage
      BY <1>9 DEF PageAfter
    <2>2. NoPage \in Pages /\ NoPage.at = "none"
      BY DEF NoPage, Pages
    <2> QED
      BY <1>3, <2>1, <2>2 DEF PageInv, Listing, Current, Reading, Shown
  <1>10. CASE page[c].at \in {"list", "read"} /\ ~ListEnds(c) /\ ~Lost(c)
    <2>1. page'[c] = Watched(page[c], files')
      BY <1>10 DEF PageAfter
    <2>2. /\ page'[c] \in Pages
          /\ page'[c].at = page[c].at
          /\ page'[c].unread = page[c].unread
          /\ page'[c].read = page[c].read
          /\ page'[c].failed = page[c].failed
          /\ page'[c].always = page[c].always \cap Entries(files')
          /\ page'[c].ever = page[c].ever \cup Entries(files')
      BY <1>1, <1>5, <2>1, WatchedPage
    <2>3. Current(c)'
      BY <2>2 DEF Current
    <2>4. Listing(c)'
      <3> SUFFICES ASSUME page[c].at = "list" PROVE Listing(c)'
        BY <2>2 DEF Listing
      <3>1. /\ pc[c] = "walk"
            /\ page[c].read = {}
            /\ \A e \in page[c].always : e[1] \in history[c].always
        BY <1>1 DEF PageInv, Listing
      <3>2. /\ pc'[c] = "walk"
            /\ history[c].always \cap DOMAIN files' \subseteq history'[c].always
        BY <1>2, <1>10, <3>1 DEF ListEnds
      <3>3. ASSUME NEW e \in page'[c].always
            PROVE  e[1] \in history'[c].always
        <4>1. e \in page[c].always /\ e[1] \in DOMAIN files'
          BY <1>5, <2>2, <3>3
        <4> QED
          BY <3>1, <3>2, <4>1
      <3> QED
        BY <2>2, <3>1, <3>2, <3>3 DEF Listing
    <2>5. Reading(c)'
      BY <1>1, <1>2, <2>2 DEF PageInv, Reading
    <2> QED
      BY <1>3, <1>10, <2>2, <2>3, <2>4, <2>5 DEF PageInv, Shown
  <1>11. CASE /\ ~(page[c].at = "none" /\ pc[c] = "ready" /\ pc'[c] = "walk")
              /\ ~(page[c].at = "list" /\ ListEnds(c))
              /\ ~(page[c].at \in {"list", "read"} /\ ~ListEnds(c) /\ Lost(c))
              /\ ~(page[c].at \in {"list", "read"} /\ ~ListEnds(c) /\ ~Lost(c))
    <2>1. page'[c] = page[c]
      BY <1>11 DEF PageAfter
    <2>2. page[c].at \notin {"list", "read"}
      BY <1>1, <1>11 DEF PageInv, Reading, ListEnds
    <2>3. CASE page[c].at = "answered"
      BY <1>1, <1>2, <1>3, <2>1, <2>3 DEF PageInv, Listing, Current, Reading, Shown
    <2>4. CASE page[c].at = "none"
      BY <1>1, <1>3, <2>1, <2>4 DEF PageInv, Listing, Current, Reading, Shown
    <2> QED
      BY <1>6, <2>2, <2>3, <2>4
  <1> QED
    BY <1>7, <1>8, <1>9, <1>10, <1>11

(* A step that only touches the page of call c.                            *)
LEMMA OtherPagesKeep ==
  ASSUME PagesInv, UNCHANGED vars, NEW c \in Calls, NEW p \in Pages,
         page' = [page EXCEPT ![c] = p], PageInv(c)'
  PROVE  PagesInv'
PROOF
  <1>1. page' \in [Calls -> Pages] /\ \A d \in Calls \ {c} : page'[d] = page[d]
    BY DEF PagesInv
  <1>2. ASSUME NEW d \in Calls \ {c}  PROVE PageInv(d)'
    <2>1. PageInv(d) /\ page'[d] = page[d]
      BY <1>1 DEF PagesInv
    <2>2. files' = files /\ pc' = pc /\ history' = history /\ arg' = arg
      BY DEF vars
    <2>3. IsPage(d)' <=> IsPage(d)
      BY <2>2 DEF IsPage
    <2> QED
      BY <2>1, <2>2, <2>3 DEF PageInv, Listing, Current, Reading, Shown
  <1> QED
    BY <1>1, <1>2 DEF PagesInv

LEMMA ReadingKeepsPages ==
  ASSUME StoreInv, PagesInv, NEW c \in Calls, ReadManifest(c)
  PROVE  PagesInv'
PROOF
  <1>1. /\ page \in [Calls -> Pages]
        /\ page[c] \in Pages
        /\ IsPage(c) /\ page[c].at = "read"
        /\ page[c].always \subseteq Entries(files)
        /\ Entries(files) \subseteq page[c].ever
        /\ Reading(c)
    BY DEF PagesInv, PageInv, Current, ReadManifest
  <1>2. /\ Entries(files) \in SUBSET (Manifests \X Contents)
        /\ OnePerKey(Entries(files))
        /\ \A k : IsFiniteSet({ e \in Entries(files) : e[1] = k })
    BY StoreEntries DEF StoreInv
  <1>3. /\ files' = files /\ pc' = pc /\ history' = history /\ arg' = arg
        /\ IsPage(c)'
        /\ UNCHANGED vars
    BY <1>1 DEF ReadManifest, vars, IsPage
  <1>4. PICK k \in page[c].unread :
          \/ page' = [page EXCEPT ![c] = ReadLatest(c, k)]
          \/ page' = [page EXCEPT ![c].unread = @ \ {k}, ![c].failed = @ \cup {k}]
    BY DEF ReadManifest
  <1> DEFINE r == page[c]
             new == { e \in Entries(files) : e[1] = k }
             U == r.unread \ {k}
  <1>5. /\ U \in SUBSET Manifests
        /\ k \in Manifests
        /\ r.read \cup new \in SUBSET (Manifests \X Contents)
        /\ r.failed \cup {k} \in SUBSET Manifests
    BY <1>1, <1>2, <1>4 DEF Pages
  <1>6. /\ pc[c] = "done"
        /\ IsFiniteSet(r.read)
        /\ OnePerKey(r.read)
        /\ r.read \subseteq r.ever
        /\ \A e \in r.read : e[1] \notin r.unread
        /\ ~history[c].cut =>
             \A e \in r.always \ r.read : e[1] \in r.failed \/ e[1] \in r.unread
    BY <1>1 DEF Reading
  <1>7. CASE page' = [page EXCEPT ![c] = ReadLatest(c, k)]
    <2>1. ReadLatest(c, k) = [r EXCEPT !.unread = U, !.read = r.read \cup new]
      BY DEF ReadLatest
    <2> HIDE DEF U, new
    <2>2. /\ ReadLatest(c, k) \in Pages
          /\ page'[c] = ReadLatest(c, k)
          /\ page'[c].at = "read"
          /\ page'[c].unread = U
          /\ page'[c].read = r.read \cup new
          /\ page'[c].failed = r.failed
          /\ page'[c].always = r.always
          /\ page'[c].ever = r.ever
      BY <1>1, <1>5, <1>7, <2>1 DEF Pages
    <2> USE DEF U, new
    <2>3. IsFiniteSet(r.read \cup new)
      BY <1>2, <1>6, FS_Union
    <2>4. OnePerKey(r.read \cup new) /\ \A e \in r.read \cup new : e[1] \notin U
      BY <1>2, <1>4, <1>6 DEF OnePerKey
    <2>5. r.read \cup new \subseteq r.ever
      BY <1>1, <1>6
    <2>6. ~history[c].cut =>
            \A e \in r.always \ (r.read \cup new) : e[1] \in r.failed \/ e[1] \in U
      BY <1>1, <1>6
    <2> HIDE DEF U, new, r
    <2>7. PageInv(c)'
      <3>1. Reading(c)'
        BY <1>3, <1>6, <2>2, <2>3, <2>4, <2>5, <2>6 DEF Reading
      <3>2. Current(c)'
        BY <1>1, <1>3, <2>2 DEF Current, r
      <3> QED
        BY <1>3, <2>2, <3>1, <3>2 DEF PageInv, Listing, Shown
    <2> QED
      BY <1>3, <1>7, <2>2, <2>7, OtherPagesKeep
  <1>8. CASE page' = [page EXCEPT ![c].unread = @ \ {k}, ![c].failed = @ \cup {k}]
    <2> DEFINE p == [r EXCEPT !.unread = U, !.failed = r.failed \cup {k}]
    <2>1. page' = [page EXCEPT ![c] = p]
      BY <1>1, <1>8
    <2> HIDE DEF U
    <2>2. /\ p \in Pages
          /\ p.at = "read" /\ p.unread = U /\ p.failed = r.failed \cup {k}
          /\ p.read = r.read /\ p.always = r.always /\ p.ever = r.ever
      BY <1>1, <1>5 DEF Pages
    <2> HIDE DEF p, r
    <2>3. page'[c] = p
      BY <1>1, <2>1
    <2>4. PageInv(c)'
      <3>1. Reading(c)'
        BY <1>3, <1>6, <2>2, <2>3 DEF Reading, U
      <3>2. Current(c)'
        BY <1>1, <1>3, <2>2, <2>3 DEF Current, r
      <3> QED
        BY <1>3, <2>2, <2>3, <3>1, <3>2 DEF PageInv, Listing, Shown
    <2> QED
      BY <1>3, <2>1, <2>2, <2>4, OtherPagesKeep
  <1> QED
    BY <1>4, <1>7, <1>8

LEMMA AnswerKeepsPages ==
  ASSUME StoreInv, PagesInv, NEW c \in Calls, Answer(c)
  PROVE  PagesInv'
PROOF
  <1>1. /\ page \in [Calls -> Pages]
        /\ page[c] \in Pages
        /\ IsPage(c) /\ page[c].at = "read" /\ page[c].unread = {}
        /\ Reading(c)
    BY DEF PagesInv, PageInv, Answer
  <1>2. /\ files' = files /\ pc' = pc /\ history' = history /\ arg' = arg
        /\ IsPage(c)'
        /\ UNCHANGED vars
    BY <1>1 DEF Answer, vars, IsPage
  <1>3. PICK q \in Queries \cup {Every} :
          page' = [page EXCEPT ![c].at = "answered", ![c].query = q, ![c].read = Best(q, @)]
    BY DEF Answer
  <1> DEFINE r == page[c]
             B == Best(q, r.read)
             p == [r EXCEPT !.at = "answered", !.query = q, !.read = B]
  <1>4. page' = [page EXCEPT ![c] = p]
    BY <1>1, <1>3
  <1>5. B \subseteq Hits(q, r.read) /\ Hits(q, r.read) \subseteq r.read
    BY DEF Best, Hits
  <1>6. r.read \in SUBSET (Manifests \X Contents) /\ B \in SUBSET (Manifests \X Contents)
    BY <1>1, <1>5 DEF Pages
  <1> HIDE DEF B
  <1>7. /\ p \in Pages
        /\ p.at = "answered" /\ p.query = q /\ p.read = B
        /\ p.failed = r.failed /\ p.always = r.always /\ p.ever = r.ever
    BY <1>1, <1>6 DEF Pages
  <1> HIDE DEF p
  <1>8. /\ pc[c] = "done"
        /\ IsFiniteSet(r.read)
        /\ OnePerKey(r.read)
        /\ r.read \subseteq r.ever
        /\ ~history[c].cut => \A e \in r.always \ r.read : e[1] \in r.failed
    BY <1>1 DEF Reading
  <1> HIDE DEF r
  <1>9. ASSUME ~history[c].cut, NEW e \in Hits(q, r.always) \ B
        PROVE  \/ e[1] \in r.failed
               \/ q # Every /\ Cardinality(B) = Limit /\ \A d \in B : Before(q, d, e)
    <2>1. e \in r.always /\ ScoreOf(q, e) > 0
      BY DEF Hits
    <2>2. CASE e \notin r.read
      BY <1>8, <1>9, <2>1, <2>2
    <2>3. CASE e \in r.read
      <3>1. e \in Hits(q, r.read) \ B
        BY <2>1, <2>3 DEF Hits
      <3>2. q # Every
        BY <3>1 DEF B, Best
      <3>3. e \in Hits(q, r.read) \ Best(q, r.read)
        BY <3>1 DEF B
      <3> QED
        BY <1>6, <1>8, <3>2, <3>3, BestAreFirst DEF B
    <2> QED
      BY <2>2, <2>3
  <1>10. B \subseteq Hits(q, r.ever)
    BY <1>5, <1>8 DEF Hits
  <1>11. IsTrue(p, history[c].cut)
    BY <1>7, <1>9, <1>10 DEF IsTrue
  <1>12. page'[c] = p
    BY <1>1, <1>4
  <1>13. PageInv(c)'
    BY <1>2, <1>7, <1>8, <1>11, <1>12 DEF PageInv, Listing, Current, Reading, Shown
  <1> QED
    BY <1>2, <1>4, <1>7, <1>13, OtherPagesKeep

LEMMA PagedKeepsPages ==
  ASSUME StoreInv, StoreInv', PagesInv, [PagedNext]_pageVars
  PROVE  PagesInv'
PROOF
  <1>1. CASE Drive
    <2>1. /\ Next
          /\ page' = [c \in Calls |-> IF IsPage(c) THEN PageAfter(c) ELSE page[c]]
      BY <1>1 DEF Drive
    <2>2. ASSUME NEW c \in Calls  PROVE page'[c] \in Pages /\ PageInv(c)'
      <3>1. CASE IsPage(c)
        BY <2>1, <3>1, DriveKeepsPage
      <3>2. CASE ~IsPage(c)
        <4>1. page[c] \in Pages /\ page[c].at = "none" /\ page'[c] = page[c]
          BY <2>1, <3>2 DEF PagesInv, PageInv
        <4> QED
          BY <4>1 DEF PageInv, Listing, Current, Reading, Shown
      <3> QED
        BY <3>1, <3>2
    <2> QED
      BY <2>1, <2>2 DEF PagesInv
  <1>2. CASE UNCHANGED pageVars
    <2>1. page' = page /\ UNCHANGED vars
      BY <1>2 DEF pageVars
    <2>2. files' = files /\ pc' = pc /\ history' = history /\ arg' = arg
      BY <2>1 DEF vars
    <2> QED
      BY <2>1, <2>2
         DEF PagesInv, PageInv, IsPage, Listing, Current, Reading, Shown
  <1> QED
    BY <1>1, <1>2, ReadingKeepsPages, AnswerKeepsPages DEF PagedNext

(* A page shows nothing that was not in the store during the request, and  *)
(* leaves out what did not change and could be read only for a full page of*)
(* better hits (handlePackages, packages.go:17; handleSearch, search.go:18)*)
THEOREM PagesTrue == PagedSpec => []PageIsTrue
PROOF
  <1>1. PagedInit => PagesInv
    <2>1. NoPage \in Pages /\ NoPage.at = "none"
      BY DEF NoPage, Pages
    <2> QED
      BY <2>1 DEF PagedInit, PagesInv, PageInv, Listing, Current, Reading, Shown
  <1>2. PagedSpec => []StoreInv
    BY PagesOnlyRead, WholeHolds, ListsHold, PTL DEF StoreInv
  <1>3. StoreInv /\ StoreInv' /\ PagesInv /\ [PagedNext]_pageVars => PagesInv'
    BY PagedKeepsPages
  <1>4. PagesInv => PageIsTrue
    BY DEF PagesInv, PageInv, Shown, IsTrue, PageIsTrue
  <1> QED
    BY <1>1, <1>2, <1>3, <1>4, PTL DEF PagedSpec

----------------------------------------------------------------------------
(* Single objects: the driver implements the atomic store.                 *)

Objects == Restrict(files, Stored)
Outcomes == [c \in Calls |-> Outcome(c)]

(* A change of the files, as a change of the objects.                      *)
LEMMA ObjectsAfter ==
  ASSUME NEW K, Stored' = K
  PROVE  Objects' = [k \in K |-> files'[k]]
PROOF
  BY DEF Objects, Restrict

LEMMA ObjectsAre ==
  /\ DOMAIN Objects = Stored
  /\ \A k \in Stored : Objects[k] = files[k]
PROOF
  BY DEF Objects, Restrict

(* Steps that change no object and end no call.                            *)
LEMMA OutcomesAfter ==
  ASSUME TypeOK, NEW c \in Calls, NEW to \in Phases, pc' = [pc EXCEPT ![c] = to],
         pc[c] \notin {"done", "failed", "dropped"}
  PROVE  /\ Outcomes[c] = "open"
         /\ to \in {"done", "failed", "dropped"} => Outcomes' = [Outcomes EXCEPT ![c] = to]
         /\ to \notin {"done", "failed", "dropped"} => Outcomes' = Outcomes
PROOF
  BY DEF TypeOK, Outcomes, Outcome

AtomicVars == <<Objects, arg, Outcomes, result>>

LEMMA StoresImplement ==
  ASSUME TypeOK, WriteInv, NEW c \in Calls, Stores(c), arg' = arg, result' = result
  PROVE  Atomic!Next \/ UNCHANGED AtomicVars
PROOF
  <1>1. Keys \cap Calls = {} /\ arg[c].key \in Keys
    BY PathsAssumption, StoreReaches
  <1>2. /\ DOMAIN Objects = Stored
        /\ \A k \in Stored : Objects[k] = files[k]
    BY ObjectsAre
  <1>3. CASE /\ pc[c] \in {"ready", "copy"}
             /\ \E to \in {"copy", "rename"} : pc' = [pc EXCEPT ![c] = to]
             /\ \E d \in Contents \cup {Partial} : files' = Plus(c, d)
    <2>1. Stored' = Stored /\ \A k \in Stored : files'[k] = files[k]
      BY <1>1, <1>3 DEF Stored, Plus
    <2>2. Objects' = Objects
      BY <2>1, ObjectsAfter DEF Objects, Restrict
    <2>3. PICK to \in {"copy", "rename"} : pc' = [pc EXCEPT ![c] = to]
      BY <1>3
    <2>4. Outcomes' = Outcomes
      BY <1>3, <2>3, OutcomesAfter DEF Phases, Writing
    <2> QED
      BY <2>2, <2>4 DEF AtomicVars
  <1>4. CASE /\ pc[c] = "rename"
             /\ pc' = [pc EXCEPT ![c] = "done"]
             /\ files' = Renamed(c)
    <2>1. arg[c].op = "put" /\ c \in DOMAIN files /\ files[c] = arg[c].data
      BY <1>4 DEF WriteInv, Writing
    <2>2. /\ DOMAIN files' = (DOMAIN files \ {c}) \cup {arg[c].key}
          /\ \A p \in (DOMAIN files \ {c}) \cup {arg[c].key} :
               files'[p] = IF p = arg[c].key THEN files[c] ELSE files[p]
      BY <1>1, <1>4, <2>1, RenamedTyped
    <2>3. Stored' = Stored \cup {arg[c].key}
      BY <1>1, <2>2 DEF Stored
    <2>4. Objects' = [k \in Stored \cup {arg[c].key} |-> files'[k]]
      BY <2>3, ObjectsAfter
    <2>5. \A k \in Stored \cup {arg[c].key} :
            files'[k] = IF k = arg[c].key THEN arg[c].data ELSE Objects[k]
      BY <1>1, <1>2, <2>1, <2>2 DEF Stored
    <2>6. Objects' = [k \in DOMAIN Objects \cup {arg[c].key} |->
                        IF k = arg[c].key THEN arg[c].data ELSE Objects[k]]
      BY <1>2, <2>4, <2>5
    <2>7. Outcomes[c] = "open" /\ Outcomes' = [Outcomes EXCEPT ![c] = "done"]
      BY <1>4, OutcomesAfter DEF Phases, Writing
    <2>8. Atomic!Put(c)
      BY <2>1, <2>6, <2>7 DEF Atomic!Put, Atomic!Ends, Objects, Outcomes
    <2> QED
      BY <2>8 DEF Atomic!Next
  <1>5. CASE /\ pc[c] \in Writing
             /\ pc' = [pc EXCEPT ![c] = "failed"]
             /\ files' = Without({c})
    <2>1. arg[c].op = "put"
      BY <1>5 DEF WriteInv
    <2>2. Stored' = Stored /\ \A k \in Stored : files'[k] = files[k]
      BY <1>1, <1>5 DEF Stored, Without, Restrict
    <2>3. Objects' = Objects
      BY <2>2, ObjectsAfter DEF Objects, Restrict
    <2>4. Outcomes[c] = "open" /\ Outcomes' = [Outcomes EXCEPT ![c] = "failed"]
      BY <1>5, OutcomesAfter DEF Phases, Writing
    <2>5. Atomic!Fails(c)
      BY <2>1, <2>3, <2>4 DEF Atomic!Fails, Atomic!Ends, Objects, Outcomes
    <2> QED
      BY <2>5 DEF Atomic!Next
  <1>6. CASE /\ pc[c] = "ready"
             /\ arg[c].op = "delete"
             /\ pc' = [pc EXCEPT ![c] = "done"]
             /\ files' = Without({arg[c].key})
    <2>1. /\ Stored' = Stored \ {arg[c].key}
          /\ \A k \in Stored \ {arg[c].key} : files'[k] = files[k]
      BY <1>6 DEF Stored, Without, Restrict
    <2>2. Objects' = [k \in Stored \ {arg[c].key} |-> files'[k]]
      BY <2>1, ObjectsAfter
    <2>3. Objects' = [k \in DOMAIN Objects \ {arg[c].key} |-> Objects[k]]
      BY <1>2, <2>1, <2>2
    <2>4. Outcomes[c] = "open" /\ Outcomes' = [Outcomes EXCEPT ![c] = "done"]
      BY <1>6, OutcomesAfter DEF Phases, Writing
    <2>5. Atomic!Delete(c)
      BY <1>6, <2>3, <2>4 DEF Atomic!Delete, Atomic!Ends, Objects, Outcomes
    <2> QED
      BY <2>5 DEF Atomic!Next
  <1>7. pc[c] = "copy" => arg[c].data \in Contents
    BY PutArgs DEF WriteInv, Writing
  <1> QED
    BY <1>3, <1>4, <1>5, <1>6, <1>7 DEF Stores, Change

LEMMA LooksImplement ==
  ASSUME TypeOK, NEW c \in Calls, ListInv(c), Get(c) \/ ListStep(c)
  PROVE  Atomic!Next \/ UNCHANGED AtomicVars
PROOF
  <1>1. /\ DOMAIN Objects = Stored
        /\ \A k \in Stored : Objects[k] = files[k]
    BY ObjectsAre
  <1>2. files' = files /\ arg' = arg /\ Objects' = Objects
    BY DEF Get, ListStep, ReadRoot, ReadDir, VisitEntry, EndWalk, walk, Objects, Restrict, Stored
  <1>3. CASE Get(c)
    <2>1. arg[c].op = "get" /\ pc[c] = "ready" /\ arg[c].key \in Keys
      BY <1>3, PutArgs DEF Get, Begin
    <2>2. Outcomes[c] = "open" /\ Outcomes' = [Outcomes EXCEPT ![c] = "done"]
      BY <1>3, <2>1, OutcomesAfter DEF Get, Begin, Phases
    <2>3. (IF arg[c].key \in DOMAIN files THEN {files[arg[c].key]} ELSE {})
            = { Objects[k] : k \in DOMAIN Objects \cap {arg[c].key} }
      BY <1>1, <2>1 DEF Stored
    <2>4. result' = [result EXCEPT ![c] = { Objects[k] : k \in DOMAIN Objects \cap {arg[c].key} }]
      BY <1>3, <2>3 DEF Get
    <2>5. Atomic!Get(c)
      BY <1>2, <2>1, <2>2, <2>4 DEF Atomic!Get, Atomic!Ends, Objects, Outcomes
    <2> QED
      BY <2>5 DEF Atomic!Next
  <1>4. ASSUME arg[c].op = "list", pc[c] = "walk", pc' = [pc EXCEPT ![c] = "done"],
               result' = result
        PROVE  Atomic!Next
    <2>1. Outcomes[c] = "open" /\ Outcomes' = [Outcomes EXCEPT ![c] = "done"]
      BY <1>4, OutcomesAfter DEF Phases
    <2>2. Atomic!List(c)
      BY <1>2, <1>4, <2>1 DEF Atomic!List, Atomic!Ends, Objects, Outcomes
    <2> QED
      BY <2>2 DEF Atomic!Next
  <1>5. ASSUME \/ pc' = pc
               \/ pc[c] = "ready" /\ pc' = [pc EXCEPT ![c] = "walk"],
               result' = result
        PROVE  UNCHANGED AtomicVars
    <2>1. Outcomes' = Outcomes
      BY <1>5, OutcomesAfter DEF Phases, Outcomes, Outcome
    <2> QED
      BY <1>2, <1>5, <2>1 DEF AtomicVars
  <1>6. CASE ReadRoot(c) \/ ReadDir(c)
    BY <1>5, <1>6 DEF ReadRoot, ReadDir, Begin
  <1>7. CASE VisitEntry(c) \/ EndWalk(c)
    <2>1. pc[c] = "walk" /\ result' = result
      BY <1>7 DEF VisitEntry, EndWalk, Goto
    <2>2. pc' = pc \/ pc' = [pc EXCEPT ![c] = "done"]
      BY <1>7 DEF VisitEntry, EndWalk, Goto
    <2>3. arg[c].op = "list"
      BY <2>1 DEF ListInv, Walking
    <2> QED
      BY <1>4, <1>5, <2>1, <2>2, <2>3
  <1> QED
    BY <1>3, <1>6, <1>7 DEF ListStep

LEMMA FailImplements ==
  ASSUME TypeOK, NEW c \in Calls, FailStep(c)
  PROVE  Atomic!Next
PROOF
  <1>1. /\ pc[c] \in {"ready", "walk"}
        /\ pc' = [pc EXCEPT ![c] = "failed"]
        /\ files' = files /\ arg' = arg /\ result' = result
    BY DEF FailStep, Refused, WalkFails, Goto
  <1>2. Outcomes[c] = "open" /\ Outcomes' = [Outcomes EXCEPT ![c] = "failed"]
    BY <1>1, OutcomesAfter DEF Phases
  <1>3. Objects' = Objects
    BY <1>1 DEF Objects, Restrict, Stored
  <1>4. Atomic!Fails(c)
    BY <1>1, <1>2, <1>3 DEF Atomic!Fails, Atomic!Ends, Objects, Outcomes
  <1> QED
    BY <1>4 DEF Atomic!Next

LEMMA CrashImplements ==
  ASSUME TypeOK, Crash
  PROVE  Atomic!Next
PROOF
  <1> DEFINE D == { c \in Calls : pc[c] \in Writing \cup {"walk"} }
  <1>1. pc' = [c \in Calls |-> IF c \in D THEN "dropped" ELSE pc[c]]
    BY DEF Crash
  <1>2. \A c \in D : Outcomes[c] = "open"
    BY DEF Outcomes, Outcome, Writing
  <1>3. D \in SUBSET { c \in Calls : Outcomes[c] = "open" }
    BY <1>2
  <1>4. Outcomes' = [c \in Calls |-> IF c \in D THEN "dropped" ELSE Outcomes[c]]
    BY <1>1 DEF Outcomes, Outcome
  <1>5. Objects' = Objects /\ arg' = arg /\ result' = result
    BY DEF Crash, Objects, Restrict, Stored
  <1> HIDE DEF D
  <1>6. Atomic!Crash
    BY <1>3, <1>4, <1>5 DEF Atomic!Crash, Objects, Outcomes
  <1> QED
    BY <1>6 DEF Atomic!Next

(* Put, Delete and Get take effect in one step or not at all: a Put when   *)
(* its temporary file is renamed (local.go:24), whatever fails or dies.    *)
THEOREM DriverIsAtomic == Spec => ImplementsAtomicStore
PROOF
  <1>1. Init => Atomic!Init
    <2> SUFFICES ASSUME Init PROVE Atomic!Init
      OBVIOUS
    <2>1. PICK K \in SUBSET Keys : files \in [K -> Contents]
      BY DEF Init
    <2>2. Stored = K /\ Objects = files
      BY <2>1 DEF Stored, Objects, Restrict
    <2>3. Outcomes = [c \in Calls |-> "open"]
      BY DEF Init, Outcomes, Outcome
    <2> QED
      BY <2>1, <2>2, <2>3 DEF Atomic!Init, Init, Objects, Outcomes
  <1>2. TypeOK /\ WriteInv /\ ListsInv /\ [Next]_vars => [Atomic!Next]_Atomic!vars
    <2> SUFFICES ASSUME TypeOK, WriteInv, ListsInv, [Next]_vars
                 PROVE  Atomic!Next \/ UNCHANGED AtomicVars
      BY DEF Atomic!vars, AtomicVars, Objects, Outcomes
    <2>1. CASE UNCHANGED vars
      BY <2>1 DEF vars, AtomicVars, Objects, Outcomes, Outcome, Restrict, Stored
    <2>2. ASSUME NEW c \in Calls, PutStep(c) \/ Delete(c)
          PROVE  Atomic!Next \/ UNCHANGED AtomicVars
      <3>1. Stores(c) /\ arg' = arg /\ result' = result
        BY <2>2 DEF PutStep, CreateTemp, CopyData, Rename, PutFails, Delete, Begin, Goto,
                    Stores
      <3> QED
        BY <3>1, StoresImplement
    <2>3. ASSUME NEW c \in Calls, Get(c) \/ ListStep(c)
          PROVE  Atomic!Next \/ UNCHANGED AtomicVars
      BY <2>3, LooksImplement DEF ListsInv
    <2> QED
      BY <2>1, <2>2, <2>3, FailImplements, CrashImplements DEF Next
  <1> QED
    BY <1>1, <1>2, WholeHolds, ListsHold, PTL DEF Spec, ImplementsAtomicStore, Atomic!Spec

(* The same of a store that the website reads meanwhile.                   *)
THEOREM StoreUnderPages ==
  PagedSpec => /\ ImplementsAtomicStore
               /\ [](/\ TypeOK
                     /\ LeftoversAreFromCrashes
                     /\ UncutListingIsComplete
                     /\ QuietListingIsExact)
  BY PagesOnlyRead, DriverIsAtomic, DriverTyped, LeftoversExplained, ListingComplete,
     ListingExact, PTL
=============================================================================
