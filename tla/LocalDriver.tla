---------------------------- MODULE LocalDriver ----------------------------
(***************************************************************************)
(* blob.Local: Put, Delete, Get and List as concurrent calls on a directory*)
(* tree, one action per file operation.  Put fills a temporary file next to*)
(* its target and renames it; List walks the tree while other calls change *)
(* it.  Directories are created and never removed.                         *)
(***************************************************************************)
EXTENDS Naturals, FiniteSets, Functions

CONSTANTS
  Calls,        \* the calls; a Put's temporary file is named after the call
  Keys,         \* object keys
  Dirs,         \* the directories that hold them
  DirOf,        \* the directory of a key
  Contents,     \* what may be stored
  Partial,      \* the bytes of a temporary file that is still being filled
  Rank,         \* the lexical order of directories and of keys
  AllKeys       \* the prefix "" of List

Paths == Keys \cup Calls

ASSUME PathsAssumption == Keys \cap Calls = {} /\ Partial \notin Contents
ASSUME DirsAssumption == DirOf \in [Keys -> Dirs] /\ AllKeys \notin Dirs
ASSUME RankAssumption ==
  /\ Rank \in [Keys \cup Dirs -> Nat]
  /\ \A p, q \in Keys \cup Dirs : Rank[p] = Rank[q] => p = q

VARIABLES
  files,     \* path -> content of the files that exist
  dirs,      \* the directories that exist
  arg,       \* what each call is asked to do
  pc,        \* where it is
  dirsLeft,  \* List: directories still to be read
  left,      \* List: entries of the directory being walked
  found,     \* List: the objects collected
  result,    \* Get: what was read
  history    \* List: what happened to the stored keys during the walk

walk == <<dirsLeft, left, found>>
vars == <<files, dirs, arg, pc, dirsLeft, left, found, result, history>>

(* The prefix of a List is "" or the directory of a package.               *)
Operations == [op : {"put"}, key : Keys, data : Contents]
                \cup [op : {"delete", "get"}, key : Keys]
                \cup [op : {"list"}, prefix : Dirs \cup {AllKeys}]

(* A temporary file lies next to its target.                               *)
Place(p) == IF p \in Keys THEN DirOf[p] ELSE DirOf[arg[p].key]
Under(p, prefix) == prefix = AllKeys \/ Place(p) = prefix

(* The names of temporary files start with a dot, before all others, and   *)
(* end in random digits, in any order.                                     *)
IsFirst(p, S) ==
  p \in Calls \/ (S \cap Calls = {} /\ \A q \in S : Rank[p] <= Rank[q])

Stored == DOMAIN files \cap Keys

(* History: the keys that were there all the time and at some time, whether*)
(* a change ran under the prefix, and whether the walk was cut short.      *)
NoHistory == [always |-> {}, ever |-> {}, quiet |-> TRUE, cut |-> FALSE]

Init ==
  /\ files \in UNION { [K -> Contents] : K \in SUBSET Keys }
  /\ dirs = { DirOf[k] : k \in DOMAIN files }
  /\ arg \in [Calls -> Operations]
  /\ pc = [c \in Calls |-> "ready"]
  /\ dirsLeft = [c \in Calls |-> {}]
  /\ left = [c \in Calls |-> {}]
  /\ found = [c \in Calls |-> {}]
  /\ result = [c \in Calls |-> {}]
  /\ history = [c \in Calls |-> NoHistory]

----------------------------------------------------------------------------
Writing == {"copy", "rename"}
Begin(c, op, to) == /\ arg[c].op = op
                    /\ pc[c] = "ready"
                    /\ pc' = [pc EXCEPT ![c] = to]
Goto(c, from, to) == pc[c] = from /\ pc' = [pc EXCEPT ![c] = to]

Without(F) == Restrict(files, DOMAIN files \ F)
Plus(p, x) == [q \in DOMAIN files \cup {p} |-> IF q = p THEN x ELSE files[q]]

(* Call c changes files: record it for the walks in progress.              *)
Change(c, new) ==
  /\ files' = new
  /\ history' = [w \in Calls |->
       IF pc[w] # "walk" THEN history[w]
       ELSE [history[w] EXCEPT
               !.always = @ \cap DOMAIN new,
               !.ever = @ \cup (DOMAIN new \cap Keys),
               !.quiet = @ /\ ~Under(arg[c].key, arg[w].prefix)]]

(* Mutant: the package's directory is not created.                         *)
CreateTemp_NoMkdir(c) ==
  /\ Begin(c, "put", "copy")
  /\ Change(c, Plus(c, Partial))
  /\ UNCHANGED <<dirs, arg, walk, result>>

(* Put: MkdirAll and CreateTemp; io.Copy and Close; Rename.                *)
CreateTemp(c) ==
  /\ Begin(c, "put", "copy")
  /\ dirs' = dirs \cup {Place(c)}
  /\ Change(c, Plus(c, Partial))
  /\ UNCHANGED <<arg, walk, result>>

(* Mutant: the data is not awaited before the rename.                      *)
CopyData_Late(c) ==
  /\ Goto(c, "copy", "rename")
  /\ UNCHANGED <<files, dirs, arg, walk, result, history>>

CopyData(c) ==
  /\ Goto(c, "copy", "rename")
  /\ Change(c, Plus(c, arg[c].data))
  /\ UNCHANGED <<dirs, arg, walk, result>>

Renamed(c) ==
  [p \in (DOMAIN files \ {c}) \cup {arg[c].key} |->
     IF p = arg[c].key THEN files[c] ELSE files[p]]

Rename(c) ==
  /\ Goto(c, "rename", "done")
  /\ Change(c, Renamed(c))
  /\ UNCHANGED <<dirs, arg, walk, result>>

(* Mutant: the temporary file of a failed Put stays.                       *)
PutFails_KeepsTemp(c) ==
  /\ pc[c] \in Writing
  /\ pc' = [pc EXCEPT ![c] = "failed"]
  /\ UNCHANGED <<files, dirs, arg, walk, result, history>>

(* The data ends early or a file operation fails: the deferred Remove runs.*)
PutFails(c) ==
  /\ pc[c] \in Writing
  /\ pc' = [pc EXCEPT ![c] = "failed"]
  /\ Change(c, Without({c}))
  /\ UNCHANGED <<dirs, arg, walk, result>>

(* A missing key is not an error.                                          *)
Delete(c) ==
  /\ Begin(c, "delete", "done")
  /\ Change(c, Without({arg[c].key}))
  /\ UNCHANGED <<dirs, arg, walk, result>>

(* An open file is read to its end, whatever happens to its name.          *)
Get(c) ==
  /\ Begin(c, "get", "done")
  /\ result' = [result EXCEPT ![c] = IF arg[c].key \in DOMAIN files
                                     THEN {files[arg[c].key]} ELSE {}]
  /\ UNCHANGED <<files, dirs, arg, walk, history>>

----------------------------------------------------------------------------
(* List: the root directory is read, then each directory when the walk gets*)
(* to it, and each entry is looked up again for its size and time.         *)
ReadRoot(c) ==
  /\ Begin(c, "list", "walk")
  /\ dirsLeft' = [dirsLeft EXCEPT ![c] = dirs]
  /\ history' = [history EXCEPT ![c] =
       [NoHistory EXCEPT
          !.always = Stored, !.ever = Stored,
          !.quiet = \A p \in Calls :
                      pc[p] \in Writing => ~Under(p, arg[c].prefix)]]
  /\ UNCHANGED <<files, dirs, arg, left, found, result>>

ReadDir(c) ==
  /\ pc[c] = "walk"
  /\ left[c] = {}
  /\ \E d \in dirsLeft[c] :
       /\ IsFirst(d, dirsLeft[c])
       /\ dirsLeft' = [dirsLeft EXCEPT ![c] = @ \ {d}]
       /\ left' = [left EXCEPT ![c] = { p \in DOMAIN files : Place(p) = d }]
  /\ UNCHANGED <<files, dirs, arg, pc, found, result, history>>

(* Mutant: every entry is looked up, before its prefix is compared.        *)
VisitEntry_LooksFirst(c) ==
  /\ pc[c] = "walk"
  /\ \E p \in left[c] :
       /\ IsFirst(p, left[c])
       /\ left' = [left EXCEPT ![c] = @ \ {p}]
       /\ LET gone == p \notin DOMAIN files
          IN  /\ found' = IF Under(p, arg[c].prefix) /\ ~gone
                          THEN [found EXCEPT ![c] = @ \cup {p}] ELSE found
              /\ pc' = IF gone THEN [pc EXCEPT ![c] = "done"] ELSE pc
              /\ history' = [history EXCEPT ![c].cut = gone]
  /\ UNCHANGED <<files, dirs, arg, dirsLeft, result>>

(* An entry that is gone ends the walk, and List returns what it has: it   *)
(* takes the ErrNotExist for the one of a root that does not exist.        *)
VisitEntry(c) ==
  /\ pc[c] = "walk"
  /\ \E p \in left[c] :
       /\ IsFirst(p, left[c])
       /\ left' = [left EXCEPT ![c] = @ \ {p}]
       /\ LET listed == Under(p, arg[c].prefix)
              gone   == listed /\ p \notin DOMAIN files
          IN  /\ found' = IF listed /\ ~gone
                          THEN [found EXCEPT ![c] = @ \cup {p}] ELSE found
              /\ pc' = IF gone THEN [pc EXCEPT ![c] = "done"] ELSE pc
              /\ history' = [history EXCEPT ![c].cut = gone]
  /\ UNCHANGED <<files, dirs, arg, dirsLeft, result>>

(* Mutant: only the first directory is walked.                             *)
EndWalk_Flat(c) ==
  /\ left[c] = {}
  /\ Goto(c, "walk", "done")
  /\ UNCHANGED <<files, dirs, arg, walk, result, history>>

EndWalk(c) ==
  /\ left[c] = {}
  /\ dirsLeft[c] = {}
  /\ Goto(c, "walk", "done")
  /\ UNCHANGED <<files, dirs, arg, walk, result, history>>

(* The process dies; temporary files stay where they are.                  *)
Crash ==
  /\ \E c \in Calls : pc[c] \in Writing
  /\ pc' = [c \in Calls |->
              IF pc[c] \in Writing \cup {"walk"} THEN "dropped" ELSE pc[c]]
  /\ UNCHANGED <<files, dirs, arg, walk, result, history>>

(* An error before there is an effect: of a Get, of a Delete, or of a Put  *)
(* that has no temporary file yet, and may have made its directory.        *)
Refused(c) ==
  /\ arg[c].op # "list"
  /\ Goto(c, "ready", "failed")
  /\ \/ dirs' = dirs
     \/ arg[c].op = "put" /\ dirs' = dirs \cup {Place(c)}
  /\ UNCHANGED <<files, arg, walk, result, history>>

(* An error of the walk that is not ErrNotExist: List returns nothing.     *)
WalkFails(c) ==
  /\ Goto(c, "walk", "failed")
  /\ dirsLeft' = [dirsLeft EXCEPT ![c] = {}]
  /\ left' = [left EXCEPT ![c] = {}]
  /\ found' = [found EXCEPT ![c] = {}]
  /\ history' = [history EXCEPT ![c] = NoHistory]
  /\ UNCHANGED <<files, dirs, arg, result>>

PutStep(c) == CreateTemp(c) \/ CopyData(c) \/ Rename(c) \/ PutFails(c)
ListStep(c) == ReadRoot(c) \/ ReadDir(c) \/ VisitEntry(c) \/ EndWalk(c)

FailStep(c) == Refused(c) \/ WalkFails(c)

Next == \/ \E c \in Calls : PutStep(c) \/ Delete(c) \/ Get(c) \/ ListStep(c) \/ FailStep(c)
        \/ Crash

Spec == Init /\ [][Next]_vars

----------------------------------------------------------------------------
(* Every file lies in a directory that exists.                             *)
TypeOK ==
  /\ files \in UNION { [P -> Contents \cup {Partial}] : P \in SUBSET Paths }
  /\ dirs \subseteq Dirs
  /\ \A p \in DOMAIN files : Place(p) \in dirs
  /\ arg \in [Calls -> Operations]
  /\ pc \in [Calls -> Writing \cup {"ready", "walk", "done", "failed", "dropped"}]
  /\ dirsLeft \in [Calls -> SUBSET Dirs]
  /\ left \in [Calls -> SUBSET Paths]
  /\ found \in [Calls -> SUBSET Paths]
  /\ result \in [Calls -> SUBSET (Contents \cup {Partial})]
  /\ history \in [Calls -> [always : SUBSET Keys, ever : SUBSET Keys,
                            quiet : BOOLEAN, cut : BOOLEAN]]

(* "Written atomically": nobody can read half an object, and no read gets  *)
(* one, whatever Puts run, fail or die.                                    *)
ObjectsAreWhole ==
  /\ \A k \in Stored : files[k] # Partial
  /\ \A c \in Calls : Partial \notin result[c]

(* A temporary file outlives its Put only when the process died under it.  *)
LeftoversAreFromCrashes ==
  \A c \in DOMAIN files \cap Calls : pc[c] \in Writing \cup {"dropped"}

Scope(c, K) == { k \in K : Under(k, arg[c].prefix) }
Listed(c) == arg[c].op = "list" /\ pc[c] = "done"

(* A listing that met no vanished entry holds each key that was there all  *)
(* the time, and no key that was not there at some time of the walk.       *)
UncutListingIsComplete ==
  \A c \in Calls : Listed(c) /\ ~history[c].cut =>
    /\ Scope(c, history[c].always) \subseteq found[c]
    /\ found[c] \cap Keys \subseteq history[c].ever

(* What DeletePackage relies on: while nobody else writes or deletes under *)
(* the prefix, the listing is exact, whatever happens to other packages; it*)
(* may also name temporary files that a crash left in the directory.       *)
QuietListingIsExact ==
  \A c \in Calls : Listed(c) /\ history[c].quiet =>
    /\ found[c] \cap Keys = Scope(c, history[c].always)
    /\ found[c] \cap Keys = Scope(c, history[c].ever)
    /\ \A p \in found[c] \ Keys : pc[p] = "dropped"
=============================================================================
