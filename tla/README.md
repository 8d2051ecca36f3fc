# Verification of the gm-package-manager registry

TLA+ modules, TLC configurations and TLAPS proofs for the server of this
repository (`src/packages/server`): a private npm registry for GameMaker
packages, written in Go, that keeps packages in a blob store (a local directory
or an S3 bucket), accounts in SQLite and an audit trail in a JSONL file.

`tlc -config Registry_races.cfg MCRegistry.tla` runs a check (and so on for the
other modules), `tlapm RegistryProofs.tla`
checks the proofs.  `PROJECT.json` maps every definition to the lines it models.

## 1. The system

| Component | State it keeps | Operations | What is hard | What makes it correct |
|---|---|---|---|---|
| **Package handlers** `router/{publish,unpublish,pkg}.go` | none of their own: local variables of a request | publish, unpublish, GET manifest, GET tarball | reads take no lock; tarball and manifest are two writes; unpublish is one delete per key; requests die with the process | no lost update, no stale unpublish, every listed version installable, immutable releases |
| **Package store** `storage/storage.go` | a mutex per package (in process) | Get/Put manifest and tarball, DeletePackage, ListPackages, Lock | partial failure of DeletePackage; a lock that an early return keeps | handlers of a package exclude each other, everyone gets the lock |
| **Blob drivers** `blob/{local,s3}.go` | one object per key | Put, Get, Delete, List | temp file + rename against a directory walk; an S3 write whose answer is lost | each key changes atomically; a listing is complete |
| **Audit log, event feed** `audit/audit.go`, `identity/events.go` | JSONL lines, `events` rows | Record, RecordEvent | best effort, after the change itself | no record of what did not happen; gaps only after a failure |
| **Website reads** `router/{packages,search,web}.go` | none | list, search, sidebar, readme | manifests read one by one after a listing, without a lock | a package is shown iff it has a latest version |
| **Backups** `backup/{backup,scheduler}.go` | `backups/*.zip` | Create, List, Get, Delete, cron job with retention | runs beside publishes; jobs overlap; the job is not awaited at shutdown | an archive can be restored to a consistent registry; the newest `keep` are kept; manual ones are never pruned |
| **Restore** `backup/{backup,zip}.go` | a staged directory, `pending` | Restore, ApplyRestore | a sequence of renames and deletes with a crash anywhere | old or new data, recoverable at any point |
| **npm accounts** `auth/*.go`, `router/{login,auth}.go` | users, tokens, failure counters | Login (with sign-up), Verify, delay | slow password hash between reads and writes; row ids are reused after a delete | a token belongs to the account it was issued to; a delay never overflows |
| **Identities and sessions** `identity/*.go`, `router/{webauth,account}.go` | identities, sessions, OAuth states | sign-up, link, unlink, delete account, logout, states | several handlers on one account; check-then-act in SQLite transactions; callbacks replayed | never an account without a login method; a state is used once; nothing of a deleted account is left |
| **Access rules** `access/access.go` | none | Allow, glob matching | first match wins; two matchers that differ in letter case | agreement with a reference definition |
| **Life cycle** `cmd/main/main.go` | — | start, graceful shutdown | 5 s limit, then the process exits under running handlers | what survives a kill is consistent |
| Web client, nginx, CI | — | — | no registry state | not modelled |

Interaction: HTTP handlers call the store under the package lock and the
account services without it; the backup service reads and writes the same blob
store and the same database from a cron goroutine; nothing tells handlers and
backups apart except the keys they touch.

## 2. Modules

| Module | What it is |
|---|---|
| `Packument` | the manifest document and the pure functions publish applies to it: revision, merge, dist-tags |
| `Registry` | publish, unpublish, GET manifest and GET tarball as concurrent requests over one package: its stored keys, its lock, the requests' local variables, event rows and audit lines; failing calls and crashes |
| `RegistryProperties` | the type invariant, safety, action and liveness properties of `Registry` |
| `AtomicRegistry` | the promise: publish and unpublish are single steps between call and answer |
| `RegistryRefinement` | the mapping under which `Registry` implements `AtomicRegistry` |
| `LocalDriver` | the local blob driver file operation by file operation: concurrent Put, Get, Delete and List on a directory tree, errors of any of them and crashes; its properties |
| `AtomicStore` | the promise: a call on one object is a single step, or has no effect |
| `LocalDriverRefinement` | the mapping under which `LocalDriver` implements `AtomicStore` |
| `Archive` | one backup (`Service.Create` on the local backend) as a process beside `Registry`'s handlers, which it extends; what the zip then holds |
| `Retention` | the cron job: overlapping backups, `pruneAuto`, failures, cut listings, crashes |
| `Accounts` | npm logins, GitHub sign-in and linking, sessions, unlinking and account deletion as concurrent requests over the SQLite tables; its properties |
| `LoginDelay` | the limiter in front of the npm logins, composed with `Accounts` |
| `Website` | the package list and the search, composed with `LocalDriver`, whose calls go on while a page is read |
| `Restore` | Restore requests, the stop of the process and ApplyRestore, file operation by file operation, with errors, crashes and retries |
| `MCRegistry`, `MCLocalDriver`, `MCArchive`, `MCRetention`, `MCAccounts`, `MCRestore` | instances for TLC |
| `RegistryProofs`, `ReleaseProofs`, `ArchiveProofs`, `RetentionProofs`, `AccountsProofs`, `LoginDelayProofs`, `LocalDriverProofs`, `RestoreProofs` | theorems |

`Registry` treats a blob call as one step on one key.  `LocalDriver` is the
ground for that: it implements `AtomicStore`, whatever other calls run, fail or
die (`ImplementsAtomicStore`, `DriverIsAtomic`), for Put, Get and Delete, and `QuietListingIsExact` for the listing of DeletePackage.  That listing runs
under the package lock, so nobody else writes under its prefix, and entries of
other packages are skipped by name before they are looked up.  A backup's
listing has no such protection, so `Archive` walks the directory entry by entry
instead.  `Retention` takes from `LocalDriver` that a listing of `backups/` may
be cut short.

### How `Registry` corresponds to the code

One package is modelled: packages share no key, no mutex and no manifest.  A
*client* is one npm command (`npm publish`: one PUT; `npm unpublish` and
`npm install`: a GET of the manifest, then the DELETE of its revision or the GET
of a tarball); a retry is one more client, so any history of requests is a
behaviour of some set of clients.

- `manifest`, `tarballs` are the keys under `<pkg>/`; `lock` is the mutex
  `Store.Lock` returns locked; `view`, `doc`, `todo` are the handlers' local
  variables `existing`, `merged` and `objs`; `feed` and `audit` are the rows and
  lines written at the end.  `seen`, `status`, `got` are what the client knows.
- `pc` names the blob, database or file call the handler is about to make.
  Between two calls the code touches only local variables, so one action per
  call is as fine as the interleavings are.
- `PublishCheck` reads the manifest and answers 409; `PutTarball` stores the
  bytes and builds the document; `PutManifest` stores it; `RecordEvent` and
  `RecordAudit` follow; `Reply` answers and runs the deferred unlock (the answer
  is flushed when the handler has returned).  `UnpublishCheck` compares the
  revisions, `ListKeys` lists the package and `DeleteKey` deletes one key, in the
  order the listing is sorted (`Rank`).  `Refuse*` is every answer given before
  the lock: 403 (audited), and 400, 401, 413, 415, 422.  Reads that are denied
  (`guardRead`: 401, or 403 with an audit line) change nothing of the package and
  are left out.
- A blob call is atomic on its key.  With fault `"error"` it may fail and leave
  the key, with `"ambiguous"` it may fail and have changed it (S3 behind a lost
  answer; the local driver renames last and never does this).  With `"record"`
  a row or a line is not written.  `Crash` drops all requests and the lock and
  keeps the stored keys and logs.

Abstracted: the random revision suffix is the identity of the publish that drew
it (four random bytes never repeat in a run: the one probabilistic assumption).
Tarball bytes are identified with their sha1.  A version object carries its
file, its sha1 and its publish (`by`: the stamped author and the time entry).
`maintainers`, `time`, `_attachments` and the readme are not decided upon and
left out.

### How `LocalDriver` corresponds to the code

A call is a goroutine inside one `Put`, `Get`, `Delete` or `List`.  `CreateTemp`
is `MkdirAll` and `os.CreateTemp`, `CopyData` is `io.Copy` and `Close`, `Rename`
ends the Put; `PutFails` runs the deferred `Remove`.  `Refused` is an error before
there is an effect: of a Get, of a Delete, or of a Put that may have made its
directory but has no temporary file yet.  `ReadRoot`, `ReadDir` and
`VisitEntry` are `filepath.WalkDir`: a directory is read when the walk gets to it
and each entry is looked up again (`d.Info`) when its turn comes.  An entry that
has gone by then makes the walk return `ErrNotExist`, which `List` takes for a
root that does not exist yet: it returns what it has collected.  Any other error
of the walk (`WalkFails`) returns nothing.  `history` is no
code: it remembers which keys were there all the time, which at some time,
whether anything changed under the prefix and whether the walk was cut.
`Delete` and `Get` are one step each (unlink; an open file is read to its end).

### How `Archive` corresponds to the code

The steps are those of `Service.Create`: `SnapshotDatabase` (`VACUUM INTO`),
`CopyAudit`, `ReadDirectory` and `VisitEntry` (the walk), `ReadObject` (one
listed object, opened only now, into the zip), `Upload`.  A failed or killed
backup loses its temporary directory (`Discard`); `BackupFails` is every error
return, a listed object that is gone is one more.  The directory of the package
is walked; a handler that stores a file has a temporary file there (`Temps`).
The handlers of `Registry` interleave with all of it: there is no lock.  Left
out: temporary files that a crash left behind (they are archived as objects of
their own and change no other one).

### How `Retention` corresponds to the code

A job is one firing of the cron entry: robfig/cron starts each in a goroutine and
does not wait for the previous one.  `Store` ends `Create`, `ListBackups` reads
the listing and computes `autos[keep:]`, `Prune` deletes one archive.  The
ranking is that of the code, by the backend's modification time; `now` may stand
still between two uploads, as the seconds of S3 do.  Ties stay in key order as
long as `sort.Slice` is stable, which it is for up to `StableUpTo` elements (12,
where it sorts by insertion: a fact of the Go library and no promise of it) and
where nothing ties (`StablySorted`); otherwise the job cuts at any of the tied
archives (`Cuts`).  `Copies` are archives under other names, which only an
operator can have put there (nothing in the program calls `Create` with a name).
`misled` and `shuffled` are history: some job's listing was cut short, some job's
sort was not stable.

### How `Accounts` corresponds to the code

A request is one HTTP request; `pc` names the statement or transaction it is
about to run, and one action runs it.  SQLite serialises writers, and a
transaction that read a snapshot and then writes over a newer one fails
(`SQLITE_BUSY`), so a transaction is one step (`UnlinkIdentity`, `Signup`).
Check-then-insert across statements is not: `FindUser`/`CreateUser`,
`LoginLookup`/`Signup`, `ConnectLookup`/`HasProvider`/`InsertIdentity` are steps
of their own, and what the UNIQUE constraints and foreign keys refuse is a guard.
A request writes at most one token, one session or state and one event, so these
tables are functions from the request whose secret opens the row.  `Fail` is any
refusal or error at any step, a crash and an expired secret among them; a secret
is known to clients when its request was answered (`Known`).  `IsNextId` is what
SQLite does for `INTEGER PRIMARY KEY` without `AUTOINCREMENT`: the largest id plus
one, which gives the id of the newest account again after it was deleted.

`users[i].born`, `identities[e].by`, `acct[r].born` and `late` are history: which
request created an account, which one a request acts for, and which requests were
still running when their account went.  `Init` is the database after a first
GitHub sign-up: sessions come from GitHub sign-ins alone.  The instance has two
providers, although `New` registers only `github`: `LinkIdentity` and
`UnlinkIdentity` are written for several (README.md:77, the `Provider` interface),
and with a single one a link of another
provider account always ends in `ErrProviderLinked` and every unlink in
`ErrLastLoginMethod`.  Left out: `status` (no code
suspends a user), `revoked_at` (no code revokes a token), the read-only pages.

### How `LoginDelay` corresponds to the code

`fails` is `limiter.fails`; it is in memory, so a restart forgets it, and the
module is one run of the process.  `Arrive` reads the penalty and goes to sleep;
`GiveUp` is a `sleepContext` that ends with the client; `Refuse` is
`delays.fail(k)`, `WakeUp` goes on to `FindUser` of `Accounts`, and `Reset`
deletes the counter when the token is there.  Any sleeper may be refused, which
includes wrong passwords and the unknown names of `DISABLE_SIGNUP`.  Attempts
that overlap have all read their delay before any of them is counted, so
`DelayIsOwed` counts only the refusals that had been answered when an attempt
came in: ten attempts at once cost one delay.  All requests that are not npm
logins interleave as in `Accounts`.

### How `Website` corresponds to the code

`Drive` is a step of `LocalDriver`; a `List` of all keys may belong to a page.
When its walk has ended, `ReadManifest` reads the manifests found in the order of
their names (`latestVersion`): one that is gone is left out, one that cannot be
read is skipped (`failed`), the others are not affected.  `Answer` is the end of
the request, for the package list (`Every`) or for a query.  A listing that fails
or dies ends the request without a page (`Lost`).  What a field is
worth (`scorePackage`) is the parameter `Score`; `Before` and `Best` are the sort
and the limit of `handleSearch`, ties going by name.  A listing that was cut
short is finding 1, so the property looks at whole listings.  The side bar and
the readme are one read of one manifest, as an install in `Registry`.

### How `Restore` corresponds to the code

A file is known by where its data came from: the live server (`Live`) or the
archive of one request.  `Check`, `Stage` and `Accept` are `Service.Restore`,
whose check of `pending` and store of the pointer are two steps: two requests can
both be accepted, the later pointer wins and the directory of the first one
leaks.  `Write`, `Publish`, `Terminate`, `Close` and `Start` are the process around it:
`Write` is a commit, which ends with the database, and `Publish` a handler that
stores its objects, which may go on after the 5 s of the shutdown (main.go:120)
and so beside every step of `ApplyRestore`.  `Take` to `Finish` are
`ApplyRestore`, `swapLocalRoot` and `copyTree`: the log, the database and the
audit log are one operation each; the removal of `<root>.old`, the move aside and
the copy go entry by entry, and a copy can be interrupted half-way (`Partial`).
`NoTree` is the `return nil` of backup.go:215, for an archive without packages and
for every error of `os.Stat`.  `ApplyFails` is every error return, with the
deferred removal of what was staged; `Crash` is possible everywhere and leaves
what is on disk.

Database and audit log may each lie in the storage root (`InRoot`), and may each
be configured with the very path that `filepath.Join` builds for a root entry
(`Spelled`), which is what `preservedByRestore` compares (`Preserved`).  The
default database path is in the root and not spelled so; the default audit path
is in the root and spelled so.

`before`, `late`, `unseen` and `applied` are history: the packages that
`ApplyRestore` found, those published since it began, whether `os.Stat` missed a
staged tree, and the restore that ended without an error.

`main` registers no `OnShutdown` and never calls `ApplyRestore`; the tests of
the package do, in the order that backup.go:143 gives to main (stop, close the
database and the audit log, swap).  `Restore` models that order.  Consequences of
the code which the model shows:

- An archive without packages leaves the current tree.
- An error of `os.Stat` on the staged tree is a success as well, with the new
  database and audit log and the old packages.  `SuccessMeansRestored` states
  both exceptions, and that the packages are then as they were.
- A package that a late handler publishes during `ApplyRestore` may end as the
  handler's, as the archive's or as a part of both; `SuccessMeansRestored` says
  nothing of it (`late`), and everything of the others.
- After an error or a crash the database and the tree may be of different
  generations.
- A restore that is tried again first removes `<root>.old`, which is why
  `TreeIsRecoverable` reaches only up to the next `ApplyRestore`; what a late
  publish has replaced in the root is not looked for either.

Left out: unpublishes beside `ApplyRestore`.

## 3. Runs and what they show

| Run | Instance | Result |
|---|---|---|
| `registry_races` | 4 clients, crash | `DecisionIsCurrent`, `RevisionNamesManifest`, `InstallIsHonest`, `AnnouncedRemovalIsFinal`, `ReleasesAreImmutable`, `OnlyTheSeenIsRemoved` hold |
| `registry_faults` | 3 clients, error, ambiguous, crash | `TypeOK`, `Installable`, `AnnouncedReleaseStays`, `NoOrphanTarballs`, `TagsResolve`, `AuditGapIsAFailure` hold, and `Registry` implements `AtomicRegistry` |
| `registry_live` | 3 clients, error, record | every queued request is answered |
| `localdriver_calls` | 3 calls that may fail, crash, 2 directories, 3 keys, 2 queries, 1 hit | `TypeOK`, `LeftoversAreFromCrashes`, `UncutListingIsComplete`, `QuietListingIsExact`, `PageIsTrue` hold, and `LocalDriver` implements `AtomicStore` |
| `archive_races` | a backup that may fail, 3 clients, crash | `ArchiveTypeOK`, `ArchivedRecordsHaveReleases`, `UncutArchiveHoldsReleases` hold |
| `archive_cut` | a backup, 3 clients | **violated**: a rename under the walk leaves the package out of the archive |
| `archive_torn` | a backup, 3 clients | **violated**: the archived manifest lists a version whose tarball is not archived |
| `retention_faults` | 4 jobs, keep 2, sorts of more than 3 unstable, all faults | `TypeOK`, `NewestAreKept`, `CopiesStay`, `PrunedDown`, `PruningFollowsSuccess` hold |
| `accounts_races` | 4 requests after the sign-up, 3 provider accounts of 2 providers, 2 names | `TypeOK`, `LoginsAreUnique`, `EveryAccountCanBeEntered`, `RowsAreTheirOwn`, `PasswordOpensAccount`, `StatesAreUsedOnce`, `DelayIsOwed` hold |
| `accounts_reuse` | 3 requests after the sign-up | **violated**: a deletion request deletes an account whose name it did not confirm |
| `restore_faults` | 3 restores, 2 packages, clean paths in the root, publishes at any time, error, crash | `TypeOK`, `LogBelongsToDatabase`, `KeptFilesSurvive`, `TreeIsRecoverable`, `SuccessMeansRestored` hold |
| `restore_layout` | the same, no fault, the database path as the default spells it | **violated**: a restore that succeeds removes the database it has just restored |

Bounds.  Four clients are the fewest for the hardest race, the revision number
that repeats: publish, unpublish, publish, and an unpublish that looked at the
first manifest.  Two versions, with the first in two contents, give conflicts,
overwritten orphans and a second, untagged-latest release.  One tarball sorts
before `package.json` and one after, so an interrupted unpublish leaves a
manifest without a tarball and a tarball without a manifest.  A client runs one
command, so there is nothing else to bound.  Clients are symmetric: no formula
tells them apart (the liveness run uses no symmetry).  When all commands have
ended nothing can happen, so deadlock is not an error; that nobody hangs on the
lock is `RequestsAreAnswered`.

Three driver calls are a List or Get and two writers (`OneReaderSpec`: calls that
only read cannot tell whether others do; the theorems are about any calls): enough for a key to vanish and to
come back under one walk, and for a walk to meet the temporary file of another
directory; two directories and a two-file package tell the walk of one package
from the walk of all.  Three clients beside a backup are a release that is there
before it, and two commands (publish, unpublish) that change the package under
it; installs change nothing and are left out (`WritersInit`).  Four jobs with two
archives to keep let two overlapping jobs prune two archives each; two time
stamps make ties and late uploads.  `StableUpTo` is 3 there for the 12 of the Go
library, so that sorts of four archives are unstable and those of three are not.

Four requests after a sign-up are two OAuth starts and their two callbacks: the
fewest with which one account links two accounts of one provider at once.  Three
suffice for an id that is used again: two deletions and a new login.  `MaxId` is
the number of requests, so it refuses nothing; one password is enough, since a
wrong one changes no table.  A request ends, so there is no deadlock to check.
The same four requests are four login attempts for two names and two addresses:
after two refusals the third one doubles and the fourth one would pass the cap,
which is three times the base there.  `MCAccounts` also compares the penalty
with its closed form for up to 70 failures, with the defaults of the code
(250 ms and 8 s) in `accounts_reuse`.

The three restores have archives with one package and the audit log, with the
other package and without an audit log, and without packages: every branch of
`ApplyRestore`, the stale entries one archive leaves for another, and two
requests that pass the check together.  Each may be interrupted anywhere and the
process started again, so every retry is of another archive.  A page has two
packages and one hit to show, so that a search has to leave one out.  Nothing
bounds restarts, writes or publishes: the states are finite without it.

Fairness.  `HandlerStep` is weakly fair: every call a handler makes returns, and
Go runs every goroutine.  `LockPackage` is strongly fair: `sync.Mutex` hands the
lock to a waiter that has starved for 1 ms.  Nothing is assumed of clients or of
crashes.

`TagsResolve` and `Installable` assume what npm does and the handlers do not
enforce: a tarball is named after its version and a publish tags its own version
(`FileNamesVersion`, `TagsOwnVersion`).  A client that names the attachments of two
versions alike overwrites the bytes of the first (`publish.go:119` takes the
stored name from the request), and one that tags a version that is not there is
believed; no promise of the repository covers either client.

### Findings

1. `local.go:112` A listing that meets a vanished entry is cut short and
   returned without an error: the package list and the search lose packages
   (`UncutListingIsComplete` holds only of walks that met no such entry), and
   a backup (`archive_cut`) is stored and reported as created without them.
   README.md:71 promises "the whole package storage".
2. `backup.go:251` The keys are listed once and read later, without the package
   lock: a publish in between leaves a manifest in the archive that lists a
   version whose tarball is not in it (`archive_torn`).
3. `identities.go:231` An account is deleted by row id alone, and row ids are used
   again: of two deletions that were verified together, the second one deletes the
   account that signed up in between (`accounts_reuse`).  Logins, links and token
   issues that were under way when their account went write their row to the next
   account in the same way, which is why `RowsAreTheirOwn` leaves `late` requests
   out.  (`users.id` is an `INTEGER PRIMARY KEY` without `AUTOINCREMENT`,
   00002_unified_identity.sql:6.)
4. `zip.go:153` `preservedByRestore` compares `storage/metadata.db`, as
   `filepath.Join` builds it, with the configured path, `./storage/metadata.db` by
   default: the database that was just restored is moved to `<root>.old` and
   removed with it (`restore_layout`).  The comment at zip.go:114 says that it
   survives.  With a clean path, or outside the root, it does (`KeptFilesStay`).
   The audit path is compared in the same way.  As `main` never calls
   `ApplyRestore`, this is of the package as its tests drive it.

Observations that no run checks: with more than 12 automatic archives and equal
times at the boundary, two overlapping jobs may sort the ties differently and
between them delete all of the tied ones, so that fewer than `keep` are left
(`NewestAreKept` fails without its `~shuffled`); retention ranks by the time of the upload
(`scheduler.go:62`), so a slow job's archive, the oldest data, is kept while a
later backup is pruned; the random suffix of a revision is what makes the
revision check of unpublish safe, since the number starts again from 1.

A known gap, stated by `AuditGapIsAFailure`: the audit line follows the manifest
in a separate step (`publish.go:224`), so a crash or an ambiguous S3 error in
between leaves it out for ever, since the retry is answered 409.

## 4. Proofs

Every property of a passing run is a theorem but `RequestsAreAnswered`, which is
liveness under fairness and model-checked only; what of it is safety is
`LockIsReturned`.  The findings are violations, so no theorem states those
properties; their counterparts, what still holds, are theorems:
`ListingComplete` and `UncutArchivesHold` (1), `QuietArchivesInstall` (2),
`DeletionsConfirmed` (3) and `KeptFilesStay` (4).  The theorems hold for every
value of the constants under the named `ASSUME`s, which TLC evaluates in every
run.  Where a theorem has a hypothesis of its own, it is named below.

`RegistryProofs` is for every set of clients (also infinite), versions,
files, bodies, every key order and every set of faults.  Its first section has
the lemmas about the operators of `Packument`.

- `TypeCorrect`, `Spec => []TypeOK`.  `TypeOK` alone is not inductive: that
  `PutTarball` builds a manifest needs the client at that point to be a publish,
  and that a record is typed needs it not to be an install (`RoleInv`).
- `MutualExclusion`, from `LockInv`: a handler is between lock and unlock iff
  `lock` names it.  `ClientsMove` sums up what any step does to `pc` and `lock`.
- `DecisionsAreCurrent`, `Spec => []DecisionIsCurrent`: only the lock holder
  changes the manifest (`ManifestChanges`), and a handler comes to a deciding
  point from its own check (`DecidingComesFrom`).
- `RevisionsNameManifests`, `Spec => []RevisionNamesManifest`: every manifest
  that is stored, was served or was read is the document built by the publish
  its suffix names (`OriginInv`), and a document is built once (`DraftInv`).

`ReleaseProofs` follows a release through its life, on these invariants (`CoreInv`)
and a few of its own.  `CheckInv` says what a handler past its check knows (an
unpublish holds the manifest its client saw), `PhaseInv` and `MatureInv` that what
has been stored or served comes from publishes that got that far, `SourceInv` and
`TagInv` what a built document contains.

- `ReleasesStay`: `ReleasesAreImmutable`.  `TagsAlwaysResolve`: `TagsResolve`,
  for bodies with `TagsOwnVersion`.
- `ListedIsInstallable`: `Installable`, for `FileNamesVersion`; `StoredInv` adds
  that a publish about to store its manifest has its tarball stored.  From it
  `RemovalsAreSeen` (`OnlyTheSeenIsRemoved`) and `InstallsAreHonest`
  (`InstallIsHonest`): `SeenStands`, that a release a client has seen is listed or
  withdrawn, is what carries a promise from the manifest read to the tarball read.
- `AnnouncementsHold` and `RemovalsAreFinal`: a removal is final because a
  publisher that read the manifest before cannot write it after (`DecisionIsCurrent`)
  and a later one has another `by` (`RemovedInv`).
- `OnlyFailuresLeaveTarballs` (`NoOrphanTarballs`) and `AuditGaps`
  (`AuditGapIsAFailure`), each with the step at which a failure may leave
  something behind.
- `RegistryIsAtomic`, `Spec => ImplementsAtomicRegistry`, the refinement.  A
  publish takes effect when its manifest is stored, an unpublish when it deletes
  `package.json`, which is still there to be deleted (`KeysInv`: what a deletion
  has still to delete is what is stored).
  `StepImplements` has one case per handler action (`PublishImplements`,
  `RemovalImplements`, ...), each a step of the abstract operation or a stutter;
  the abstract state shows releases only, so that two documents with the same
  releases must be the same document (`ChainInv`: each document lists its own
  publish, and of the others only those with a lower revision).

- `LockIsReturned`: what a holder of the lock has left to do (`Effort`) is a
  natural number, 0 only outside the lock; each of its steps makes it smaller and
  nobody else's makes it larger.  It counts the keys that are stored, which only
  the holder changes; that there are finitely many, and that a deletion that goes
  on has a least one left, is `BusyInv`.  With the fairness of `HandlerStep`
  every lock is given back; that everyone then gets it is left to `registry_live`.

`ArchiveProofs` adds the backup.  `BackupOnlyReads` is that its steps change
nothing of the handlers, so all their invariants hold beside it.  `WalkInv` types
the walk; `ArchiveTyped` follows.  `UncutArchivesHold` needs `HoldInv`: a release
that was listed when the walk began is withdrawn, or it is still listed and both
its keys are ahead of the walk or in the zip with the right contents.
`RecordsHaveReleases` needs `RecordsInv`: a publish in a copied log was announced,
and from then on is listed or withdrawn (`AnnouncedInv`).
`QuietArchivesInstall`, for `FileNamesVersion`: an uncut archive with the manifest
that stood when the walk began has the bytes of every version listed, which says
that only the later read of the manifest makes finding 2.  `BackupsOnlyRead`
carries the refinement, immutability and the announcements over to the
composition.

`RetentionProofs` proves, for every number of jobs, every `BACKUP_KEEP`, every
set of copies, every clock, every bound on stable sorts and every set of faults:

- `RetentionTyped`, `Spec => []TypeOK`.
- `RetentionKeepsNewest`, `Spec => []NewestAreKept`.  `NewestAreKept` is not
  inductive: a job deletes what it computed from an old listing.  `KeepInv` adds
  that, while all sorts have been stable, whatever a job is *about* to delete has
  `Keep` newer archives in the store.  Deleting one of those newer archives does
  not break it, since that one has itself `Keep` newer ones and `Newer` is
  transitive (`NewerIsStrict`); a late upload only adds archives
  (`StoringKeepsEnough`); a cut listing is a subset of the store, and an excess of
  a subset is an excess of the whole (`MoreAreEnough`).
- `CopiesAreKept` and `PruningIsEarned`, with `PhaseInv` (a job has a time stamp
  iff it has stored its archive).
- `PrunesDown`, `Spec => []PrunedDown`, for any order of ties: when no listing was
  cut and no job is between its firing and its listing, at most `Keep` archives
  are in nobody's `doomed` (`Spared`).  A job that lists the whole store leaves at
  most `Keep` (`CutLeavesKeep`: a cut spares as many as the stable one, and that
  is at most `Keep`), and nothing that is spared later is new (`FewerAreSpared`).

`AccountsProofs` proves, for every set of requests, names and passwords, every
assignment of finitely many provider accounts to providers and every bound on ids:

- `AccountsTyped`, `Spec => []TypeOK`, with the references between the tables;
  it needs that a login that creates its user has a password (`LoginInv`).
- `StatesUsedOnce`, `Spec => []StatesAreUsedOnce`: a state that is in the table is
  in nobody's hands and its request is over, so it is not issued again
  (`StateInv`).
- `LoginsUnique`, and from it `AccountsEnterable`,
  `Spec => []EveryAccountCanBeEntered`: `UnlinkIdentity` counts identities, and
  that the count decides whether one is left needs that no two are of the same
  provider (`UnlinkLeavesOne`).
- `RowsOwned`, `Spec => []RowsAreTheirOwn`.  It is not inductive: a running
  request may write a row at any time, so `ActingInv` says that what it acts for
  is still the account it meant, and `RowPhaseInv` that it has written nothing
  before it knew.  Only a deletion takes an account away (`AccountsStay`), and it
  makes `late` whoever acts for it (`DeletionTakesRows`); every other step writes
  only rows of the acting account (`NextOwnRows`, `OwnWhileActing`).
- `PasswordOpens`, `Spec => []PasswordOpensAccount`: while a login is about to
  issue its token the account it found, or created, still has that name and
  password (`IssuingInv`), because no step changes either of an account that stays
  (`AccountsStay`).
- `DeletionsConfirmed`, `Spec => DeletionsAreConfirmed`: an account is deleted by a
  request whose body confirmed its name, or by a `late` one, which was running
  when its own account went.  `ConfirmingInv`, that a deletion which is not late
  still means the account of that name, needs `ActingInv`: a deletion makes
  whoever acts for the same account late (`DeletionConfirms`).

`LoginDelayProofs` shows that the composition implements `Accounts`
(`DelayedIsAccounts`), hence keeps its invariants, the passwords among them
(`DelayedKeepsAccounts`).

- `DelaysCounted`: each attempt sleeps the penalty for exactly the refusals that
  count (`Counted`: a counter is the number of refusals since the last success).
- `DelaysOwed`, `DelayedSpec => []DelayIsOwed`: that penalty is
  `Base * 2^(n - 1)`, at most `MaxDelay`.  The code doubles and caps in a loop, and
  the library's induction theorems are out of the provers' reach, so the two
  recursive functions, `Doubled` and `TwoTo`, are reasoned about through the
  least natural number at which they would differ (`LeastNatural`): a recursive
  definition has a beginning of every length (`BeginningsExist`), all beginnings
  agree, and their union satisfies the equation (`StepsDefine`, `DoubledDef`,
  `TwoToDef`); `DoubledIsPower` compares them.  Assumed: `Base <= MaxDelay`, as
  `auth.go:48` and its defaults have it (a base above the cap would be slept
  uncapped once).  `MCAccounts` compares `TwoTo` with TLC's power.

`LocalDriverProofs` is for all calls, keys, directories and contents.

- `DriverTyped`, `ObjectsStayWhole` (no object and no read is half a file) and
  `LeftoversExplained` need that a Put that is under way has its temporary file,
  and all of its data in it before the rename (`WriteInv`).
- `DriverIsAtomic`, `Spec => ImplementsAtomicStore`, the refinement: a Put takes
  effect at its rename; `StoresImplement` has the writers, `LooksImplement` the
  reads and walks, `CrashImplements` the crash, which leaves a Put that was not
  renamed without effect.
- `ListingComplete` and `ListingExact` come from `ListInv`, whose parts are what
  holds before the walk (`Fresh`), during it (`Walking`: what was there all the
  time is found or still ahead; `Undisturbed`, when nobody else writes under the
  prefix) and after it (`Returned`).
- `PagesTrue`, `PagedSpec => []PageIsTrue`, for every score and limit.  `PagesInv`
  follows a page from its listing to its answer: what it has read was in the
  store while it read, and what was there unchanged is read, failed or still
  ahead.  That the hits shown are the best, and `Limit` of them when one is left
  out, is `BestAreFirst`, by counting what comes before a hit (`BeforeIsOrder`:
  the sort is a strict total order).
- `PagesOnlyRead` and `StoreUnderPages` carry all of it over to the composition
  with the website, which the run checks.

`RestoreProofs` is for every set of restores, packages, archives and faults, with
publishes at any time.  `RestoreTyped` needs `StagedInv` (what is staged is whole
until it is taken), `LogBelongs` needs `LogInv` (no log from its removal to the
next start), `TreeRecoverable` needs `FoundInv` (where what was found is, phase by
phase, unless it was published again).  `KeptFilesStay` (`KeptInv`) and
`SuccessRestores` assume `Layout`, that what lies in the root has a clean path
(`InRoot \subseteq Spelled`); `restore_layout` shows what happens otherwise.
`SuccessRestores` needs `SwapInv`, how far the swap has come for every package
that no late handler touched, and `OverInv`: a success, or an unseen tree, ends
the process until the next start.

## 5. What is left out, and why

- Access rules (`access/access.go`) and names (path splitting, validation,
  redirects): pure functions of fixed rules or of strings, without state or
  order; the table tests reach what a bounded check would.  What a denied or
  malformed request does, an audit line or nothing, is in `Registry` and `Accounts`.
- `scorePackage`, the readme and the side bar: formatting of one manifest.
- `List`, `Get` and `Delete` of backups, and `Create` with a name: no caller in
  the program.  The zip format and the checks of its paths: a stage that fails.
- Migrations, pragmas and the SQL dialect, HTTP parsing, the S3 protocol below the
  `blob.FS` calls, argon2, GitHub's side of OAuth: external, taken as what the
  code expects of them.
- The audit lines of account operations, profile and feed pages: written or read
  once, nothing decides upon them.
- Configuration, the web client and the deployment files: no registry state.
