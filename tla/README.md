# A TLA+ model of ryu-checks

`ryu-checks` verifies web projects: it fetches or browses each project's tests,
keeps the results and the browser's evidence (screenshots, DOM snapshots) on the
node, and repeats lists of projects on a schedule. This directory models its
core in TLA+, model-checks it with TLC on small instances and proves theorems
about it with TLAPS. Paths below are relative to the repository.

## 1. The system

| Component | State | Operations | Hard behaviour |
|---|---|---|---|
| **Store** (`backend/src/store.rs`, `model.rs`) | one `StoreState` behind an `RwLock`; `checks.json`, rewritten whole at every change | create and delete project, save run, exploration and agent run, heal a failure, create and edit a list, schedules | change in memory first, then the write, which may fail; kill between any two steps; several lock acquisitions per request |
| **Evidence** (`evidence.rs`, `prune_evidence` in `store.rs`) | two files per evidence id, availability flags in the records | write, prune to 50 runs and 512 MiB, sweep after 24 h, remove, the pending guard | files and records change at different times; nothing records a removal still to do |
| **Run orchestration** (`service.rs`, `runner.rs`) | a request's snapshot, its run under construction | project, list and single-test runs, explorations | the store changes at every await; a dropped future; a later project of a list is gone |
| **Schedules** (`main.rs`, `service.rs`, `store.rs`, `api.rs`, `authorization.rs`) | schedule rows with the next run and an execution proof; the loop's batch | tick, check, recheck, run, record; create, enable, pause, delete, run by hand | a batch is minutes old when its last schedule is reached; Core denies, is slow or is gone; a restart |
| **At-rest sealing** (`store.rs`, `evidence.rs`, `crates/core/crypto/src/plugin_keys`, `sealed_file.rs`) | the record `checks.seal.json`, the form of the state and of each file, the key states of the processes | open and classify, record the key, seal the state, seal evidence in place | starts with and without a key, key replacements, a kill at every step, a second process |
| **Client modes** (`main.rs`) | a store opened when the client started | go through the sidecar if it answers, else use the own store | two processes over one directory |
| **Sidecar handoff** (`sidecar_link.rs`, `crates/core/sidecar-runtime/src/handoff.rs`) | the handoff file | publish, withdraw, connect | a stale file, a port that another program took |
| **Execution authorization** (`authorization.rs`) | none (Core's) | issue, check | refusal, timeout, revocation |
| **HTTP API** (`api.rs`) | none | one or a few store calls per route | several calls where one lock would be needed |
| **Browser lane** (`browser.rs`) | none | one capture | slow or absent; its result is an input of a run |
| **Master key custody** (`crypto/src/custody.rs`, `lib.rs`) | keychain slot, key file, legacy key, recorded check value, retired keys and their index | resolve at a start, adopt, import, retire | the key may be in several places, each of them partial after a kill; a keychain that cannot be written or reached; two first starts |
| **Sealed values** (`content.rs`, `sealed.rs`, `secret_file.rs`, `blind_index.rs`, `plugin_keys/store_seal.rs`, ciphers of `lib.rs`, `process_keys.rs`) | the stored forms; the store's recorded key | seal, open, seal again, look up by token | six schemes that must not be mistaken for each other or for plaintext; values from before the key, from an old key, from a newer build |
| **Sealed files and logs** (`sealed_file.rs`, `sealed_log.rs`) | a write-once file of chunks; an append-only log | write, read a range, publish; append, sync, reopen, compact | power failures that tear the tail, a failed append, half a file |
| **Vector index** (`vector_index.rs`) | partitions in memory, one byte budget for all indexes, totals, evicted keys | hydrate, upsert, remove, drop, search | a hydration builds outside the lock; eviction; a store and a cache that must agree |
| **SQLite migration** (`content_sqlite.rs`, `plugin_keys/sqlite.rs`, `sql.rs`) | a cursor per column, the store's record, plaintext left on free pages and in the WAL | check the key, seal in batches, scrub, compact | a kill at every step, a key replacement in the middle, a keyless writer beside it, a reader that blocks the checkpoint |
| UI, release scripts, runtime helpers | none on the node | | |

How they meet: an API request, the schedule loop and a client in direct mode all
go through `service.rs` to the same `Store`; the store calls `evidence.rs` with
the lock held; both write through the sealing state the process got when it
opened the directory; Core hands out keys and execution proofs and is outside
the repository.

What makes each correct, in the order of importance used below:

1. *Store and evidence*: records and files agree after any interleaving, failed
   write and kill; what was acknowledged is not lost; a deleted project leaves
   nothing behind; results are history; tenants do not reach each other.
2. *Sealing*: nothing unreadable is overwritten, nothing acknowledged is lost,
   nothing sealed becomes plaintext again, a store that holds sealed data is
   always recognised as such. The key that sealed data stays in custody; a value
   is read as it was written or refused; what a migration leaves to erase is on
   record until it is erased; half a file never opens.
3. *Schedules*: a pause and a deletion stick, no run without permission, a due
   time is served, and served once.

## 2. Modules

| Module | Models | Role |
|---|---|---|
| `StoreState` | the value of `checks.json` and the pure changes of the Store's operations | shared by every module that has a store |
| `ChecksStore` | one process: memory, disk, evidence directory, requests in flight, failed writes, kills | core; extends `StoreState` |
| `RunLedger` | what `checks.json` promises over the life of a data directory | abstract specification, implemented by `ChecksStore` |
| `SharedStore` | several processes over one directory: sidecars that overlap, clients with images of their own, the handoff | composition of stores, from `StoreState` |
| `SealedStore` | keys, record, state and evidence files over many process lives, sidecar and clients | sealing of the Checks directory |
| `Scheduler` | the loop, its check of a schedule, and the schedule requests | schedules |
| `Custody` | the master key: ladder, record, retired keys, commands | keys |
| `SqliteSeal` | one SQLite store: migration, record, erasing owed, keyless writers | sealing of databases |
| `Envelopes`, `SealedValues` | the ciphers and their stored forms; a store of such values over the life of its keys | sealing of values |
| `SealedFile`, `SealedLog` | the chunk format; a log, its crashes and its compaction into a sealed file | sealing of files |
| `VectorIndex` | partitions, budget, hydration, eviction | cache of sealed embeddings |
| `ChecksStore_proofs`, `SharedStore_proofs`, `SealedStore_proofs`, `Scheduler_proofs`, `SqliteSeal_proofs`, `Custody_proofs`, `SealedValues_proofs`, `SealedLog_proofs` | lemmas and theorems | proofs |
| `MC*.tla`, `MC*.cfg` | instances for TLC | checking |

### StoreState and ChecksStore

A vector of records is a function from ids; `saves` and a run's `at` keep the
order of the runs vector (newest first), the only order a property needs. One
evidence item exists per executed test of a run, so `<<run, test>>` is the
evidence id and `<<run, test, kind>>` a file. File size is one unit. The mutable
state of a request is `flight[w]`: where it stands, its caller, its project, the
run it builds and the jobs a list run has left.

Every action is one stretch of code between two points where another task may
run: an await, or taking the lock. `persist_state` is `Persist(st, ok)`: memory
already has the change, and `ok = FALSE` leaves the disk as it was (bound
`MaxFaults`). A successful `save_run` or `delete_project_for` holds the lock
while it removes files, so those two continue as `cleanup` and `FinishCleanup`;
`CrashAndReopen` (bound `MaxCrashes`) may strike in between and leave any part
of the removal done. `CrashAndReopen` does not run the pending guards.

| Action | Code |
|---|---|
| `CreateProject`, `DeleteProject`, `SaveAgentRun`, `Heal`, `UpdateList` | the `Store` methods of those names |
| `CreateListSnapshot`, `CreateListInsert` | `create_list_for`: its two lock acquisitions |
| `StartProjectRun`, `StartListRun`, `StartTestRun`, `StartExplore` | the handlers in `api.rs` and `service.rs` up to their first await |
| `NextJob`, `ExploreFails`, `ExploreSucceeds`, `CaptureTest`, `SaveRun`, `ListRunDone` | `run_project_with_tests_for` and the loops of `run_list_for` |
| `AbortRun` | an error of `runner::run_project`, or its future dropped: `PendingEvidence` |
| `Age` | a day passes: files become old enough for the sweep |

Between `PendingEvidence::keep` and `save_run_for` there is no await, so a run
that is complete is saved or refused, never aborted.

Abstracted: names, text, counters, coverage and dates; what an assertion looks
at (a test passes or has a failure bundle); `update_test`, which changes only
such fields. `replace_state` is not called by the program.

### SharedStore

Sidecars and clients over one `checks.json`, one evidence directory, one port and
one handoff file. Each process keeps the image it read at `Start` and every save
replaces the file by that image; pruning, deletion and the sweep act on the shared
directory by the process's own image. `Start`, `Bind`, `Publish`, `Shutdown`,
`WithdrawRead`, `WithdrawRemove` are the lines of `main.rs` `run` in their order:
the schedule loop runs from `Start` on, the port is taken at `Bind` (a failure ends
the process), the listener closes at `Shutdown`, before the handoff is withdrawn
in two steps. A client uses its own image when no sidecar answers
(`NoSidecarAnswers`; with `SlowProbe` also when the probe times out). A process is
one life, so a restart is another process, and its name stands for its token.
`met` is history: which processes had the store open together.

All processes are in the same sealing state: a directory never sealed, or one
whose key all of them hold. (A client without the key of a sealed directory
refuses to write, which is `SealedStore`'s subject.) Writes of `checks.json`
succeed, a process executes one run at a time (`ChecksStore` has failed writes and
concurrent requests), and all sidecars use one port (`RYU_CHECKS_PORT` could differ
between them). A sidecar may start a run whenever it has the store open, as its
schedule loop does. Its runs do not delay `WithdrawRead`: a request that is answered
first is one that ended, and a run of the loop is dropped with the process.

### SealedStore

`checks.json` is a form (absent, plaintext, sealed under a key) and the set of
updates it holds; an evidence file is absent, plaintext or sealed. `Start` gives a
process what Core's environment gives it: the delivered subkey with its retired
predecessors, `RYU_MASTER_KEY` (the same subkey, no predecessors:
`process_master_key`), or nothing. `ReadRecord`, `ReadState`, `WriteRecord`,
`Settle`, then `Check` and `Replace` are `Store::open_with_keys` cut at every
access to the directory; `BeginRun`, `WriteEvidence`, `Save`, `RemoveEvidence`
are a run and its save; `SealCopy` and `SealReplace` the background sealing of
legacy evidence; `Rotate` a replaced master key (up to `MAX_RETIRED_KEYS`);
`Kill` ends a process anywhere. A rename is atomic, so a file is old or new.
All processes are run by Core; standalone roots are left to a module of their
own. `overlapped` is history: two processes had the directory open together.

### RunLedger

A project is unborn, pending (only memory has it, because the write failed), live,
and then dead for good; a run enters the ledger once, with its project and the
outcomes of its tests, and leaves with its project; an open failure may be healed.
`ChecksStore` implements it with `status` and `ledger` read off `checks.json`
(`Ledger`, `LedgerKept`): most steps are stutters, those that persist are
`Replaced`, and a failed creation or the kill after it is `Unwritten`.

### Custody

A key stands for its check value. The folder has a keychain slot, a key file, a
legacy key, the record and the retired keys: an index that names the custody of
each copy, and the copies. `Start` begins a process with or without an override
(`RYU_MASTER_KEY`) and with the keychain as it finds it; `Ladder...`, `Evidence`,
`Store`, `Verify`, `Publish` are `resolve` in its order, `CompareMatches` to
`WriteRecord` the check against the record and, on a mismatch, the recovery from
every other place. `Adopt`, `Import`, `Retire` are the commands, cut at every write.
Starts overlap; commands run alone, as they ask for. What the hosts' keychains do
is external: one answers, one can only be read, one is away. Left out: corrupt
slots, the marker of the data format, evidence of other stores, installing file
custody, copies between profiles.

### SqliteSeal

A cell is absent, plaintext, sealed under a key, or an envelope nobody can open.
`Start` is the key check; the `Pending...` actions settle what an earlier start
left to erase; `Reopen`, `StartItem`, `SealBatch`, `FinishItem` the migration of one
column after another, a batch per transaction; `Finish...` the truncation of the
WAL, the zeroing of free pages and the compaction, each of which may be blocked or
out of room. `residue` says where replaced plaintext still is. `ClientRefresh` and
`ClientWrite` are a keyless writer, which looks at the record and then writes.
`tainted` is history: such a writer left plaintext behind a mark, which no record
promises to erase.

### Envelopes and SealedValues

`Envelopes` has the ciphers as operators: a string is the marks it begins with and
a word, or the body of an envelope, which opens under exactly the key and the
associated data it was made from. `SealedValues` is a store of one of six sorts of
values (content text and blobs, fields, config secrets, secret files, tenant
values). `Start` gives a process all keys, an old one, none, a broken delivery or
another plugin's; `Write`, `ReadToWrite` with `WriteBack`, `Migrate` are the callers;
`Adopt` adds or replaces the master key; `Misplace`, `Confuse`, `Upgrade` bring a
record's form from another record, another scheme, a newer build.

### SealedFile and SealedLog

A byte of plaintext is a value of its own and a sealed chunk is longer by its tag.
`SealedFile` has the writer and the reader over any prefix of the bytes written.
`SealedLog` keeps the bytes behind the header as cells: the records and what a kill,
a failed write or a power failure left (part of a frame, zeros, garbage).
`PowerFails` cuts everything not yet synced anywhere. `Compact` to `DeleteLog` are
`compact_to_sealed_file` and its caller, cut at every file operation. `glued` is
history: a frame was written behind the rest of a failed one.

### VectorIndex

`partitions`, `used`, `totals` and `evicted` are the code's; `recent` orders the
partitions by their last use, with the place a hydration has taken before it
installs. A hydration reads `rows`, the store it hydrates from, without the lock
(`Build`), and installs later (`Install`); callers write a row and tell the index
(`Upsert`, `RemoveVector`, `Drop`). `raced` and `uncounted` are history: whose rows
were written meanwhile, and whether the total was told.

### Scheduler

`mem` and `disk` hold the schedule rows, `loop` the batch, the schedule in hand
and its proof. `TakeItem` (with `FirstStep`), `CheckProof`, `Recheck`, `RunEnds`
and `RecordRun` are one turn of `schedule_loop` with `run_scheduled_list`,
cut at its awaits; the actions of `Workers` are the API requests, enabling in its
three steps (issue, authorize, activate). Time is reduced to whether
`next_run_at` has passed (`BecomesDue`). `minted`, `revoked`, `quiet`, `gone`,
`ran` and `loop.before` are history for the properties. What a list run does to
the store is `ChecksStore`'s subject; here it ends, well or not.

## 3. What is checked

The passing runs explore every reachable state of the instance.

| Run | Property | Says |
|---|---|---|
| `store_evidence` | `ClaimedFilesExist` | no record, in memory or in what a restart would load, claims a file that is gone |
| | `NothingStranded` | until a kill or a failed write no file outlives the claim on it |
| | `ClaimsWithinLimits` | claims stay within both retention limits |
| `store_records` | `TypeOK`, `RecordsHaveProjects` | no record outlives its project; links resolve |
| | `AckedRunsSurvive` | an acknowledged run is on disk until the deletion of its project is asked for |
| | `StatusWitnessed` | a test's status is backed by a stored result |
| | `LedgerKept` | `checks.json` implements `RunLedger`: nothing deleted comes back, no recorded run is lost or rewritten |
| `store_lists` | `TenantsIsolated` | neither lists nor the later jobs of a request cross tenants |
| `shared_processes` | `InFlightFilesKept` | no process takes the evidence of a run another is about to save |
| | `OnlyOverlapLosesRuns` | an acknowledged run is lost only to a process that overlapped its saver |
| | `OnlyOverlapLosesEvidence` | processes that follow one another, killed or not, leave no claim on a missing file |
| | `OnlyOverlapHidesSidecar` | a serving sidecar is found unless two overlapped |
| `seal_keys` | `RecordedBeforeSealed` | sealed data is always recorded first |
| | `AckedSavesSurvive` | an acknowledged save survives kills, key replacements and keyless starts |
| | `UnreadableKept` | a sealed state is replaced only by a process that can open it |
| | `LatePlaintextIsOpenedBefore` | plaintext evidence joins a sealed store only from a process that opened it before |
| | `DeliveredKeysServe` | a process with the retired keys is not refused |
| `schedule_safety` | `PausedAndDeletedStay` | acknowledged pauses and deletions stick |
| | `NoRunAfterPause` | no run starts off a stale batch |
| | `RunsAreAuthorized` | no run on a permission withdrawn before it was taken in hand |
| | `OncePerDueTime` | one execution per due time |
| `schedule_liveness` | `DueIsServed` | a due schedule is served or given up |
| `custody` | `KeptStaysKept` | no key that sealed data drops out of custody |
| | `ServingKeyIsKept` | what a process seals with is in custody |
| | `OpenedStaysOpened` | no step, and no kill after it, makes unreadable what a start could open |
| `sqlite_migration` | `ServedIsSealed` | a start that succeeds has sealed every value |
| | `ScrubDebtRecorded` | plaintext left on disk is on record until it is erased |
| | `UnreadableKept` | an envelope the process cannot open is not replaced |
| `sealed_values` | `ReadsOnlyItsOwn` | a value reads as it was written, where it was written, or is refused |
| | `StaysReadable` | who has all keys reads every value |
| | `LookupsAgree` | a token finds exactly the records that read as the word |
| | `AgainUntilCurrent` | sealing again is asked for exactly until the value is under the current key |
| | `SealedStaysSealed` | a sealed record does not become plaintext |
| `sealed_log` | `SyncedSurvive` | a synced record is read back, from the log or the file it was compacted into |
| | `Reopens` | after any crash the log opens again |
| | `WholeOrRefused` | a compacted file reads as the log did, and half a file does not open |
| `vector_index` | `WithinBudget` | the budget counts the vectors in memory exactly, and holds |
| | `RecallIsKnown` | memory has the store's rows, and what it lacks is counted |
| | `EvictionIsReported` | a partition that left memory by itself is reported |

Every module has a `TypeOK`. In `store_records` it is a property of its own and in
`seal_keys` it is proved; elsewhere it is a conjunct of one of the properties
above.

### Where the properties stop

The code does lose some things, and the properties name when. Each case below is
reachable in its module, and the property that excepts it shows that there is no
other.

* After a kill between "persist" and "remove", files whose flags are already
  cleared stay: no later prune and no sweep takes them until the project is deleted,
  although `evidence.rs:36` says the files of older runs are deleted
  (`NothingStranded`).
* A client that opened its store before the sidecar saved a run goes direct later;
  its save drops that run. An overlapping process saves an image from before a
  deletion and so claims files that are gone (`OnlyOverlap...`).
* A stopping sidecar compares the token, its successor publishes, and the stopping
  one removes the successor's handoff (`OnlyOverlapHidesSidecar`).
* A compat client checks for a sealed store, the sidecar seals, and the client's
  rename puts plaintext over the sealed state, which the comment at
  `store.rs:1214` says it never does (`UnreadableKept`). With a run in flight it goes
  on writing plaintext evidence (`LatePlaintextIsOpenedBefore`).
* `checks.seal.json` keeps the first key. After a replacement, a start with
  `RYU_MASTER_KEY` holds the key of the state, not that of the record, and is
  refused (`DeliveredKeysServe`).
* An evidence file removed while its sealed copy is made comes back with the
  rename (`SealCopy`, `SealReplace`; no property relies on the opposite).
* Two first starts on an empty keychain: the second replaces the key the first has
  read back (`overwritten` in `KeptStaysKept`). A retired key whose copy is in a
  keychain that is away cannot be opened until it is back (`OpenedStaysOpened`); a
  command that cannot write the keychain replaces a key file the keychain had
  shadowed (`Shadowed`).
* A migration that is resumed after a key replacement goes on at its cursor and the
  record moves to the new key, while the rows above the cursor stay under the old
  one (`content_sqlite.rs:568` expects otherwise); they open with the retired keys.
* A keyless SQLite writer looks at the record and then writes: its plaintext stays
  until the next start walks the column (`late`).
* An append that fails part way leaves the part; the next frame behind it makes the
  log unreadable (`glued`). A log cut within its header is refused for good.
* Two starts that retire different keys at once each write back the index of retired
  keys as they read it, and the later one drops the other's entry
  (`RetiredVault::retire` has no lock between processes). The key keeps its slot and
  its copy, but no later start tries it (`Superseded` in `OpenedStaysOpened`).
* Tenant values and blind-index tokens know the current key only (`StaysReadable`,
  `LookupsAgree`); a keyless store takes a BLOB that begins with a sealed file's
  magic and cannot read it once it has a key; sealing a secret file again may
  undo a write in between.
* A hydration that overlaps an upsert or a removal undoes it in memory until the
  next one (`RecallIsKnown`).

### Bounds

Two workers are enough for a race between requests, since every interference
here goes through the store and each step of one request can be separated by
whole operations of the other (project creation and deletion, healing and list
edits need no worker). Two projects separate a project from another; one tenant
suffices but for `store_lists`. Retention (`store_evidence`) is checked with
limits of two runs and four files against three runs of a project with two tests,
each of which keeps one file or two, so that each limit is exceeded alone and
together. One failed write and one kill: recovery reads the disk and has no state
of its own, so a second kill starts from a state that the first already reached
with other requests. Kills with evidence to lose are in `shared_processes`, where a
process that is killed is followed by another; both together, with requests in
flight, in `store_records` for the records, and in the theorems for the files.
`seal_keys` has three keys, hence two replacements: a state may be sealed under the
current, the previous or an older key than the recorded one; four starts cover
first open, key start, start by master key and keyless start in any order; one
sidecar and one client are two processes that may meet.
`shared_processes` has two sidecars, so that one can fail to bind or succeed the
other, and a client; two runs of two files against limits of two make the second
save prune the first. Two
schedules let one wait while the other runs; two proofs let one be replaced.
Ids, workers, projects in `Scheduler` and keys that nothing orders are
symmetric; no symmetry is used for liveness.

`custody` has three keys and a vault of two, so that an entry is added to an index that
has one and a full vault meets a third key, two processes, and two starts and commands:
two that overlap, or one and another after it, over a folder that is new or that an
older version left with data under one key or two. Longer sequences are the theorems'
(section 4), whose invariant holds for any number of starts and commands; three already
take TLC several minutes. `sqlite_migration` has two columns of two rows and batches of
one, so that a kill falls within a column and between two, two keys and two starts, the
second of which resumes the first under either key; a keyless writer. `sealed_values`
has two records (one may land in the other), two processes, two master keys and two
writes: a first key and its replacement, and a value of before. Its inputs are a word
and the texts that begin like an envelope, an escape or a magic, a few for each sort of
values; the empty value is among the config secrets only, and left to the theorem for
the others. `sealed_log` has two records of one and two bytes over chunks of two, so
that a file ends within and exactly at a chunk, two crashes, of which the second strikes
during recovery, one failed write and two keys. `vector_index` has three partitions and
a budget of two bytes against vectors of one and two, so that a hydration evicts one
partition, both or itself; three writes.

`CHECK_DEADLOCK FALSE` is set where the supply of ids or starts ends; the
schedule runs check for deadlock.

`Age` excludes files of runs in flight: the grace period is 24 hours, and a run
is over long before (20 s per target, 45 s per browser capture). Without that
assumption the sweep could take the files of a running request.

### Fairness

Only `schedule_liveness` uses any: `WF_vars(LoopNext)`, the loop goes on while it
can. The code justifies it: the interval ticker fires every 15 seconds while the
process lives, every await of the loop has a timeout (15 s for an authorization
call, 20 s for a target, 45 s for a browser capture), and an error is recorded like a
result. No request, permission, revocation or successful run is assumed. It
has no failed writes: when the state cannot be written the code keeps the new
due time in memory, which serves the property as well, but a kill then makes the
schedule due again, as often as writes fail.

### Sensitivity

Each property of a passing run has a mutant, a plausible error in the code (a
limit off by one, a sweep without grace, a record written late, a retired key
forgotten, a check that fails open, a lookalike taken for an envelope, a tail that
is not cut...), under which TLC finds it violated. Properties of several parts have
one for each. They stand beside the definition they change, marked `Mutant`.

## 4. What is proved

Every safety invariant and action property that the runs check is proved, but for
`WholeOrRefused` of `SealedLog` and the properties of `VectorIndex`; the reasons are
at the end of this section.

The theorems about `ChecksStore` hold for every value of the constants that satisfies
`IdAssumption`, `LimitAssumption`, `InputAssumption` and, for the ledger,
`KindAssumption` (a project's id is the id of nothing else): any number of projects,
tenants, tests, runs and requests in flight, any limits, any number of failed writes and
kills.

* `TypeCorrect`: `Spec => []TypeOK`. `TypeOK` is not inductive alone: what a
  request does at its next step depends on what it carries (a run id while it
  executes, a list while it inserts one), hence `TypeInv`.
* `ClaimedFilesAlwaysExist`: `Spec => []ClaimedFilesExist`. The inductive
  invariant is `IInv == TypeInv /\ EvidenceInv`, with
  * `RemovalIsDurable`: while a writer holds the lock to remove files, memory and
    disk agree and neither claims them. This is the order "persist, then
    remove" of `save_run` and `delete_project_for`;
  * `RunIdsAreFresh`: stored runs, files, pending removals and executions have
    ids that were handed out, so a new run starts with no file and no record;
  * `RunOwnsItsFiles`: until its run is saved, only its own request touches a
    run's files, they are not old enough for the sweep, and what its items claim
    is there. At the moment of saving this becomes `ClaimedFilesExist` for the
    new record.

* `AckedRunsAlwaysSurvive`: `Spec => []AckedRunsSurvive`. `AckedKnown` strengthens
  it: memory knows an acknowledged run as well as the disk does, since the next
  save writes memory, and both know it under the project it was acknowledged
  for, since a deletion drops runs by project. That a save overwrites no such
  run is `RunOwnsItsFiles` (the id of a run being executed is stored nowhere).

* `LedgerAlwaysKept`: `Spec => LedgerKept`, the refinement. `LedgerInv` says how
  memory stands to the disk between a failed write and the next good one: in both
  every run has its project (`Rooted`), and memory follows the disk (`Follows`): of
  each project it still has, it has every run of the disk, with its outcomes but for
  failures healed since. Each action is then one of `LedgerStep`: nothing of the
  ledger's changes, a change is persisted or fails to be (`Advances`), or memory is
  read back from the disk; these map to `Replaced`, `Unwritten` or a stutter.

* `RecordsAlwaysHaveProjects`, `StatusAlwaysWitnessed`, `TenantsAlwaysIsolated`: of
  the three only the last needs the requests in flight, whose projects and remaining
  jobs belong to their caller's tenant as long as they exist. The first two say of one
  store what memory and disk both keep: the links of a project lead to its own
  records, a status comes from a run that executed the test. Pruning, healing and
  deletion change runs that other records refer to, so each is shown to keep what is
  referred to.

* `ClaimsAlwaysWithinLimits`: after `prune_evidence` only the
  newest `MaxRuns` runs claim files, and `MaxBytes` of them at most. Saves number
  the runs, so a run that another one follows only gets older. That the walk of
  `over_budget` has a result within the budget is the existence of a largest set
  of claims with the properties that define it; it follows from the
  well-foundedness of strict inclusion on the subsets of a finite set, in place of
  an induction over the runs. The invariant therefore has `Finite`: a store's
  runs and their items can be counted.
* `NothingStaysStranded`: a file is claimed by memory, about to be recorded by the
  request that wrote it, or among what a writer with the lock will remove. The
  second needs `Filed`: a request records each file its run wrote, because a test
  is captured once.

Both `ChecksStore_proofs` and `SharedStore_proofs` begin with the lemmas about the
changes of `StoreState` they use, so that each is checked on its own: what a change
does to the claims (`ClearFlagsClaims`, `InsertRunClaims`, `DropProjectClaims`...)
and that it keeps the shape of a store (`...Shape`).

All four properties of `SharedStore` hold for any sidecars, clients, projects, runs
and limits (`SharedInv` in `SharedStore_proofs`). They are about who overlapped whom,
so the invariant relates what a process may touch to when it loaded its image:

* `RunsOwned`, `RunsFresh`, `Captured`: a run in flight has an id that no image and
  no process besides its own has, and the files it claims are there
  (`InFlightAlwaysKept`: every pruning, sweep and deletion goes by an image);
* `SavedAlone`: a run acknowledged is in the file and in the image of every process
  that has not overlapped the one that saved it (`RunsLostOnlyToOverlap`);
* `CleanupsApart`, `OpenHaveMet`, `OneAtATime`: two processes with the store open have
  met; as long as none has, one image is the file's, and it claims only what is
  there, wherever a save or a deletion is cut (`EvidenceLostOnlyToOverlap`). The
  handoff property follows by the order of `Bind`, `Publish` and the two steps of the
  withdrawal (`HiddenOnlyByOverlap`).

The step cases are grouped by what they may change (`StepKinds`: a process moves,
starts, ends, or uses its store), and each part is shown for the groups that can
disturb it.

The safety properties of `Scheduler` hold for any schedules, proofs, projects and
bounds (`ScheduleInv` in `Scheduler_proofs`): `PausesAndDeletionsStay`,
`RunsAlwaysAuthorized`, `OncePerDueTimeAlways`, and the action property
`NeverRunsAfterPause`. What the loop holds between two steps is a copy, so the
invariant says for each point of the loop what is still true of the copy (the proof
it carries is one that was granted, and was valid when it was read) and what the
store must tell it at the next lock; memory and disk agree on acknowledged pauses
unless a write failed that was not acknowledged.

The three properties of `SqliteSeal` hold for any columns, rows, batch size, number of
keys, starts and keyless processes (`SqliteInv` in `SqliteSeal_proofs`).
`ServedAlwaysSealed` rests on what the persisted cursors mean:

* `Walked`: in an item being walked every cell up to the cursor is sealed or written
  by a keyless process since; any other item starts at its first row. `BatchFacts`
  shows that a batch leaves no row between the old cursor and the new one, and a
  short batch none above it, for any batch size;
* `Progress`: the items this start looked through or finished have no plaintext;
* `Compactions`: what is compacted, and when, does not pass over the walk.

`ScrubDebtAlwaysRecorded` rests on `Debt`: wherever the process is about to replace
plaintext or to erase what is left of it, the row already says that this is owed.
`UnreadableAlwaysKept` is a property of steps: `reseal_value` changes plaintext and
what opens.

All six properties of `SealedStore` hold for any keys, sidecars, clients, saves,
evidence files and number of starts that satisfy `KeyAssumption` (the names of
the forms are no keys; a process is a sidecar or a client): `SealTypeCorrect`,
`SealsAreRecorded`, `AckedSavesAlwaysSurvive`, `DeliveredKeysAlwaysServe`,
`UnreadableAlwaysKept`, `LatePlaintextAlwaysOpenedBefore`. One inductive invariant,
`SealInv`, carries them:

* `Custodial`: recorded and held keys are among those Core has;
* `Decided`: what a process decided at its start agrees with what it saw: it seals
  only with a key and a record, and counts as never sealed only what it saw
  unrecorded;
* `UnderWay`: a save under way is in memory and a refused store has none;
* `Alone`, `KnowsAlone`: until two processes have met, the one that is up knows the
  directory: the record is the one it saw, its memory has every acknowledged save,
  and it can open the state. Steps of one process leave what the others know alone,
  because then the others are down (`OthersKept`).

The two properties about steps follow from it since only `Replace` writes
`checks.json` and only `WriteEvidence` adds plaintext evidence.

The three properties of `Custody` hold for any keys (finitely many), processes, hosts,
size of the vault and number of starts and commands that satisfy `CustodyAssumption`:
`ServingKeyAlwaysKept`, and the action properties `KeptAlwaysStays` and
`OpenedAlwaysStays`. `CustodyInv` in `Custody_proofs` says of each process what its
decisions rest on, at each step (`StepOK` for what it carries):

* `StartOK`: a key that a start found is still in a slot, and one it will serve with
  is in a slot or retired. It stays so because a step of a start takes nothing from
  either (`Grows`): two starts may write different indexes of retired keys, but they
  differ only in keys that are in the slots as well;
* `CommandOK`: what a command is about to replace is retired or on its list; the
  index it read is the index, since a command runs alone (`Alone`);
* `HasCopies`, `CopiesOK`: what an index names, on disk or in the hands of a process,
  has been copied where it says: the copy precedes the entry.

The proof found that `OpenedStaysOpened`, as first stated, holds only of a vault with
room for one key: with room for two, the write of an index that was read before
another start's entry drops that entry. The property now names this case
(`Superseded`). It takes two starts that retire different keys at once, one that reads
the keychain and one that does not reach it, after a third that was killed between
the index and the record. That is beyond the bound of `custody` and left to the
theorem; with `MaxOps = 3` and hosts of only these two kinds TLC finds the
counterexample to the property without the exception.

The five properties of `SealedValues` hold for any kinds of values, inputs, records,
processes, number of master keys and writes that satisfy `ValuesAssumption` (inputs
are texts, with at most one blank in front): `OwnIsRead`, `AllStaysReadable`,
`LookupsAlwaysAgree`, `AgainIsExact`, and for the steps `SealingIsKept`. `IInv` in
`SealedValues_proofs` says what form a stored record can have:

* `StoredOK`: by its origin, a record is what was last written to it, sealed under a
  key there has been at the place where it lies, or in the clear (`Form`); or it is
  another record's, another scheme's or a newer build's. A form the
  store itself makes is none of these others (`FormExcludes`), since the marks of the
  schemes and the places differ;
* `TokenOK`: a token was made from the value under some key;
* `ProcOK`, `ReadOK`: a process that writes without a key opened its store before it
  was sealed, and what a process has read in order to write it back is the value of a
  form and can be stored again.

The argument has two halves. `ReadForm` says what each reader makes of each form:
the value, or an error, and whether it asks to seal again; with it the four
invariants follow. `Sealing`, `ResealText`, `ResealBlob` and `WritesBack` say that
what each writer leaves is such a form again. Both rest on lemmas about `Envelopes`:
an envelope opens under its own key and place only (`OpensSealer`), places differ if
their records do (`AadInjective`), derivations give different keys.

This proof changed the model in three places, each checked against the source.
`Migrate` is refused once the store's record has moved to a key the process does not
know, and moves the record only if every value opened. The exception of
`StaysReadable` for a BLOB that a keyless store took covers every magic that looks
like one of Ryu's, of a log or of no build as well. And `AgainUntilCurrent` excepts
the empty text of a keyless store, which is left as it is and asked for never.

Of `SealedLog`, `SyncedSurvive` and `Reopens` hold for any number of records, keys,
crashes and failed writes (`SyncedAlwaysSurvive`, `AlwaysReopens`; no assumption on
the constants). `LogInv` in `SealedLog_proofs` says that, until a frame is glued to
the rest of a failed one:

* `OneKey`: the cells are records of one key, each at its place, and one torn cell
  behind them at most. Under that key the scan finds exactly the records
  (`ShapeCommits`), and no other key opens a log that has one (`WrongKey`);
* `Writer`: the writer's next index is the number of records, what it has yet to sync
  is among them, and behind them there is at most the rest of a frame it failed to
  write itself;
* `SyncedKept`: an acknowledged record is among the synced cells, which `CutIs` shows
  every crash to leave; once the log is deleted it is in the published file, in both
  of the versions a power failure may leave;
* `Published`: what is sealed and renamed is what recovery reads, until the log goes.

Without `~glued` none of this holds, which is why both properties except it: the log
then has a cell in its middle that does not open.

Only model-checked:

* `WholeOrRefused` folds a file's records over a sequence of chunks, and its claim
  about every range of the bytes is an induction over them; `WithinBudget` and
  `RecallIsKnown` speak of the total of a fold over the rows, and of an eviction order
  kept with `SelectSeq`. What a fold or a filtered sequence is for every input needs
  induction over data, which the library's theorems state with an operator as a
  parameter, beyond the installed provers. `EvictionIsReported` could be proved
  apart from them, and has not been.
* Liveness (`DueIsServed`) and `ENABLED` are out of the prover's reach as well.

## 5. Not modelled

* Dates, text, assertions, page parsing, address validation: inputs of a run,
  reduced to its result. JSON and HTTP formats; `api.rs` routes that only read.
* Reading evidence (`evidence_artifacts` reads flags, then files, without the
  lock; a prune in between answers with nulls).
* Cryptography: a sealed value is opened by the key, and where there is one the
  associated data, that sealed it; derivations give different keys for different
  inputs.
* The key file of a standalone process (`plugin_keys/files.rs`), the tokens and
  routes of the handoff and its copy in `sidecar-runtime`.
* Of custody: corrupt slots, the marker of the data format, installing file custody,
  copies between profiles. Of SQLite: the registered functions and the tools that
  look into a store from outside. Of sealed values: full-text terms, redaction, the
  keys of web views and app slots. Of the vector index: the ranking.
* Temporary files a kill leaves: `.tmp` in the evidence directory is swept,
  `.sealing` is replaced by the next attempt; beside `checks.json` none is
  collected.
* UI, release scripts, path and protocol helpers: no state on the node.

## 6. Plan

Done: `StoreState`, `ChecksStore`, the ledger it implements, `SharedStore` with the
handoff, `SealedStore`, `Scheduler`, `SqliteSeal`, `Custody`, `Envelopes` and
`SealedValues`, with the proof of every safety property their runs check;
`SealedFile` and `SealedLog`, two of whose three properties are proved;
`VectorIndex`, checked with TLC.

In order of importance:

1. `StandaloneKeys`: `plugin_keys/files.rs`, the root file, its pin, and the
   order in which two processes create them.
2. The rest of the handoff: tokens and routes, the ports of other plugins
   (`sidecar-runtime/src/handoff.rs`).
3. Of `VectorIndex`, a proof of `EvictionIsReported`, as far as it does not depend
   on the fold.
