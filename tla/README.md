# mediaops: a TLA+ verification development

This directory models mediaops in TLA+: the Home control plane and its pull
path in depth, and around them the daemons, the seedbox side and the commands
an operator runs. TLC checks the models on small instances, TLAPS proves the
central invariants for every instance. Paths below are relative to the
repository; `PROJECT.json` maps the definitions to the lines they model. Its map leaves
out helpers whose lines lie within those of the operation that uses them, and the
steps of the surroundings (users, other programs, faults).

## 1. The system

mediaops keeps a media library at home and copies finished files from a
seedbox. `mediaops-home` supervises five processes that only meet in one
place, the objects of `mediaops-api`:

| part | state it keeps | operations | talks to |
| ---- | -------------- | ---------- | -------- |
| object store (`crates/store/src/api.rs`, `api/sync.rs`) | current objects, global revision, bounded event history, replay floor | apply, patch status, patch spec, delete, schedule_sync, snapshot, events_after, migrate | called by the API only |
| Watch (`crates/api/src/serve.rs`) | one task, cursor and channel per stream | watch, resume, deliver, expire | store; TUI, gateway, CLI |
| admission (`crates/api/src/admission.rs`) | none: rules over the store under one mutation lock | validate apply, patch, bind, delete | store |
| controllers (`crates/api/src/controllers.rs`) | none between passes | refuse revoked Jobs, flag drift, create Jobs, set Want phases | store, library directory |
| one-shot sync (`crates/api/src/sync*.rs`) | Sync objects | accept, capture, evaluate, schedule, fail | store, inventory's scan token |
| scheduler (`bins/mediaops-scheduler`) | none between passes | bind pending Jobs within the copy budget | API |
| inventory (`bins/mediaops-inventory`) | scan token, row publication, commit marker | begin, publish, commit, reject, unmonitor | API, seedbox |
| pull worker (`bins/mediaops-pull`, `crates/transfer`, `crates/core/src/install.rs`) | Job status, partial, sidecar, staged file, install slot, library file | claim, copy, verify, install, record proof, finish, recover | API, gateway, library directory |
| gateway, seedbox daemon | channel pool, TLS | proxy lists, ranges, control calls | seedbox |
| TUI | object cache across reconnects | list, watch, merge | API |
| CLI, arr adapters, encode, reclaim, bootstrap | files and external services | one-shot commands | API, HTTP, SSH |

Hard behaviours: every writer is optimistic and its answer may be lost; watch
cursors race compaction; controllers and scheduler act on snapshots that may be
stale when the lock is taken; the worker may die between any two file system
or API steps and is restarted; deadlines pass while a step runs; the library
directory belongs to the user as well. `PROJECT.json` lists each of these
hazards at its line, with the properties that cover it.

What makes each part correct:

* store: no lost update, no hole above the replay floor, the history ends in
  the rows, identities are never reused, generations follow specs;
* watch: a stream that is cut, resumed or expired never misses the final state
  of a key, revisions never go back, an open stream catches up;
* control plane: no Job runs on a withdrawn approval, for another library root
  or beside a maintenance command; bound bytes stay within the budget; a
  committed listing is one scan; what is authorized is eventually offered;
* pull: only verified bytes reach the library and never in place of another
  file, a proof never precedes its file, a failed Job leaves nothing behind,
  Jobs settle, and every write is one admission accepts.

## 2. Modules

### The core

`ApiStore` is the store. `objects`, `rv`, `floor` and `history` are the tables
`objects`, `meta` and `history`; each mutation is one SQLite transaction and so
one action ending in `Commit` (`next_rv`, `upsert`, `record_event` and its
compaction). `seen` is what each client last read, which is what it sends back
as the expected revision; `Respond` may drop the answer. `lost` is an observer.
A uid is `<kind>-<revision>`, modelled by the creating revision. `StoreInit`
covers a fresh database and a migrated one (rows kept, history dropped, floor
raised to the current revision).

`ApiWatch` extends `ApiStore` with the Watch rpc: `stream` is the spawned task
(its cursor, the fetched events it has not sent yet and the channel), `view`
and `cursor` are the client's. `Fetch` is one `events_after`, `Send` and
`Receive` are the two ends of the channel, `Disconnect` loses what is in flight.

`JobLifecycle` is the abstract specification: what admission lets anybody do to
a Job and to the Title proof of its destination. `PullWorker` is the worker in
detail: `job` and `proof` are the API's objects, `disk` and `data` directory
entries and inode contents, `worker` the program counter. Publication is by
hard link, so entries name inodes, and the nlink checks of the install gate are
counts of entries. `left` bounds crashes, faults, user edits and creations;
`published` and `disturbed` are observers. `PullWorker` implements
`JobLifecycle` (`ImplementsLifecycle`).

`JobControl` is the control plane around them. A *file* stands for its
RemoteFile row, its placement, the Hold that names it and the Job named after
its placement.

| state | code | actions |
| ----- | ---- | ------- |
| `cluster`, `maint` | Cluster.spec and its accepted generation; the maintenance command under its flock | `EditCluster`; `MaintenanceLock`, `MaintenanceCheck`, `Relocate`, `ImportProof`, `MaintenanceFinish`, `MaintenanceFails` |
| `want`, `hold` | Want.status, Hold.spec and status | `CreateWant`, `DeleteWant`, `ApproveHold`, `RevokeHold`, `DeleteHold` |
| `row`, `node`, `scan` | list generations of RemoteFiles and of the inventory Node, and what the publisher has left to write | `BeginPublish`, `PublishRow`, `PublishHold`, `CommitListing`, `AbandonScan`, `RestartInventory`, `Lapse`, `Heartbeat` |
| `pass`, `snap`, `stale`, `plan` | one `reconcile_once`: its snapshot, the objects written since (a moved resourceVersion), what is still to do | `PassRefuse`, `PassSnapshot`, `PassDrift`, `PassPlan`, `PassWantFile`, `PassWantPhase`, `PassHold`, `PassAccept` |
| `job`, `proof`, `disk` | Jobs, Title proofs, library files | `Bind`, `RecordProof`, `EndJob`, `DeleteJob`, `MoveFile` |

A request is one step because the API handles it under its mutation lock; the
handlers that revoke an authority end with `refuse_revoked_jobs` in a second
transaction, so `RevokeHandler` also has the outcome where the API dies
between the two. A pass is many steps, and each of its writes sees the store
of its moment. `committed` and `installer` are observers. What is abstracted:

* the pass serves Wants, files and Holds in any order, the code in name order;
* a row's length never changes, and every row parses to its Title;
* a Hold has both a path and a placement, or neither (a Hold with a path and no
  placement blocks that file only, as a placed one does, but cannot be approved);
* "late" covers an old heartbeat and an old listing; `Heartbeat` cures both,
  though the code needs a new listing for the second;
* the disk watermarks, the pull Node's readiness and Sync Jobs are not there;
* a relocation keeps `disk`; files missing under the new root are `MoveFile`s;
* nobody deletes the inventory Node, and the operator does not clear the lock
  while a maintenance command runs, as `maintenance_failure`'s text asks.

### Around the core

| module | what it models | its state and actions |
| ------ | -------------- | --------------------- |
| `SyncRequest` | one-shot sync (`api/src/sync*.rs`) and the scan token of inventory | `db` the API's objects, `ctl` the controller's copy of a request, `scan` and `late` the scans in flight; `Start`, `Poll`, `Controller`, `Inventory`, `LateCommit` |
| `TuiSession` | session, cache and mutations of the TUI | `task`, `chan`, `ses` the subscription and the cache, `ui` and `work` the loop and its jobs, `wire` writes on their way |
| `Transfer` | `pull_file`: ranges, sidecar, resume, adoption | `dir`, `data` and `durable` what is there and what a power loss leaves, `proc` the pullers |
| `Publication` | directories, modes and durability of an install | `dir`, `file`, `inode` and their durable twins `kdir`, `kfile`, `kinode` |
| `Gateway`, `GatewayPool` | start, bundle, socket, Secret; streams, channels and control calls | `gw` a process per gateway; `pool`, `locked`, `streams`, `call` |
| `Supervisor` | `mediaops-home` and its roles | `sup`, `child`, `proc` (PIDs can be reused), `signalled` |
| `Daemons` | gateway, pool and supervisor side by side, for every value of their constants | the slots; what `MCHome` checks and `DaemonProofs` proves |
| `ObjectCodec` | documents, rows and messages of every kind | the stored object and one client; `Get`, `Apply`, `Patch` with validation and redaction |
| `ControlWire` | control calls across packages of different versions | `daemon`, `box`, one `call`, its `result` |
| `SeedboxWalker` | the allowlisted walk, strict and partial | `at` where files are, `walk`, `listing`; the tree moves while it is walked |
| `SeedboxInstall` | bootstrap and upgrade over SSH | `tls`, `cfg`, `machine`, `box`, `proc` |
| `EdgeRepair` | `repair edge` and `doctor` | `conf` and what nginx has `served`, the `record`, `cmd`; a panel rewrites `conf` |
| `Grabber`, `GrabApply` | queues, rejections and unmonitoring; applying `[grab]` | app `queue`s read page by page, `hold`s, `scan`; resources by name and ID, `op` |
| `StateRows`, `StateDb` | `state.db`: its rows; its migrations and callers | `version`, `tables`, `index`, `jobs`, `staged`, one statement per step of `proc` |
| `PlanActions`, `LibrarySync` | the planner as a fold, and what a plan must be; its application | pure operators over a request and its plan; `remote`, `library`, `index`, `run` |
| `EncodeLibrary` | `library encode` | `live`, `backup`, `converting`, `journal`, `row`, `cmd` |
| `Reclaim` | `reclaim` and `DeleteRemote` | `box`, `tor`, `lib`, `proof`, `lock`, `run`, `served`: the calls at the seedbox, awaited or given up |
| `LibraryCommands` | bootstrap, relocate, reindex, manual pull | `cluster`, `free` and `taken` space, `disk`, `proof`, `job`, `cmd` |
| `NewMachine` | import of a bundle | `cluster`, `title`, `row`, `file`, `disk`, `imp` |
| `CliInbox`, `CliWatch` | `hold list/approve/reject`; `watch` | `hold`, `scan`, `op`; `want`, `title`, `cmd` |
| `ConfigDocument`, `CivilDays`, `OperationProgress` | config.toml and its upgrade; timestamps; the progress line | a document that is edited; a running clock; a thread, its mutex and the screen |
| `PathSchema` | the grammar of names; the way of a name to the library | pure operators over runs of characters; `holds`, `remote`, `jobs`, `library` |

These components do not share state with each other in the code other than
through the objects the core models, so a run over several of them is over the
disjoint union of their state spaces: `Slots` holds the variables of the one
component (`part`) a behaviour is about, and `MCSeedbox`, `MCHome` and
`MCCommands` instantiate the components on the slots, several times where one set of
bounds cannot show everything. `Daemons`, `ObjectCodec`, `SeedboxWalker` and `PathSchema`
are extended instead, with their constants in the .cfg, and the last three rest while
another part runs. Properties of such a run are implications from `part`.
At the end of `MCHome` (`ProgressSpec`) and `MCCommands` stand the specifications with
fairness that `MCDaemonProgress.cfg` and `MCCommandProgress.cfg` check. `ApiStore`, `ApiWatch`,
`PullWorker` and `JobControl` are checked as they are. The proofs are in the modules
ending in `Proofs`.

## 3. Runs

* `api_store`: two symmetric clients, a Sync and a Job, two specs, a history of
  two events and five revisions. Compaction starts at the third write, a Sync
  plan consumes up to two revisions at once, and a name can be deleted and
  recreated while the other client holds a copy from before.
* `api_watch`: one writer, one watcher, two keys of different kinds, filters for
  one and for both, batches of two, a channel of one. With five revisions and a
  history of two the cursor expires, the channel fills and a snapshot is cut in
  the middle. Liveness assumes weak fairness of one stream's own steps: the
  server task loops and the client reads for as long as the connection lives.
* `pull_worker`: two Jobs, one of them with staging and library on different
  devices (the longer path), two attempts, one crash, one fault, one edit by the
  user and two creations. One of each suffices to interrupt a step of either Job,
  to find its leftovers at the next attempt and to have them changed in between.
* `job_authority`: one file that may be held, two scans, three operator edits, a
  lapse or restart of inventory and a crash of the API. Two scans suffice for an
  abandoned one followed by a committed one, three edits for creating a Want,
  approving and revoking.
* `job_cluster`: two files of different length, two symmetric library roots, a budget
  that each of them fits and both together do not, one Cluster edit and one maintenance
  command at any point of the pass. Holds are left to the other run: they do
  not meet the Cluster.
* `job_liveness`: one file, one scan, four edits, a lapse and a crash. Fairness:
  weak fairness of the controllers (a loop of the API with a two second timer),
  of binding each Job (the scheduler's loop tries every queued Job) and of the
  worker's own steps. Inventory, operator and maintenance are not assumed fair:
  the properties speak of what happens once they are quiet.
* `job_hold` (a violation, see "findings"): a Want Job is queued when inventory
  reports a Hold on its file. The Hold bars the Job from being bound, and when
  the Hold is approved its own Job cannot be created, because the name is taken.
* `seedbox`: `HostIsWhole`, `GrabberIsObeyed`, `ListingsAreWhole`. One process with
  both commands and two processes that mint keys at once; two apps with a panel
  that rewrites one conf; three releases, two of one series; walks over nested and
  linked roots; every control call against three packages. `ListingsAreWhole` is about
  the walk on the seedbox, `GrabberIsObeyed` also about the calls on their way.
* `home`: `SyncIsExact`, `ScreenIsStore`, `BytesAreWhole`, `DaemonsAreApart`,
  `ObjectsKeepMeaning`. One Sync request in three settings (fresh scan, planning
  under an edit, repetition and deletion), the TUI in four, two pullers of one
  name, the worker's and a manual file, two pulls of different concurrency, two
  roles with one PID to spare, and each kind of object with one odd field.
* `commands`: `IndexIsTrue`, `CopiesAreKept`, `PlansAreFair`, `LibraryIsGuarded`,
  `OperatorIsObeyed`. Every version of `state.db` with two processes that die
  between statements; listings of up to three of eight offers in every order; two
  episodes that are upgraded; two movies of which one has HDR metadata; a season
  pack; three rows of two Titles; two operators; every small document of
  config.toml; two years around each turn of the calendar in five zones; names of
  one and two words of every class the grammar tells apart.
* `daemons_progress`: `DaemonsProgress`. `commands_progress`: `CommandsComplete`.
  Each conjunct is stated in the module with its fairness; the bounds are
  smaller, because a cycle needs one failure and not two.

Each of these properties is a conjunction of definitions in the modules of the
parts, where each has its own comment.

Fairness of the last two runs. A daemon's loop goes on (weak fairness of the
controller, of deadlines and of the client's poll in `SyncRequest`; of the
subscription task and the screen's loop in `TuiSession`; of each gateway process;
of the publication worker, which the supervisor restarts). The supervisor takes a
signal that stays pending (strong fairness of `TakeSignal`, because its loop is
busy with other events in between) and a role obeys SIGKILL. The thread of the
progress line holds its mutex for one clone every 250 ms, so the command gets it
(strong fairness of `Stopping`). Operators repeat a command that failed: repair
while the box is frozen, watch, the import, encode, grab apply, and after a
failed library command they clear the lock and reindex, as the messages of those
commands ask. Panels, other users, faults and crashes are bounded and never fair.

Deadlock is checked in the store, watch and job runs. The others may stop:
with the budgets of the environment used up nothing is left to do.

## 4. Proofs

`ApiProofs` proves, for every set of keys, specs, statuses and clients and
every `HistoryLimit > 0`, that `StoreSpec` implies always `StoreTypeOK`,
`HistoryCoversReplay`, `NoLostUpdate`, `HistoryAgreesWithObjects`,
`TombstoneIsFinal` and `GenerationTracksSpec`.

None of these is inductive. The argument has three layers:

1. every action but `Get` is a `Commit` of a legal transaction (`LegalTx`):
   distinct keys, events numbered `rv + 1 ..`, each an addition of an absent
   key with a fresh uid, or a continuation of the present row (`NextCommits`);
2. `StoreInv`: the types, revisions and uids bounded by `rv`, the history
   covering exactly the revisions above the floor, and what a client holds
   being an object of the past (`SeenIsPast`: a current object with the
   revision of the copy is that copy). The last part is what makes the revision
   comparison sufficient, and so `NoLostUpdate` inductive;
3. `IdentityInv`: two rows never share a uid, a retained event with the uid of
   a row is about that row at an earlier or equal generation (`UidIdentifies`),
   and with it `TombstoneIsFinal` and `GenerationTracksSpec`.

`JobControlProofs` proves for every set of files, Titles, roots and budgets
that `ControlSpec` implies always `ControlTypeOK`, `ApprovalOutlivesJob`,
`JobsFollowRoot`, `MaintenanceIsAlone`, `NoSecondInstall` and
`ListingIsOneScan`.

1. `TypeStep` takes the thirty-three actions one by one.
2. `StepEffects` says once, for every action, what a step may do to Jobs
   (`JobEffect`: only `Bind` makes a Job active, a new Pending Job is for the
   root in force), to an approval in use (`HoldEffect`), to the root
   (`RootEffect`), to the lock of a command (`MaintenanceEffect`) and to proofs
   (`ProofEffect`). `SafeInv` follows from the effects without looking at actions
   again. It adds `MaintenanceLocks` (a command holds the lock while it runs: the
   reason why no Job can be bound after `MaintenanceCheck`) and
   `ImportedIsProved` (the reason why no Job can be bound for an import).
3. `ListingIsOneScan` needs `ScanIsFresh`: the generation being published is
   larger than the committed one, and whatever carries it belongs to the scan.

4. `BudgetHolds` says of the Jobs bound now that together they fit the cap of one
   of them. It is not inductive: when the last Job bound ends, nothing is known of
   the others. `BudgetInv` says it of every nonempty subset of the bound Jobs, so a
   Job that ends only removes subsets, and one that is bound covers, by `Fits`, every
   subset it is in. The sum of a set of sizes is the fold of a community module;
   `TotalSplits` (the sum of `S` is that of `S \ {f}` plus the size of `f`) and
   `TotalMonotone` are proved by a least counterexample on cardinality.

`ApiProofs` also proves `WatchSpec => StoreSpec` (`WatchImplementsStore`: streams
only read the store, so all of the above carries over) and that always
`WatchTypeOK`, `StreamConverges`, `ResumeLosesNothing` and `RevisionsAscend`, for
every set of watchers and filters, every batch limit and channel capacity.
A stream can be cut off with any number of events delivered, and the client then
resumes at its cursor. So the invariant `WatchInv` speaks of every position
between the client's cursor and the revision the server's task has read up to
(`Positions`): from there on, each subscribed key is either still in the history
(`Unfetched`), or the last event owed for it is its present row, or nothing is
owed and the client already has the row (`Knows`, unless the position is below the
compaction floor and answered with `Expired`). Beside it `InOrder` (what is queued
and pending ascends) and `AheadOfClient` (what is in flight is above the cursor).
`RevisionsAscend` and both other properties are corollaries.

`PullWorkerProofs` proves that `PullSpec` implies always `PullTypeOK`,
`ProofFollowsPublication`, `FailureLeavesNothing`, `CopySpaceReleased`,
`PublishesOnlyVerified`, and that `PullWorker` implements `JobLifecycle`
(`WorkerImplementsLifecycle`), for every set of Jobs, every placement on devices
and every number of crashes, faults, edits and attempts. `PullInv` has for each Job
one conjunct for what the API's objects say of each other (`LifeInv`), one for
what names on disk say of contents (`FilesInv`: a name at the destination is only
ever linked to verified bytes, and a Job nobody disturbed has no destination before
it is Verifying) and one for what the worker relies on between two of its system
calls (`WorkerInv`, by program counter). `CopySpaceReleased` excuses two sorts of Job and
no other, each with an observer of its own: `disturbed`, whose destination a user's file
took or a moved file left, and `unremoved`, whose temporary an I/O error kept from being
removed. A crash forgets `WorkerInv`'s premise and
nothing else, which is why `LifeInv` and `FilesInv` are stated without the worker.

The assumptions are `StoreAssumption` and `NoObjectAssumption` of `ApiStore`,
`WatchAssumption` of `ApiWatch`, `ControlAssumption` of `JobControl`, and
`PullAssumption` and `NoDigestAssumption` of `PullWorker`. They say which kinds a
key may have, that limits are positive, that sizes are positive numbers and that
the marks for "absent" are not values. TLC evaluates them in the runs.

`TransferProofs` proves for every set of pullers and sources, every file and range
length, concurrency and number of faults that always `TransferTypeOK`, that a pull
returns only a staged file all of whose blocks are of the source asked for
(`ReturnsWhole`), that what it returned survives a power loss (`ReturnsDurable`), and
that no range is fetched twice (`FetchesMissing`). The first question is arithmetic:
`PlanRanges` covers the file and its ranges do not overlap, whatever the lengths.
`TransferInv` then says that only the holder of the lock works (`LockInv`), that the
sidecar on disk is always the synced one and proves only bytes of the source it names
(`DirInv`, `SideInv`), that proved bytes still there are durable (`Survives`), and that
the plan of a puller at work is partitioned into ranges to fetch, in flight, being
written and proved (`PlanInv`). `Survives` is conditional because bytes may decay
behind the sidecar: a resumption hashes them again, and that is the reason why.

`EncodeLibraryProofs` proves for every library, every result of the probe and any
number of crashes, faults and edits that always `EncodeTypeOK`, `ProofOrJournal` (an
untouched file has the digest of its row, or a synced journal entry that leads there)
and `OriginalKept`, and that no step changes a recorded install digest
(`KeepsInstallProof`). The two invariants become inductive with `FileInv`, what the
command at hand knows of its file at each step of the swap, and `RowsInv`: the rows it
read at the start are still the API's, except for the file it is publishing.

`ReclaimProofs` proves for every box, every set of torrents and any number of changes
between two steps that always `ReclaimTypeOK` and `EveryCandidateAnswered`, and of
every unlink on the seedbox that the file had an intact, recorded copy in the run that
asked for it (`DeletesProved`) and no lasting reason to stay (`SparesSeeders`). Both hold
of every call, also of one whose caller lost the connection, died or was interrupted: the
seedbox inspects and unlinks in `spawn_blocking` and finishes what it has begun, so
`served` keeps such calls beside the one `run.call` waits for. `KeepsLastCopy`, that the
copy is *still* intact at the unlink, is therefore stated of the call apply waits for
only, and has the hypothesis `Meddling = "idle"`: only holders of the `state.db` lock
change the library. The lock does not bind a user, and a call that was given up may unlink
after apply has released it; TLC shows the copy changed in either case when the
restriction is dropped. `ProvedInv` carries the verification to the moment a call is sent,
`CallInv` from there to the unlink whatever becomes of the command, and `GuardInv` says
that a reason which held ever since a call arrived is in its own snapshot by the time it
unlinks.

`PublicationProofs` proves for any number of installations, crashes, power losses,
failing calls and changes of modes that always `PublishedIsWhole` and `PolicyKept`, and
`ReportedIsReadable` up to the first power loss (`ReportsAreReadable`). `WholeInv` has
each state twice, as the system calls see it and as a power loss leaves it: a copy is
whole *on the disk* before it is linked, so it does not matter which of link and data
survive. `ReportInv` follows the modes from the check of the parents to the report. After
a power loss `ReportedIsReadable` claims only the uninterrupted installation of a single
file (`Uninterrupted`: no crash, no failed call), which is model-checked; of anything else
the claim would be false of the code, and section 5 says why.

`DaemonProofs` proves what the daemons promise, one inductive invariant each.

* `SupervisorIsSafe`, for every list of roles and set of PIDs: one process per role, no
  orphan, no signal to a foreign process. `SupervisorInv` ties handles to processes: an
  unreaped handle names a process of its own role, every process of a role is named by
  one, and two never name the same. A PID can only be reused once its handle is reaped,
  which is why the signals that follow a reuse go elsewhere.
* `PoolIsSafe`, for every pool, concurrency and number of pulls. `PoolInv` ties locks to
  streams (each locked channel has exactly one), sizes the pool a pull has just connected
  (`FreshIsSized`), and counts: while nobody else holds a channel, the free ones are those
  the pull does not use itself, so a pull never exhausts its own pool.
* `GatewayIsSafe`, for any number of gateways, versions and rewritings of the bundle.
  `Sound` says of each step of a start what the files read so far are; that there is
  always an unused inode for a new socket is a pigeonhole argument on finite sets.
* `DaemonsStayApart` joins the three for `Daemons`, so `DaemonsAreApart` is proved as
  `home` checks it.
* `ObjectsMean`: `ObjectsKeepMeaning` for every kind and field class of `ObjectCodec`.
  First every class of field converts to a row, a document and a message and back
  (`Convertible`), then every field of every kind is of such a class (`BodiesDescribed`).
  `CodecInv` adds that the document and message a client holds are those of the stored
  object as long as their version is: an answer is judged against what was held.
* `ListingsStayWhole`: `ListingsAreWhole` for every tree, link table
  and set of roots, strict and partial, with files that come, go and move during the walk.
  `RootsInv` says that the roots are directories, named apart and not nested, so a path has
  one reference. `WalkInv` says of every file that has stayed since the walk began that it is
  listed, or below a path that was skipped, or below an item of the agenda that is still
  open; when nothing is open, what remains is the property. The lemmas before it are about
  paths: prefixes, `strip_prefix` and `join`.
* `WireIsExact`: `OkMeansPerformed`, `ExitCodeSurvives`, `HoldsArriveWhole` and
  `ListingsArriveWhole` of `ControlWire`, for every release of the daemon. `WireInv` says
  that what is on the wire is what the handler said or a transport's Status, and that
  what was done fits the call it was done for.

These modules take their assumptions (`TransferAssumption`, `EncodeAssumption`,
`ReclaimAssumption`, `PublicationAssumption`, `WalkerAssumption`, `WireAssumption`) as
hypotheses, because a run instantiates such a module several times or beside others; `MCHome`, `MCCommands` and `MCSeedbox` assume
them of every instance, so TLC evaluates them there. `DaemonsAssumption` of `Daemons` and
`CodecAssumption` of `ObjectCodec` are assumptions of those modules. The codec's says that
the kinds are kinds that have fields, the wire's that the mark for "absent" is no exit
code and that what a release sends as a placement is one; the walker's that paths are sequences of names, that what is above a
path is a directory, that a directory, a place for a file and a link are three things,
and that a path without a link is canonical.

Model-checked only:

* liveness, which the prover cannot do: `StreamCatchesUp`, `RevokedIsRefused`,
  `WantConverges`, `WorkIsOffered`, `JobsSettle`, `DaemonsProgress` and
  `CommandsComplete`, and with the last two `PublishedIsInstalled`;
* of `MCSeedbox`, `MCHome` and `MCCommands` the properties that join several parts, but for
  `DaemonsAreApart`, `ObjectsKeepMeaning` and `ListingsAreWhole`. Of their parts `Transfer`,
  `Publication`, `EncodeLibrary`, `Reclaim` and `ControlWire` are proved, the others not;
* what the pure algorithms compute: `PathSchema` is recursive over names and the planner
  of `PlanActions` a fold over offers, so their results for every input need induction
  over data, and `PlansAreFair` with them. They, and `CivilDays`, are compared with reference definitions over bounded
  inputs.

## 5. Where the code does not do what one would expect

`job_hold` is checked by TLC. The following were met while the modules were
written; the models have these steps, and the properties are stated so that they
say what the code does guarantee.

* Pull. A user's file that takes the destination during a cross-device copy ends
  the Job Refused with its copy still in the slot (`mediaops-pull/src/main.rs:443`).
  An I/O error while a temporary is removed, of an interrupted installation
  (`main.rs:406`) or of one whose publication failed (`main.rs:440`), ends the Job
  Failed with the temporary in place, and a terminal Job is not looked at again.
  A crash between creating the slot directory and its owner marker ends the Job
  Failed (`install.rs:605`). A proof flagged as drifted between `record_title` and
  the Installed write leaves the Job Verifying and blocks later Jobs
  (`main.rs:556`); `JobsSettle` excludes it. The plan for
  readable publication says "Permission/fsync failures cannot report successful
  install" (`docs/plans/readable-media-publication.md:33`). A failed fsync of the
  destination's directory is judged by the bytes, which match, and reported
  (`main.rs:430`). So is a worker that died between the link and that fsync: the
  recovery syncs the file, removes the staged name and never syncs the directory
  (`main.rs:452`). An existing directory is taken without a sync of its parent
  (`install.rs:777`). In each case a power loss after the report may take the name:
  stated without `Uninterrupted`, TLC finds `ReportedIsReadable` violated with one
  crash, one failed call or two files, and one power loss. `home` has crashes,
  failed calls and power losses together, and the property says what is left.
* One-shot sync. `fail()` finds the request by name: a request deleted and
  submitted again can inherit the failure of the first (`sync_controller.rs:166`).
* Holds. A placement without a key (`!!!`), or which parses to another name, ends
  every controller pass at that Hold (`controllers.rs:148`). `hold approve <row>`
  lists again and takes the row of the new listing (`api_cmd.rs:540`); while a
  scan publishes, holds already stamped are missing from the inbox
  (`api_cmd.rs:616`). A track title that begins with two digits comes back as
  another track (`pathschema.rs:771`).
* Grabber. A queue record that moves to a page already read, and an app whose key
  file is missing, look like a release that is gone, and its rejection is
  acknowledged unsent (`servarr.rs:405`, `apply.rs:173`): the `rejections` part
  has both, and `AcknowledgesGone` excuses exactly the scans that met one of them
  (`scan.thin`). A field the app shows masked differs from config.toml on every
  apply, so a second apply writes it again (`apply.rs:481`): `SecondIsNoop` is
  stated of all other fields, with a masked one present. A queue of more than a
  hundred pages fails every scan. PUTs write whole documents back, so an edit made
  meanwhile in the app is lost.
* Seedbox. Bootstrap and upgrade hold different locks and copy to one name
  (`ssh/src/lib.rs:338`): the `install` part has one process. A run that dies
  between the bundle and config.toml leaves old pins (`bootstrap.rs:223`), one that
  dies inside `write_to_dir` a partial bundle that is refused until it is removed.
  The concurrency probe may measure the previous endpoint (`bootstrap.rs:260`).
  config.toml is written back whole (`bootstrap.rs:238`). A file renamed from a
  directory not yet read into one already read is not listed (`walker.rs:280`).
  `doctor` reads the files, not what nginx has loaded (`repair.rs:88`); after an
  edit of `[edge]` no repair ends the freeze until the next bootstrap
  (`arr/src/apply.rs:148`). Two gateways that start over one stale socket may
  remove the live one (`socket.rs:47`): the `gateway` part has one.
* Library. A crash between a CREATE TABLE and its `user_version` leaves a
  `state.db` that does not open (`store/src/lib.rs:346`). A crash between the
  backup link and the rename of an encode answers BackupExists for ever
  (`install.rs:825`), a torn journal entry cannot be read (`encode_cmd.rs:356`).
  A Pull that died in Verifying meets a discarded staging directory and never
  ends (`sync/src/apply.rs:260`), and a failed copy's partial may be discarded by
  the next episode (`:270`). The reclaim preview offers files of a seeding
  multi-file torrent (`seedbox.rs:501`); deletion then refuses them. A deletion
  whose call was given up, because the connection failed or apply was interrupted,
  is carried out all the same (`spawn_blocking`, `net/src/seedbox.rs:203`), possibly
  when the lock is free and an encode has replaced the copy that was verified. Two files of
  one movie with different extensions make every later reindex fail
  (`home.rs:293`). A manual pull goes by the Cluster it read before the lock
  (`home.rs:182`); `bootstrap` writes the spec it read under a newer version
  (`home_library.rs:76`), and `finish_maintenance` gives back the lock it found,
  also over one the operator set meanwhile (`home_library.rs:147`). The `upkeep`
  and `roots` parts have both, and `FreezeStays` leaves out exactly the locks set
  in these two windows (`WritesBack`). The grabber is stopped for a title with any
  row and any file, not for the file at hand (`sync/src/plan.rs:310`), and the controllers and
  the library planner may file an album whose title ends in a year under different
  paths (`pathschema.rs:464`, `hold.rs:120`). `watch` takes a
  Title created by somebody else after it found none as it is (`api_cmd.rs:232`).

## 6. Not modelled

TLS and the cryptography of the bundle, HTTP and gRPC transport, ffmpeg,
telemetry, rendering and layout of the TUI and of tables, argument parsing, and
names that are not UTF-8. Of the scheduler the order of one pass (albums first)
and the disk watermark, of one-shot sync the disk facts behind one predicate, of
reclaim the ranking. Byte progress reports change no decision. The library code
of `sync/src/apply.rs` is modelled although no binary calls it at this commit.
