# Verification of the iSCSI reset service

TLA+ models of the service in `src/`, checked with TLC on small instances and, for the
safety properties that matter most, proved with TLAPS for every instance.  Paths below are
relative to `src/src/iscsi_reset_service/` unless they start with `src/`.

## 1. The system

A publisher PC prepares game volumes ("masters") on zvols that TrueNAS exports over iSCSI.
The service freezes them as *releases* (one ZFS snapshot per volume), and resets game PCs to
the active release by giving each a writable clone that is rolled back before every use.

| Component | State it keeps | Operations | What makes it correct |
|---|---|---|---|
| Reset coordinator, `coordinator.py` (Reset API container) | one lock per client; everything else is on TrueNAS | `prepare`; reads: `validate`, `public_client`, `audit_stale_clones` | a PC never sees a mix of releases, stale content or another PC's clone; nothing is changed under a visible LUN; `ready` is complete; failures can be recovered from |
| Release manager, `release_manager.py` (Management container) | one lock | `stage`, `activate` | the snapshots of a release are of one moment; a release appears whole; repeats are harmless |
| Release database, `release_store.py` | `releases.sqlite3`: releases, their snapshots, the active pointer, executed activations | `reserve`, `add_snapshot`, `mark_staged`, `activate` | one incomplete release; immutable mappings; the active release is staged; replay of a request |
| Management API and dashboard, `configurator_api.py`, `management.py` | login sessions, a mutation lock | login/logout, `stage`, `activate`, `save_config`, manifest, dashboard | gates let through what can succeed and nothing gets stuck; the cleanup badge is never shown for a release in use |
| Configuration repository, `configurator.py` | `config.yaml`, its history; the startup configuration of each container | read, validate, save | no lost update; releases stay resolvable; no operation under a stale configuration |
| Service configuration, `config.py`, `models.py` | none; TrueNAS and its sessions are what it is compared with | `validate_relations`, `validate_live_topology`, the later checks of dashboard, stage and prepare | what a save accepts is what the other checks ask for, and it keeps everybody's disks apart |
| TrueNAS backend, `backends/truenas.py` | one websocket, a lock | RPC calls with two attempts; `discover_configuration` | a call is answered by its own answer only, ends, and has at most one effect per attempt; broken connections are replaced |
| Client helper, `src/powershell/Reset-And-Connect.ps1` | drive letters, sessions, launcher manifests with journals | reset loop, connect, letters, manifest transactions | letters and manifests are as before or as after, never between |
| Publisher helper, `src/powershell/Publish-IscsiRelease.ps1` | pending file, disks online/offline | Disconnect, Reconnect | it can always find back to a connected, online state |

The Reset API and the Management container share TrueNAS and the database (the Reset API
reads it only); they do not call each other.  PCs reach both by HTTP and TrueNAS by iSCSI.
What is hard: the awaits between calls (PCs log in, another release is activated, the other
container works on), calls that fail with or without effect or are acknowledged without it,
restarts between any two calls, and repeats of what was already done.  `PROJECT.json`
lists these hazards at the lines where they bite.

## 2. Modules

| Module | Models |
|---|---|
| `ResetCoordinator` | `prepare` of all clients with the PCs' sessions and writes, activation, faults and restarts |
| `ResetService` | abstract: what a PC may rely on; one release chosen per request, hidden until it is put and reset, shown whole |
| `ResetCoordinatorProofs` | its inductive invariant and theorems, those of `ManagementInspector` on top of them, and the implementation of `ResetService` |
| `ReleaseStore` | the database: one action per transaction, and `StoreSpec`, the database under transactions alone; used by all modules with releases |
| `ReleaseStoreCalls` | the database under arbitrary calls, with what each answers |
| `ReleasePublication` | abstract: releases appear whole, never change, and only then are activated |
| `ReleaseManager` | `stage` and `activate` as calls to TrueNAS and transactions, with the publisher, faults and restarts |
| `ReleaseManagerProofs` | its inductive invariant, theorems, the implementation of `ReleasePublication` and `StoreSpec`, and the same behind the management API |
| `ReleaseStoreProofs` | the invariants and action properties of the database, for whoever uses it by its transactions; that its calls do |
| `ManagementApi` | `stage` and `activate` behind login sessions and the gates of the dashboard; liveness of an incomplete release |
| `ManagementInspector` | the dashboard's reads next to the prepares of `ResetCoordinator`: which releases it shows as unused |
| `ConfigLifecycle` | saves of `config.yaml`, restarts of the management container, and the release operations that depend on the configuration |
| `ConfigLifecycleProofs` | its inductive invariant, theorems, and the implementation of `StoreSpec` |
| `Topology` | operators only: a configuration valid on its own, its comparison with TrueNAS, the checks made of it later |
| `TopologyCheck` | saves, the dashboard and prepare reading a TrueNAS that changes, with the PCs' sessions |
| `TopologyProofs` | its inductive invariant and theorems |
| `StorageCall` | abstract: what one call to TrueNAS may do and when |
| `TrueNasRpc` | the RPC client of a container: lock, connection, login, two attempts, against a TrueNAS that answers late or not at all |
| `TrueNasRpcProofs` | its inductive invariant, and the implementation of `StorageCall` |
| `ResetClient` | one run of the client helper: attempts, iSCSI session, disks and drive letters, failures, crashes and whoever else uses the PC |
| `ResetClientProofs` | its inductive invariant and theorems |
| `LauncherTransaction` | the client helper's synchronisation of Epic Games registrations, with its journal, failures, crashes and recovery |
| `LauncherTransactionProofs` | its inductive invariant and theorems |
| `MC...` | instances for TLC: named sets and functions for the `.cfg` files |

### ResetCoordinator

`step[c]` is the point `prepare` has reached for client `c`, `todo[c]` the volumes its
current loop has still to handle, `release[c]` the release it read.  `enabled` and `disk` are
the extents as TrueNAS has them, `zvol` the datasets at the clone paths: the owner in their
managed properties, their content (`pristine` is exactly the release, `dirty` has been
written by the PC) and their `@clean` snapshot.  One action per call that changes something
(`Disable`, `EnsureReleaseClone`, `SwitchDisk`, `Rollback`, `Enable`, `CloseFirst`, `Close`);
`EnsureReleaseClone` takes two steps for a new clone (the clone, then `@clean`).  Reads that
follow each other are one step: extents, clones and paths of a client change only by its own
handler, which holds the client's lock, and sessions matter at the moment they are read.
The three reads of `VerifyOff` end in the session check and the synchronous read of the
database, so `VerifyOff` is the moment of those.  `Login`, `Logout` and `Write` are the PCs,
`Activate` the other container, `Restart` the Reset API container.

`ResetService` has no steps, clones or failures: for each client the release chosen for its last
request, for each extent the release it shows, whether its content is as released, and whether it is
visible.  `ResetCoordinator` implements it with `release` for the choice, `At` (the release of the
clone an extent is at), `Fresh` (that clone is pristine), `enabled` for what is visible, and the clients
whose last request was answered ready for `ready`.  `Prepare` is `Ask`,
`VerifyOff` is `Choose`, `SwitchDisk`, `Rollback`, `Enable` and the answer are `Put`, `Reset`, `Show`
and `Promise`; new clones and their `@clean`, failures and restarts change nothing the PC can see.

### ReleaseStore, ReleaseStoreCalls

Every write method is one `BEGIN IMMEDIATE` transaction, hence one action.  An action of
`ReleaseStore` is the transaction when it changes something; `ReleaseStoreCalls` adds the
calls that change nothing and the answers.  The files behind a transaction are SQLite's
business: a crash leaves it done or not done.  `StoreSpec` is the database with nobody in particular
using it: any `Transaction` at any time.  `ReleaseStoreCalls`, `ReleaseManager`, `ManagementApi` and
`ConfigLifecycle` are all proved to implement it.

### ReleaseManager

`writes` counts the writes the publisher has made; `snaps` holds, for every snapshot, the
number of writes before it was taken, so two snapshots are of one moment exactly when their
numbers are equal.  `Leftover` are snapshots that are there before the service is used.
`Dataset` is the configured dataset of each volume; it need not be injective, because
`config.py` does not demand it.  The checks and the lookup of `stage` before the first
mutation are `Stage`; `TakeSnapshot` is the loop body, one step for taking the snapshot and
one for recording it.  `ActivateRelease` is what `activate` checks, `CommitActivation` the
transaction after it; a publisher may log in between them.

### ManagementApi

Extends `ReleaseManager` and replaces "anybody calls `stage` and `activate` with any request
id" by what `configurator_api.py` lets through: `ApiStage` when the dashboard offers to create
or to continue, with the request id of the incomplete release or a new one, `ApiActivate` with
the masters enabled and no publisher.  The API's `mutation_lock` is held from the dashboard's
reads to the end of the operation, so gate and first check of the operation are one step.
`login` is the operator's session: `SignIn`, `SignOut`, `TimePasses` (one of the two limits is
reached), `Expire` (the next request finds out) and the restart, which forgets it.  A request looks
at the session when it comes in and never again.

### ManagementInspector

Extends `ResetCoordinator` with a dashboard that holds no lock: `Dashboard` reads the active
release, `Look` one extent (the loop body of `_client`) in any order of the extents, and
`Elsewhere` is any step of prepares, PCs and activations in between.  `updated` and `observed`
are what the scan has found so far, `unused` the releases its last answer shows as "unused by
current mappings"; `since` is a history of the activations since the scan began, for the
property only.  A dashboard that raises is a scan that is not finished.

### ConfigLifecycle

`file` is `config.yaml`, `history` the copies kept of it, `startup` the configuration the
management container was started with, `base[e]` the revision the draft of editor `e` was opened
on.  A save (`ConfigRepository.save_yaml` behind the API's `mutation_lock`) is `Save` (locks and
`base_revision`), `Validate` (discovery, validation, `_validate_release_state`), `Preserve` and
`Replace`; each of these can end it, and the container can die between them.  Stage and
activation are there as far as they depend on the configuration: the gate `restart_required`, the
snapshot names made from `startup`, and the comparison at the end of a stage.  The database
transactions are those of `ReleaseStore`.  `Compatible` depends on whether the database file
exists: `created` becomes true with the first start that finds a configuration.

### Topology, TopologyCheck

`Topology` has one operator for each validator and each later check; a configuration is a record, a
discovery a record of what TrueNAS answered.  In `TopologyCheck` `nas` and `sessions` are TrueNAS,
`saved` and `config` the configuration file and what the containers were started with.  A save
(`Submit`, `Read`, `Save`) and a dashboard (`OpenDashboard`, `Read`, `Judge`) read the `Parts` one
call after another, and `seen` is what they have so far; `Change`, `Login` and `Logout` happen between
any two reads.  `Offer` is the publisher's part of the dashboard, which asks for LUNs and extents
again.  `Prepare` is the request of a PC up to the checks that depend on the configuration.  `stale`
and `drift` are histories of what has changed since it was read.

### TrueNasRpc, StorageCall

`lock` is the queue at `self._lock`, `phase[c]` and `attempt[c]` where `call` is, `connection` is
`self._connection` (connections are numbered, `opened` is the last).  `requests` and `answers` are what
is on its way.  `Open`, `Reuse`, `LoggedIn`, `LoginRefused`, `LoginError`, `Return`, `Error` are the
paths through `_open`, `_exchange` and `call`; `Interrupt` is every other exception: a timeout, a
lost connection or a connect that fails, each of which closes and is tried again once.  TrueNAS deals
with a request when it comes to it, also after the client has closed.  `sent` and `done` are
histories; through them a call is mapped to `StorageCall`, in which a request that was sent is done,
refused, or *loose*: it may take effect at any later time.

### LauncherTransaction

`live` are the files the helper changes on a game PC: the `.item` files, the shared install
database, `LauncherInstalled.dat` and the helper's two state files.  `dir`, `journal` and `backup`
are the transaction directory (`egs-sync-transaction`), `archive` what is kept outside it for good,
`plan` and `todo` what the running helper has in memory.  Mode "Enabled" replaces files one by one
(journal 2), "Aggressive" moves whole trees (journal 4); a *unit* is what one restoring step
handles: a file, or a tree.  The steps of a run are `BeginRun`, then `ReadJournal`, `RestoreUnit`,
`EndRestore` and the removal (`RemoveBackup`, `RemoveJournal`, `RemoveDirectory`) if a directory is
left, then `Plan`, `Open` (copies and journal), `Displace`, `Archive`, `Place` for each unit,
`Verify` and the removal.  `RunFails`, `TransactionFails`, `RestoreFails` and `RemovalFails` are
calls that throw, each with the `catch` that is in force there.  `good`, `spoiled` and `troubled`
are histories for the properties.

### ResetClient

`session` is the session with the target and who began it, `member` the disks it shows, `disk`
every disk as Windows sees it (number, offline, read-only, letter).  `claimed` is
`$connectedTarget`, `stage` and `code` the failed stage and exit code, `known` what the mount
remembers of each volume, `todo` the volumes the current loop has not done.  Up to `Login` there is
one step per call of `Invoke-ResetMain`; `SessionDisks`, `WaitWritable`, `Recover`, `CycleDisk`,
`ConfirmDisk` and `WaitAgain` are the disks of the session with the one offline/online cycle, each
matching the disks anew; `Preflight` to `VerifyLetters` are `Mount-ResetVolumes`, which addresses
disks by number and compares labels (`Label`, which need not tell disks apart); `Fail` is the
`catch`, `Cleanup` the logout with its verification and `NextAttempt` what follows.  A loop that
polls is its last round.  `Assign`, `CheckOwners` and `VerifyLetters` go through the volumes one by
one, and so do the loops that change something; one step each are the read of all disks of the session
(`Get-ResetDiskMappings`) and `Preflight`, which `CheckOwners` repeats volume by volume.  A
call that changes a letter may throw or be acknowledged without effect.  The run ends in
`done`, or in `abandoned` when the end of the attempt's session could not be verified: the logout
failed, or it did end the session and the query that was to show it threw (line 1298 of the helper).
The environment lets disks come and go, gives late letters, breaks the link, logs
others in and out and switches the PC off.  `written` (a session was there since the last prepare),
`steady` (no disk of the session has gone since the target was claimed) and `settled` (nor
since the final verification began) are histories for the properties.

## 3. Modelling decisions

- **Outcomes of a call.**  In the callers' models a call that changes TrueNAS is executed; or is
  executed and raises; or is not executed and raises; or, where the code does not look at the answer,
  is acknowledged without effect.  These cover lost replies, and a repeat by the RPC client that
  is refused because the first attempt was executed.  They are the behaviours of `StorageCall` in
  which nothing stays loose: a call that raised takes effect before the caller's next call or never.
  `StorageCall` allows more, an effect of a call that was given up during the *next* operation, say
  an enabling during the next prepare's rollback; the code has no defence against that but TrueNAS's
  order, and `ResetCoordinator` and `ReleaseManager` do not have it.
- **Acknowledgements believed.**  `rollback_snapshot` that returns is done: nothing reads the
  content back (`coordinator.py:152`).  New clones and snapshots are looked for after their creation.
- **Login answered with an error.**  `_open` sets `self._connection` before it logs in and closes
  only for an answer that is not `SUCCESS`; an RPC error leaves the connection, unauthenticated, to
  every later call until it breaks (`backends/truenas.py:69`).  `Recovers` excepts exactly this,
  `LeftUnauthenticated`.
- **Refusals before the first mutation** change nothing and are no steps.  A change of NAA or
  serial by an update is the alternative "executed and raises".
- **Configurations** have the dataset of each publisher volume and a rest no release depends on;
  the set of volumes is the same in all of them, and a revision, a hash of the file, is the
  configuration itself.  Only the management container's startup configuration is modelled, not
  that of the Reset API, which the operator restarts with it (`src/README.md:349`).  In
  `TopologyCheck`, too, both containers restart at once.
- **Reading TrueNAS.**  Discovery holds no lock on TrueNAS, so it may put together what never was
  at one time, and TrueNAS may change after it.  The code cannot see this; `SavedIsServable` and
  `DisksApart` speak of configurations whose parts have not changed since they were read.
- **What the topology checks do not ask.**  Targets outside of the configuration are not looked at:
  one that shows a configured extent passes every check, and `DisksApart` and `PreparedIsUnused` are
  about configured targets.  Of a group the exact initiator and host must be members, others may be
  too.  The masters' NAA is asked for by the dashboard and by stage, not by a save.  A client's extent
  may show anything when it is saved, a master as well; the first prepare points it to its clone.
  Volumes of the publisher may share a dataset, and `ReleaseManager` allows it too.
- **TrueNAS in `TopologyCheck`.**  `targets` is a function, so TrueNAS has no two targets of one
  name; sessions are a set of (address, initiator, target); a target that is removed keeps its
  associations and its sessions.  Names, numbers and paths are values: their syntax and ranges
  are left out.
- **Launcher files.**  A file is known by whose content it has, a release's or the PC's own.  Of
  `LauncherInstalled.dat` only the entries of the release's games matter, so a file is a
  release's when it has those.  A tree exists exactly when one of its files does.  The copies before
  the journal are one step with it, because nothing looks at copies without a journal; a journal
  that was cut off cannot be parsed and counts as none.  Archives are written under a temporary
  name and appear whole.  The helper's refusals before it makes the directory (a registration
  whose identity changed, a broken bundle) end the run without a change, as `RunFails` does.
- **Removing the directory** is `Remove-Item -Recurse`: the copies, trees before files, then
  the journal.  Between removals anything may happen.  While the directory of a *finished*
  transaction is being removed an interruption makes the next run take it for an unfinished one and
  put back the files of which copies are left; the history `spoiled` marks this.  `AllOrNothing`
  excepts it, `NothingLost` and `SyncedIsWhole` do not.
- **Who else changes launcher files**: the launcher and its user, between runs and when no
  directory is left (`ChangeLocally`); the helper stops the launcher while it works.
- **The PC of `ResetClient`.**  `Label` is any function: the configuration demands distinct LUNs,
  letters and extents but not labels (`config.py:252-276`), and a foreign disk may have any.
  `Label` of a volume is the announced one too; a disk with another label fails every attempt.
  A broken link keeps the session listed, and its disks may come back under other numbers.  The reset service is seen through its answers only:
  it prepares when nobody is logged in.  Boot and system flags, drives without partitions and the
  simulation mode are left out; the settings of the launchers are `LauncherTransaction`.
- **Three known limits of the helper**, which the properties of `ResetClient` except.
  (1) A session that somebody begins between the check of `Connect-ResetTarget` and its login
  (`"late"`) is taken for the helper's own: the login fails and the cleanup ends it, though
  `src/TEST-PLAN.md:186-188` says it must not.
  (2) The mount addresses disks by remembered number (lines 1634 and 1747 of the helper), so after
  a broken link it can change the letter of another disk, though `src/TEST-PLAN.md:209` says
  the letters of others are kept; `OthersKeepLetters` therefore speaks of `steady` runs.
  (3) The final verification finds a disk by its remembered number and compares only its label
  (lines 1644-1678).  After a broken link two volumes of equal label whose numbers are exchanged
  pass it with exchanged letters, and so does an outside disk of a volume's label; ready is then
  reported of the wrong disk.  `MountedRight` therefore speaks of a volume when the run was `steady`,
  or when no other disk has its label (`OwnLabel`) and none of the session's disks went away
  during the verification (`settled`).  That a volume can be written is read before the mount and
  not again; that part is claimed for `steady` runs only.
- **`add_snapshot` of a snapshot another release owns** stores nothing and is acknowledged all the
  same: `INSERT OR IGNORE` (`release_store.py:156`) never raises the error that line 162 translates.
  `ReleaseStoreCalls` has the call as the code has it; `SnapshotOwnedOnce` is what it leaves true.
- **Outside the models**: administrators who delete snapshots, clones or database rows or edit
  `config.yaml` by hand, audit records and logs.
- **Bounds.**  `MaxFaults` bounds failing calls, restarts and untimely logins together,
  `MaxWrites` the publisher's writes; in `LauncherTransaction` `MaxFaults` counts the local
  changes too; `MaxAttempts` are the attempts of `ResetClient`; in `TopologyCheck` `MaxChanges` bounds
  the changes of TrueNAS and `MaxSessions` the sessions at a time; nothing else is cut.  In `ReleaseManager` there are as
  many release names as `Releases`; the code's names never run out.
- **Fairness of `ResetSafe`.**  `WF(Proceed(c))`: asyncio runs every prepare and each call
  ends by the RPC timeout (`CallsEnd` of `TrueNasRpc`).  `WF(Prepare(c))` and `WF(Logout(c))`: the
  helper of the PC asks again after a failure (`Invoke-PrepareWithRetry`, 20 attempts a run, and again
  at the next start) and logs out what it logged in.  Two clients that share a parent for the same
  volume compute the same path and the second is refused for ever, which the configuration allows;
  `EventuallyReady` excepts a client whose path somebody else has (`Blocked`).
- **Fairness of `ClientReady`.**  `WF(HelperStep)`: the script runs, and each of its calls ends by
  a timeout.  `WF(DisksAppear)` and `WF(BecomesWritable)`: Windows shows the disks of a session
  and ends a transient read-only state; that it comes too late for one wait is a fault and counts
  against `MaxFaults`.  `EventuallyReady` promises nothing while another session or another disk's
  letter is in the way (`Obstacle`; after a broken link the helper itself may have given it), and
  allows `abandoned`.
- **Fairness of `StageCrash`.**  `WF(Proceed)`: asyncio runs an operation and each call ends by
  the RPC timeout.  `WF(SignIn)` while there is no good session, and `SF(ApiStage)` while a release is
  incomplete: the operator signs in again and presses "continue" time and again, as
  `src/README.md:596` tells him to; it is strong fairness because logins of the publisher and expiring
  sessions take the button away in between.  `WF(Logout)`: the publisher that disturbed a stage
  disconnects.  Volumes have datasets of their own; `config.py` does not demand that, and with
  a shared dataset the second snapshot is never recorded and the release stays incomplete.
- **Fairness of `RpcCalls`.**  `WF(Call(c))`, `WF(Client(c))`: the event loop runs every coroutine, a
  timeout ends every wait.  `WF` of TrueNAS dealing with requests, only without `trouble`.  `trouble`
  need not end: `CallsEnd` holds while it lasts, `Recovers` speaks of calls made after it.

## 4. Runs

| Run | Instance | States | Shows |
|---|---|---|---|
| `ResetSafe` | 2 clients sharing a clone parent, one with 2 volumes, 2 releases, a foreign dataset, 2 faults, fairness | 391 717 | `CleanSnapshotsPristine`, `VisibleVolumesAgree`, `ReadyIsComplete`, `ChangesOnlyWhenOff`, `ImplementsResetService` under crash and retry, `AttachedIsOwn` between clients, `EventuallyReady` |
| `StoreCalls` | 2 releases, 2 requests, 2 volumes, symmetry | 32 252 | `OneIncomplete`, `SnapshotOwnedOnce`, `Immutable`, `ReplayHarmless` under arbitrary calls |
| `StageCrash` | 3 release names, 3 requests, 2 volumes, a leftover, 2 faults, 2 writes, login sessions, fairness | 244 950 | `StagedIsConsistent`, `RecordedExists`, `SnapshotsOnlyWhenOff`, `ImplementsPublication`; `IncompleteGetsStaged`: continue brings every incomplete release to its end |
| `StageStuck` | 2 release names, 1 write, no leftover | violation | a stage that fails before `reserve` leaves the masters disabled, and the dashboard then offers neither create nor continue (`management.py:74`), where the test at `src/tests/test_release_manager.py:242` calls such failures reconcilable |
| `TopologySaves` | 5 configurations, 2 clients (one on the publisher's PC), 1 volume, 3 PCs, 2 changes of TrueNAS, 2 sessions at a time | 436 016 | `SavedIsServable`, `DisksApart`, `PreparedIsUnused`, `ConflictIsShared`, `OfferIsGood` with changes between any two reads |
| `RpcCalls` | 2 calls, one of them creating, any number of troubles, fairness | 28 860 | `ConnectionClean`, `ImplementsStorageCall`, `CallsEnd`, `Recovers` under timeouts, lost connections, refused logins and late executions |
| `CleanupBadge` | 1 client, 2 volumes, 2 releases, 2 faults | 1 316 274 | `UnusedIsUnused` for a dashboard that reads while a prepare switches extents |
| `ConfigSaves` | 1 volume, 2 datasets, 2 values of the rest, 2 releases, 3 requests, 2 editors, symmetry | 426 889 | `PendingMatchesFile`, `StageUsesSaved`, `NoLostUpdate`, `HistoryComplete`, `SaveKeepsActiveServable` across saves, failures and restarts |
| `ConfigActive` | the same | violation | `activate` compares the names of the volumes only (`release_manager.py:205`): after a change of datasets a release of the old ones can become active, which the coordinator then refuses for every client |
| `LauncherSync` | 2 games, 3 registration files, 2 releases, both modes, 2 faults | 2 425 807 | `AllOrNothing`, `NothingLost`, `SyncedIsWhole` under failures, crashes, failing rollbacks and local changes |
| `LauncherStuck` | the same | violation | after a failure between making the directory and writing its journal (`src/powershell/Reset-And-Connect.ps1:4441`) no later run can recover, where `src/TEST-PLAN.md:303-306` says the next run does |
| `ClientReady` | 2 volumes, another disk with the label of one of them, 3 numbers, 2 letters, 2 attempts, 2 faults, fairness | 373 252 | `MountedRight`, `OthersStayOnline`, `OthersKeepLetters`, `ForeignSessionKept`, `FreshLogin` under failures and disturbances; `EventuallyReady` with fewer failures than attempts |

The bounds are chosen for the interesting cases: two volumes are what a mixed state needs,
two releases what a switch needs, and two faults reach a failed call and a failed disable after it,
or a restart of the retry.  Two writes put one before and one between two snapshots.  In
`StageCrash` the leftover keeps one name from being used, so that two releases are staged and
activated alternately.  In `ConfigSaves` two datasets are a change of datasets and the way back,
and two editors are what a lost update needs; more volumes only repeat the comparison.
In `TopologySaves` the configurations are a good one, one that shares half of the publisher's identity,
one with a master as a client's extent (both refused), one with the clients' extents exchanged and one
in another pool (refused); two changes are one between two reads and one after the save.
In `RpcCalls` two calls are a holder and a waiter; each has two attempts and nothing bounds the trouble.
In `LauncherSync` one release has a game under another file name and lacks the other game, so that
files are replaced, removed and left; two faults are a failing transaction and a failing rollback.
In `ClientReady` two letters on two volumes are what a swap needs, the third disk and number what a
mistaken disk needs, and two faults a failure of the cleanup after a failure, or a disturbance in
the second attempt.  One volume has a label of its own and the other shares it with the third disk, so
the verification meets a disk it takes for the volume.  The code makes 20 attempts; after a cleanup all of them begin alike, only `written`
and the other disks are carried over.  TLC decides deadlock too: all modules keep a step enabled
everywhere, except `ResetClient`, whose helper ends, and `TrueNasRpc`, whose calls do
(`CHECK_DEADLOCK FALSE`).

## 5. Proofs

`ResetCoordinatorProofs` proves, for all clients, volumes, releases, parents, occupied paths
and numbers of faults, from `ConfigAssumption` only: `TypeCorrect`, `CleanStaysPristine`,
`Isolation`, `OneRelease`, `ReadyComplete`, `OnlyWhenOff` and `FreshWhenExposed`.  None of
these is inductive.  `Inv` adds, for every prepare, what it has established at its step
(`Progress`: cloned volumes, switched extents, rolled-back clones), that a clone without
`@clean` has never been visible and is therefore pristine, and that an extent that is not at
its bootstrap dataset exposes a complete clone of its own client.

`ServiceIsImplemented` proves `ImplementsResetService`, one lemma per action.  It needs `Inv` and
`Link` (see below) together: `Chosen`, a client with a release, is past `VerifyOff` because
`release` is cleared when a prepare begins and `Link` ties it to the steps after; a step
of a prepare is never one of a client with a promise standing (`ToldKept`); `Show` has its release whole and fresh from `Progress`.  The step that surprises is
`Write`: two clients may have one clone path (`Parent` is not injective), and a write of one must not
make the other's extent stale.  `ExposedByOne` is why: an extent that is not at its bootstrap dataset
exposes its own client's clone, so one clone is exposed by one client only.

Liveness itself is beyond the prover, but what it rests on is not: that no state is a dead end, that
every step leads on, and that only a fault makes an operation fail.  For prepare these are
`NoFaultNoFailure` and `PreparesAreFinite`.  The first compares the count of faults with what it was
when the prepare began: it has grown, or the prepare is still `Smooth` (every loop has done what it
should to the volumes it has left behind, and nobody is logged in).  It leaves one failure, a clone
path that is taken (`Taken`), and asks for nothing of the clones and extents earlier prepares left.
The second gives each own step a measure (`Nearer`): a later phase, one volume less, or a clone that was
missing.  With weak fairness of `Proceed` and finitely many faults this is the argument of `EventuallyReady`.

`ReleaseManagerProofs` proves, for all volumes, datasets (shared or not), releases, requests,
leftovers, writes and faults, from `StoreAssumption` and `ManagerAssumption`: `TypeCorrect`,
`ReleasesAreWhole`, `PartialIsOff`, `DatabaseIsTrue`, `OffWhenTaken`, and `Implementation`,
that every behaviour is one of `ReleasePublication`.  The heart of `Inv` is `Agree`: the
existing snapshots of a reserved release are equal, and while one is missing the masters are
disabled and the existing ones equal what the masters still hold.  It survives a write because
the masters are disabled, an enabling because the set has been checked by then and there is
only one incomplete release, and a new name because the name has no snapshot on any dataset.

`StageNeverFails` and `OperationsAreFinite` are the same for stage and activate behind the API, the
argument of `IncompleteGetsStaged`.  `StageNeverFails` needs `GateInv` (below) and `OwnDatasetEach`: every
volume has a dataset of its own.  `config.py` does not demand that, but with a shared one the
database accepts the snapshot for one of the two volumes only (`SnapshotOwnedOnce`), so no release of
such a configuration is ever staged.  The instance of `StageCrash` has own datasets.

`ReleaseStoreProofs` proves `OneAtATime`, `ActiveStaged`, `SnapshotsOwned`, `Frozen` and `Replay` of
`StoreSpec`, for all releases, requests, volumes and datasets, from `StoreAssumption`; the
strengthening `StoreInv` adds `AbsentIsEmpty`.  Whoever uses the database by its transactions inherits
them: `CallsUseStore` (a call is one of the four transactions or none, `CallIsTransaction`),
`ManagerUsesStore`, and `ServiceUsesStore` of `ConfigLifecycle`, whose own `Inv` contains `StoreInv`.

`ApiIsManager` proves that the management API allows no behaviour `ReleaseManager` has not, so
`ApiIsSafe`: everything above holds behind login sessions, expiry and gates.  `GateSuffices` is what the
gates are for (`NeverRefused`): with the request id the API chooses, no operation meets a
RELEASE_CONFLICT.  It needs `GateInv`: during a stage the incomplete release, if any, is the one of this
request, and before the commit of an activation its release is staged and its request has not been
executed.

The second part of `ResetCoordinatorProofs` proves `UnusedReleaseIsUnused`, from `ConfigAssumption`.  Why is a
dashboard right that reads without a lock?  An extent it finds enabled tells it which release
the prepare that may be running has read (`Link`: from the moment a prepare has a release,
whatever of the client is enabled is at it).  So for extents looked at, both the release they
are at and the one they could be switched to was active at some moment of the scan
(`ScanInv`), and a prepare that begins later reads a release active then.  The mutant that
does not look whether an extent is enabled loses `Link`.

`ConfigLifecycleProofs` proves, for all volumes, datasets, configurations, releases, requests and
editors, from `StoreAssumption` and `ConfigAssumption`: `TypeCorrect`, `PendingCanFinish`,
`StageIsCurrent`, `NothingLost`, `NothingForgotten` and `ActiveStaysServable`.  `Inv` adds that a
running save excludes a stage and still has the file its editor has seen (`Saving`), that what it
has checked about releases remains true until the replacement (`Checked`; only operations under
the same lock could change it), and that there is no database before a configuration
(`Installed`), without which the check's shortcut for a missing database would let an incomplete
release lose its datasets.

`LauncherTransactionProofs` proves, for all files, games, releases, files found on the PC and
numbers of faults, from `LauncherAssumption` and `NoneAssumption`: `TypeCorrect`, `UndoneOrDone`,
`ReadyIsWhole` and `NothingDestroyed`.  `Inv` says at every step how the files at the last
finished change can be got back: from the copies (`Recorded`), or because a tree that has not been
moved away is still as it was (`Recoverable`); a rollback that failed for some units keeps this
for all of them, restored or not.  `Locals` carries what the archive must hold before anything is
replaced, which is what keeps a PC's own registration when the removal of a finished transaction is
interrupted and undone in part.

`ResetClientProofs` proves, for all volumes, other disks, numbers, letters, attempts and faults,
from `ResetClientAssumption`: `TypeCorrect`, `NoSessionLeft`, `FreshLogins`, `ForeignKept`,
`OthersOnline`, `OthersLetters` and `Mounted`.  `Inv` says whose session it is (`Claims`: a session of
the helper is claimed until its end is verified), that Windows gives a number or letter once
(`Unique`), and that while the session's disks stay, the numbers the mount remembers are theirs and
the disks are writable (`Mapped`).  With `Unique` a remembered number then reaches the announced
disk only.  `Mounted` needs two more: `Shown` (a volume is attached exactly while the session shows it)
and `Verified`: in the final verification a letter that was read for a volume still is the letter of
that volume, through all that happens between the reads of two volumes.  The disk that was read is the volume
by its number while `steady`, and by its label when the label is its own; after that the letter
stays, because only a disk that goes away loses one, and that ends `settled`.

`GivingUpTakesFaults` is what the attempts of the helper are for: as long as no session or disk of
somebody else is in the way (`Obstacle`), it ends without success only after `MaxAttempts` faults,
and is abandoned over a session whose end it could not verify only after a fault in each attempt
and one more in the last logout.  Its invariant `Costly` says that every attempt before
this one has cost a fault, and so has this one unless it is still `Smooth`; whatever numbers, letters and
states Windows gives the new disks are no failure by themselves.  `RunsAreFinite` bounds the steps.
Together they are the argument of `EventuallyReady` of `ResetClient`.

`TopologyProofs` proves, for all configurations, all states and changes of TrueNAS and all PCs,
`TypeCorrect`, `SavedServable`, `Isolation`, `PreparedUnused`, `ConflictShared` and `OfferGood`, from
`PartsAssumption`.  `Inv` is: what has been read and has not changed is still so (`ReadInv`; the
associations as far as the targets were known when they were read), a saved configuration is valid on
its own and against what has not changed (`ConfigInv`), and nobody is logged in to the target of a
client that was prepared and not used since (`FreshInv`).  `TopologyAgree` carries the comparison from
what was read to TrueNAS; that different identities show disjoint extents then follows from
`UniqueExtents` and the *equality* of configured and attached LUNs, which the mutant with an inclusion
loses.

`TrueNasRpcProofs` proves, for any calls, from `CallsAssumption`: `TypeCorrect`,
`ConnectionStaysClean` and `CallIsStorageCall`.  `Inv` adds that only the holder of the lock uses
the connection, that a request is one of a kind and has not taken effect, and that at most one answer
is on its way and its request is settled.  `ConnectionClean` is part of the induction: an answer over
the current connection is of the exchange that is waited for, because every attempt that is given up
closes the connection.

`LockMovesOn` is that nobody waits for ever: the holder of the lock has not ended, and if it waits for
an answer then the connection is lost, the answer is there, or its request is still with TrueNAS
(`Queued`, `Attended`).  With `CallsAreShort` (a measure of at most seven that only the call's own steps
change, each of them downward) it is the argument of `CallsEnd`.  `NoLaterCallFails` is that of
`Recovers`: a call made after the trouble raises only over a connection that a login answered with an
error has left unauthenticated (`LeftUnauthenticated`, see section 3).

Only model-checked: `EventuallyReady` (of both modules that have it), `IncompleteGetsStaged`,
`CallsEnd` and `Recovers`: their formulas need fairness and `ENABLED`, which are beyond the prover; the
safety they rest on is proved, as said above.  Proved and in no run: those safety halves; `TypeCorrect`
of every module (of `ManagementInspector` as part of `InspectorSafety`; `CallTypeCorrect` of
`ReleaseStoreCalls`); `PartialIsOff`, `ActiveStaged`, `Acknowledged` and `NoSessionLeft`, which the
other proofs rest on; `FreshWhenExposed`, which `ImplementsResetService` contains; and `GateSuffices`
(`NeverRefused` holds on the instance of `StageCrash` too).  `StoreSpec` of the users of the database
is proved only.

## 6. Not modelled

- **Publisher helper** (`src/powershell/Publish-IscsiRelease.ps1`).  Its logins, writes and logouts are
  the environment of `ReleaseManager`.  The pending file, the export of launcher files and the order
  of Disconnect and Reconnect are not modelled yet; see the plan.
- **Client helper.**  The settings of Majestic and GTA5RP, and journals 1 and 3 of older versions.
- **`audit_stale_clones`** of the coordinator, a read for the command line.
- **Management API**: checks of origin and host, creation of tokens, the manifest of helpers.
- **Mock backend** (a test double), runtime, command line, packaging, web interface, installers and
  logging: sequential, or without state of the service.

## 7. Plan

In this order:

1. `PublisherHelper`: pending file, disks and sessions through Disconnect and Reconnect with crashes
   between any two steps.  What is pending is offline (`OfflineIsPending`), what was logged out was
   offline (`DisconnectedIsOff`), and Reconnect finds back from everywhere (`EventuallyBack`).
2. Loose calls of `StorageCall` in `ResetCoordinator`: which of its properties survive an execution
   that comes during a later prepare, and from which assumption on the order in TrueNAS.
3. `audit_stale_clones` next to running prepares, with the invariant of `ManagementInspector`.
4. The client's settings of Majestic and GTA5RP, transactions of their own with hash maps and the
   registry as markers.
