# uc-aom: models, checks and proofs

uc-aom is the add-on manager of a controller. It installs, updates,
configures and removes *add-ons*: a manifest, a compose stack with images and
volumes, a permission file and a set of reverse proxy routes. This directory
holds TLA+ models of it and of the packager that publishes add-ons, the TLC configurations that check them, and
TLAPS proofs. Paths below are relative to `src/internal/aom` unless they start
with `src/`.

## 1. The system

| Component | Code | State | Operations | What is hard |
|---|---|---|---|---|
| Transaction scheduler and transactions | `service/transaction.go`, `service/transaction_scheduler.go` | the scheduler's lock and current `Tx`; per `Tx`: `done`, hooks, affected add-on, context | `CreateTransaction`, `Commit`, `Rollback`, `SubscribeRollbackHook`, `setAddOnContext`, `AffectedAddOn`, goroutine `awaitDone` | three parties end a transaction; readers without the scheduler's lock; hooks run after `done` is set |
| Add-on service | `service/service.go`, `service/replace_transaction.go` | none of its own; writes all resources | create, replace (update or configure) and delete routines | about ten external calls per routine, each may fail; hooks; crashes |
| gRPC server | `server/server.go` | none | `CreateAddOn`, `UpdateAddOn`, `DeleteAddOn`, `GetAddOn`, `ListAddOns` | concurrent requests; checks before the transaction is open |
| Local catalogue | `catalogue/local-catalogue.go`, `manifest/` | one directory per add-on | `PullAddOn`, `FetchManifest`, `GetAddOn(s)`, `DeleteAddOn` | half-written manifest after a crash |
| Stack service | `docker/stack_service.go` | containers, images, volumes in docker | up, down, import, image and volume removal, status | shared images; docker refuses to remove what is in use |
| Permission writer, reverse proxy | `iam/`, `routes/` | files, links, the running nginx | create, delete | several files per route; reload with a timeout |
| Registries | `registry/` | remote registry; drop-in directory | `Tags`, `Repositories`, `Pull`, `Delete` | layers that cannot be fetched are skipped |
| Remote catalogue, remote registry | `catalogue/remote-catalogue.go`, `registry/oras_*.go` | one temporary directory per add-on; a map of repositories; packages migrated in memory | `GetAddOn`, `GetLatestAddOns` | concurrent requests share all three |
| File server, SWUpdate watcher | `fileserver/` | a socket, two channels | drop-in installation after a firmware update | reconnecting while reading; a package is deleted whether or not it was installed |
| Migration | `migrate/`, `docker/migrate.go`, `routes/migrate.go` | version file, volumes, cache directory | migration of add-ons of older versions | crash between any two steps |
| Startup, network connector | `cmd/aom.go`, `service/addon_st*.go`, `network/` | | stop, migrate, start, connect, drop-ins, serve | order and partial failure |
| Volume drivers | `docker/local-public-*.go` | map of volumes and its file | docker's volume plugin calls | the lock does not cover the reads |
| Pure functions | `src/internal/pkg/manifest`, `status/`, `env/`, `manifest/settings.go`, `system/`, `yaml/` | none | version order, status, settings, disk space, compose file | boundary cases |
| Packager | `src/internal/aop`, `src/internal/pkg/oras-wrapper` | packages and tags in the registry | push, pull, export | tags move while a device or an export reads them; platforms that are skipped |
| Command line client | `src/internal/cli` | none | list | |

How they interact: a gRPC handler (or the drop-in installer) asks the
scheduler for a transaction, which is refused while another one is open, and
runs a routine of the service in it. The routine calls the catalogue, the
stack service, the permission writer and the reverse proxy in turn, and
subscribes a rollback hook before each effect. The handler's deferred
`Rollback` runs the hooks in reverse unless `Commit` came first. Readers ask
the scheduler, without its lock, which add-on is under transaction. Hooks live
in memory only; the resources outlive the process. Before it serves, the
process stops what still runs, migrates what an older release left, makes the
internal bridge network anew, and starts the add-ons. Catalogue, installation
and update read packages that a publisher pushes to a registry meanwhile.

The hazards of the code, each at its line and with the properties aimed at it,
are listed in `PROJECT.json`.

## 2. Modules

| Module | Models |
|---|---|
| `UndoLog` | what a transaction promises: one open at a time, a log of undo entries, commit forgets it, abort takes the entries off youngest first |
| `Transaction` | `Tx` and `TransactionScheduler` at the grain of atomic operations and lock sections: callers, readers, `awaitDone` goroutines, contexts |
| `TransactionProofs` | theorems about `Transaction`, and that it implements `UndoLog` |
| `AddOnResources` | what an add-on consists of on the device, and what one call of docker, catalogue, IAM and routes does to it |
| `AddOnService` | handlers and routines of service and server, step by step over `AddOnResources`, with failures, hooks and crashes |
| `AddOnServiceProofs` | theorems about `AddOnService` |
| `DropInInstaller` | `InstallAllDropInAddOns` over the drop-in directory, beside clients of the server |
| `SWUpdateWatcher` | the goroutine that reads SWUpdate's socket and the one that reconnects and installs |
| `VolumeDriver` | the two volume plugins: map, mutex, directories, state file |
| `DropInInstallerProofs`, `SWUpdateWatcherProofs`, `VolumeDriverProofs` | theorems about these three |
| `Manifest` | operators: what the code computes with manifests (migration, volumes, images, settings, compose file) |
| `AddOnView` | operators: installed add-ons as the server shows them, with status and settings |
| `Migration` | the migration of what an older release installed, step by step on disk and docker |
| `Startup` | composes `Migration` with stop, network, reconnect, start, drop-ins and the end of the process at any point |
| `StartupProofs` | theorems about `Startup`, and so about `Migration` |
| `ReverseProxy` | files and links of a route, the reload of nginx and its timeout |
| `ReverseProxyProofs` | theorems about `ReverseProxy` |
| `VersionOrder` | operators: the order of versions |
| `OciPackage` | operators: how a package is built, and how it is migrated and read |
| `Packager` | push, export and the registry |
| `RemoteCatalogue` | the requests of the device that go to the registry |
| `Distribution` | composes `Packager` and `RemoteCatalogue` |
| `DistributionProofs` | theorems about `Distribution`, and so about `Packager` and `RemoteCatalogue` |
| `MC...` | the instances for TLC, one per module with a run |

### Transaction

Each caller is a goroutine with `pc`; `mine` is its `tx` variable. Variables
`schedMu`, `schedTx`, `done`, `ctxDone`, `rollbackHooks` and `affected` are the
fields of the same meaning. A `CompareAndSwap` on `done` is one action, as is
each lock section that no other goroutine can look into. `rollback` and
`Commit` both finish with `cancel` and `close`; the goroutine that won `done`
walks through `ending`: `lock`, `hooks`, `cancel`, `close`, `closed` (a commit
starts at `cancel`). `Tx.mu` is read-locked exactly while `ending` is `hooks`,
so it has no variable; writers (`SubscribeRollbackHook`, `setAddOnContext`,
`close`) wait for that. `ContextMayEnd` chooses between contexts that may end
at any step and `context.Background()`, which every caller in the program
passes. `winner`, `subscribed`, `ran`, `committed` and `report` are history
variables that no action reads.

### AddOnResources and AddOnService

A manifest is its version number, `Absent`, or `Corrupt` while the file is
being written. `ImagesOf`, `VolumesOf` and `RoutesOf` are the contents of the
manifests. Docker is external and modelled from its use: down keeps volumes
and images, up creates the declared volumes and pulls images that were not
imported, and an image or volume in use cannot be removed.

Each client is a request handler. Its `pc` names the next call it makes;
`hooks` is `Tx.rollbackHooks`; `todo` is the rest of a loop over images or
routes. Every external call has a disjunct that succeeds and one that fails,
the latter before, after or in the middle of its effect, as far as the call
can leave one. `Fail` is the handler's return with the deferred `Rollback`:
`tx` becomes `undoing`, from which moment another transaction may be opened
(that is what `Transaction` shows of `done`), and `RunHook` runs the hooks from
the last. Hooks ignore the errors of their calls; `leaked` remembers the
add-ons to which that happened. `Crash` forgets everything but the resources.
Update and install share `CreateAddOnRoutine`, as in the code: an update
returns from it to `prune`, an installation to `commit`.

Abstracted: what the checks of disk space, schema, manifest version and
capabilities compute (they succeed or fail), contents of files, settings and
their merging, progress heartbeats on the stream, log output, and the
permission check in front of a request, which refuses it before anything
happens. A route and a permission are one resource each.

### DropInInstaller

`package[a][v]` says whether the directory of a version is there and whether
its files are complete; `repositories` are the directories above, which may be
empty. Copying goes on beside everything else. The installer's `pc` walks
through `InstallAllDropInAddOns`: list, take the latest tag of a repository and
defer its deletion, try to create, check the version and try to update, and at
the end the deferred deletions in reverse. Each of the two routines has a
transaction of its own. The service is reduced to what the loop sees of it:
`owner` is who has the open transaction (the promise of `UndoLog`), `installed`
is the version in the manifest, and a failed routine lets go of the
transaction before its hook has removed the manifest. The program has two
drop-in directories with one installer each; they do not run at the same time,
and the model has the one that is also used after startup.

### SWUpdateWatcher

Connections are numbered as they are made; `conn` is the field `u.conn`, which
one goroutine writes and the other reads without synchronisation. `maySee` is
the set of values the reader may load: those written since the two goroutines
last met on an unbuffered channel. `attempts` counts the calls of `Dial`. The
connection that is replaced is not closed, so it stays readable, and messages
keep arriving there. SWUpdate is external: it sends to every open connection,
and fails and comes back up to `MaxFailures` times.

### VolumeDriver

`pc` has one point per read of the map, write of the map, system call and lock
operation of a request; `Reading` and `Writing` are the points at which the
access is the next step. `removing` tells a `Remove` from a `Create` on the
mutex. `saveState` truncates the file and then writes it. `OwnDirectory`
chooses the driver: the volumes of `localPublicDriver` have a directory each,
those of `localPublicAccessDriver` share one that nobody removes. `unsaved`
and `ghosts` are history: a failed save, and volumes that a restart brought
back without their directory.

### Manifest, AddOnView, Migration, Startup

A manifest is a record with those fields of `Root` that a computation looks
at. `Migration` is the part of the process from `getVersion` to
`updateVersion`; its variables are what is on the disk and in docker
(`release.json`, manifests, portainer's stacks, containers, volumes, routes,
the bridge network) and the local variables of the functions, which no restart
keeps. Files that are truncated before they are written are two steps, those
that are renamed are one. A volume has data, a part of it, what the image put
there, or nothing. `Startup` starts from every older release that `Migrate` has
a case for or that `getVersion` resolves, from the factory, and from a newer
release. `Die` ends the process at any step, which stands for the device losing
power, for `SIGKILL` and for every call whose error is returned to `main`;
`faults` counts those. `interrupted` is history: settings or data were at stake
when the process ended. `SettingsKept` and `DataKept` are stated for the other
behaviours, because the code does lose them: the settings of the user exist in
portainer's containers alone, and are gone once these are deleted; a volume
that was cleared is cleared again by the next start, while its data is in a
cache directory with another name. `CurrentMeansMigrated` and `ComesUpOrStuck`
have no such exception. `Stuck` lists the states of the device that no start
gets over; `ComesUpOrStuck` says there are no others.

A loop over add-ons is the set of those that are left; the next one is the
first of them in `AddOnOrder`, the order in which `WalkDir` lists the catalogue
(`FirstOf`). `StartupAssumption` says of the constants what release 0.3.2 can
have installed (`IsManifestV0_1`): services and environments of the only type
there was, at least one service (compose refuses a file without), no service on
a network that is not declared (compose refuses that too), settings and items
with the fields of `v0_1/models.go`, no two settings of one name, and no
environment that already has the name under which the migration adds the
bridge, for it would be overwritten. What an older release left was created
with what a client sent who had been shown the settings of the manifest with
the values of the user (`SettingsSent`), as any installation is.

`UnchangedSettingsStay` has a hypothesis on the manifests and the user, which
the instance states as an assumption and TLC evaluates (`ListsAreClear`). The
values of the user for drop-down lists are items of them: a client sends the
items back with one of them marked. And a list without a selected item must not
have the name of a variable that only some services have, or have with
different values: `GetAddOnEnvironment` reads the first container alone, so its
value would be shown as selected, and sent to all services.

### ReverseProxy

`file`, `link` and `served` are the two files of a route, the links to them and
what nginx has loaded. The length of a file stands for its content: a shorter
text over a longer one leaves the end of it (`clean`). `jobs` are the reload
jobs of systemd, which go on when the call that queued them has timed out
(`"late"`). A caller is a goroutine with one transaction after the other (`tx`),
whose routine deletes and creates routes; when it fails, its hook deletes the
routes it publishes (`made`, `todo`). `rollback` sets `done` before it runs the
hooks (`service/transaction.go:182`) and `reverse_proxy.go` has no lock, so the
hooks of one transaction work beside the routine of the next, on the same route
too, between any two of its file operations. `absent` are the routes of no
installed add-on, for which alone a routine calls `Create`. nginx is external: it
loads what is behind the links, refuses a link to nothing and may refuse a text
with a stale end. `os.Stat` is taken to fail for what is not there and for
nothing else.

History: `overlapped` are the routes that two calls have been at work on at
once, `disturbed` those of which a failed deletion may have left something. On an
overlapped route a hook may unlink, the next `Create` link, and the hook remove
the file: the link is then one to nothing, which stops every later reload.
`LinkedIsWhole` and `SuccessMeansServed` are therefore stated of the other
routes; `ServesWhatIsLinked` is stated of all.

### OciPackage, Packager, RemoteCatalogue, Distribution

A blob is the record of its content, so that equal content has an equal digest.
`Packager` has one publisher and one export at a time; what is pushed is not
visible until its root is tagged, so the copy of the other blobs is part of
`Copy`. `MCDistribution` submits packages that are correct and some that are
not (no vendor, no logo, half of the credentials, a single-platform image, two
services with the same image, a manifest that the schema refuses).
`RemoteCatalogue` has the requests of the server
as sequences of calls of the registry; each looks for the repository first, as
`codeNameAdapterRegistry` does. `cache` is the migration storage. `mixed` and
`seen` are history: whether another request unpacked at the same time, and which
packages had a tag during the request. Requests that change an add-on exclude
one another (`UndoLog`); their resources are those of `AddOnResources` and are
reduced here to the package whose manifest is installed and the images it runs
with. `Pull` passes over a layer that it cannot fetch and goes on
(`registry/oras_addon_registry.go:118`): `PullManifest` fetches the images of the
package but for any subset of them (`fetched`), `ImportImages` imports what was
fetched, and compose gets the images that are missing from wherever their
references lead (`Elsewhere`) or fails (`ImportFails`). Two unsynchronised writes
to the map of repositories may end the process (`Crash`).

The JSON schema is not in the repository; which packages it refuses is the
constant `Malformed`, and `Validate` asks for it where the code does: in `push`,
when the catalogue is listed (such an add-on is left out), and in
`CreateAddOnRoutine` (`service/service.go:79`). The last comes after the package
was pulled, which in an update is after the old add-on was deleted
(`service/replace_transaction.go:39`); manifest version and features (`Accepts`)
are checked before that, and again here.

Definitions under the comment "Faulty variant" are plausible mistakes in the
code. Nothing uses them; each replaces the definition after it in a run that
must then fail, to show that the property watches this code.

## 3. Runs

| Run | Instance | Shows |
|---|---|---|
| `tx_background` | 2 callers, 1 reader, 2 transactions, 2 hooks, context never ends | one open transaction; commit and rollback exclude each other; hooks in reverse and all of them; `Done` means done; no report from a closed transaction; implements `UndoLog` |
| `tx_context` | 2 callers, 2 transactions, 1 hook, contexts may end, fair | every transaction ends, no goroutine is left behind |
| `svc_clients` | 2 clients; an add-on whose second version adds an image, drops a volume and keeps the rest, and a codesys add-on that shares the added image | no orphans, commit means done, updates keep data, status of the whole operation, no handler waits for another; with requests in parallel |
| `svc_downgrade` | violation; 2 clients, 2 versions | an update installs an older version |
| `drop_safe` | 1 repository, 2 versions, 2 clients, a crash, fair | a package that the run has read is deleted only after it was dealt with, and not while it is being installed; a run ends, whoever holds the transaction |
| `drop_lost` | violation | a package is deleted that was never tried |
| `watcher` | 2 failures of SWUpdate, 2 messages, 2 attempts, fair | at most two reconnects for a loss; a `SUCCESS` that was read is acted upon; the watcher comes back or gives up |
| `watcher_once` | violation; 1 failure of SWUpdate | two reconnects for one lost connection |
| `volume` | 2 goroutines, 2 volumes, own directories, restarts, fair | state file and directories agree with the map; every request is answered |
| `boot` | 2 add-ons (one with two volumes and settings of all kinds, one on the bridge whose stack keeps its name), 6 origins, 3 faults, fair | what `release.json` claims is true; data and settings are kept; settings that are shown and sent back change nothing; what serves was started; a start comes up or is stuck for a named reason |
| `proxy` | 2 callers at 1 route, 2 lengths, 3 calls of routines and those of their hooks, 1 fault, fair | behind every link is a whole file and a success is what nginx serves, unless two calls were at work on the route at once; nothing is forgotten after a timeout, even then; every call returns and every failed routine is rolled back |
| `distribution` | 2 requests, 2 commands, 1 outage, 3 of them in all, 2 at a time; 2 older packages, one of version 0 and one that the schema refuses, 9 submissions, fair | replies and exports are of one package and of the right one, and an installation has images of its package or such as compose got from elsewhere; the latest is the greatest; a refused update keeps the old add-on, unless the tag moved or the schema refuses the new one; every request is answered |

Bounds. Two transactions are enough for the last one to be rolled back while
the next begins, two hooks for an order, two callers for every race on the
scheduler and on `done` (a third party, `awaitDone`, belongs to the
transaction). Two versions make an update and, after it, a stale one. Two
clients make every pair of requests; a third is refused as the second is.
Nothing in `AddOnService` is bounded but the sets: requests, failures and
crashes go on for ever. The codesys add-on is on the device from the beginning
(`Delivered`) and stays as it is, for the service neither replaces nor deletes
it: an image that it shares cannot be removed with the other add-on's. Two
add-ons that both come and go are the subject of the proof. The names of callers and hooks are symmetric in
`tx_background`, where everything that is checked is a safety property and
`UndoLog` does not tell hooks apart, and so are those of clients in `svc_clients`,
which checks no liveness either; no run that checks liveness uses symmetry.
`Transaction` may stop once `MaxTx` transactions are over (`Finished`
stutters), so deadlock is checked in every run.

In `DropInInstaller` two versions make an update and a package that is too
old; one crash (`MaxCrashes`) can fall on every step, and with crashes without
end no run need ever finish. Several repositories, and the deferred deletions
of all of them, are the subject of the proof. Two failures of SWUpdate
(`MaxFailures`) let the watcher lose the connection it has just made. In
`VolumeDriver` nothing is bounded; two goroutines contend for the mutex and
look at what the other does, and the proof has any number of them and both
drivers. `SWUpdateWatcher` may stop (the watcher may be told to), so its run
does not check for deadlock, and nor does `watcher_once`.

In `boot` three faults let a migration be interrupted, its repetition be
interrupted at another step, and `updateVersion` fail; two add-ons make the
loops and the fall-through between the cases, and one of each kind of name is
needed because a stack that keeps its name is not moved. In `proxy` three
calls make a creation, its deletion and a second version over what was left, and
with the hooks that follow a failure every pair of operations at work on the
route at once; one fault is enough to leave a file or a link behind for the calls
after it. The timeout of a reload is not counted, so every transaction may fail
without a fault. Several routes, whose reloads see each other's files, are the
subject of the proof. In `distribution`
the bounds on events allow every pair of requests with one push, export or
outage between any two of their steps; an update and the move of the tag it
reads need no more. Its packages and tags are the smallest set with a package of
version 0, one for two platforms, one that does not fit, one that the device
may not run and one that the schema refuses although it is in the registry
(another release of the packager may have pushed it). It stops when its events
are used up, so its run does not check for deadlock; `boot` and `proxy` do.

Fairness. A goroutine that can take a step eventually does: weak fairness of
the ending of a transaction and of `awaitDone`, which is Go's scheduler together
with external calls that return, with an error if nothing else. `LockScheduler`
is not fair, for nobody has to ask for anything; nor is the subscription of a
hook, so that a routine need not go on for ever, nor `ContextEnds`.
`AddOnService` asks for none: that a handler never waits is an invariant.
`DropInInstaller` asks fairness of the installer alone: not of copying, nor of
clients. `SWUpdateWatcher` asks it of both goroutines and of SWUpdate's return,
not of its messages. `VolumeDriver` asks weak fairness of every step of a
request and strong fairness of `Lock`: Go's mutex hands itself to a goroutine
that has waited for a millisecond. Nothing is asked of `Restart`. `Startup`
asks it of the steps of the process and of `Boot`: systemd starts the service
again when it has ended. Nothing is asked of faults. `ReverseProxy` asks it of
the steps of a call, of which the timeout is one, and of what follows the
failure of a routine, and of neither systemd nor nginx. `Distribution` asks that
some request goes on as long as there is one; the registry may stay unreachable, and the packager may stop.

### What the violations say

* `svc_downgrade`: `UpdateAddOn` compares versions before it has a transaction,
  and the routine compares for equality only.
* `drop_lost`: "Reading a 'SUCCESS' message from the socket start the
  installation of all drop-in add-ons", but the deletion is deferred before
  the transaction is asked for, and a refusal is not told from a failure. The
  deletion is of the whole repository (`RemoveAll`), so a version that is copied
  after the tags were read is deleted unseen as well; `HandledBeforeDeleted` is
  about the versions that were read, and is what is true of them.
* `watcher_once`: the watcher is to "reconnect once"
  (`fileserver/fileserver.go:118`), but its listener may find the dead connection
  again and cause a second reconnect. `ReconnectsAreBounded` shows that there is
  no third.

Other disagreements have no run of their own. The scheduler protects "the one and
only transaction" (`service/transaction_scheduler.go:14`), but `rollback` sets
`done` before it runs the hooks and `CreateTransaction` looks at `done` only: a
transaction may begin while the hooks of the last one run, be it for the same
add-on. `UndoLog` promises no more than this. `AddOnService` therefore lets them
interleave; `overlap` remembers it, and `NoOrphans`, `CommitMeansDone` and
`UpdateKeepsData` are stated for behaviours in which it has not happened.
`ReverseProxy` has it for the files of a route (`overlapped`). `Pull` is to
"Fetch all data associated with the app" and to return "an error which describes
the success status" (`registry/addon-registry.go:15`), but a layer that cannot be
fetched is logged and skipped, and the error is that of an earlier call: an
add-on may be installed without images of its package. `InstallIsOnePackage` is
what is true instead: manifest and images are of one package but for images that
compose got by itself. The mutex of the volume
drivers is to "prevent concurrent access to volumes"
(`docker/local-public-access-driver.go:28`), but no reader takes it.
`SubscribeRollbackHook`
accepts a hook on a transaction that is done, although "all operations on the
transaction fail with ErrTxDone" (`service/transaction.go:39`); this needs a
context that ends, which no caller has today. The drop-in installer compares
versions (`fileserver/fileserver.go:198`) between two transactions, as
`UpdateAddOn` does before one. And what no document speaks of: an update looks
at the manifest version and the features of the new package before it deletes
the old add-on, at its schema only afterwards, so that an update to a package
with a malformed manifest is refused and leaves no add-on. This is a proviso of
`RefusedUpdateKeepsOld`.

## 4. Proofs

`TransactionProofs` proves for every set of callers, readers and hooks and
every bound, from `TransactionAssumption` (the bounds are naturals, `NoCaller`
is not a caller): `TypeOK`, `OneOpenTransaction`, `CommittedIsKept`,
`RolledBackInReverse`, `DoneMeansWorkDone` and `NoReportFromClosed`.

None of them is inductive. The invariant has five layers:

1. `TypeOK`.
2. `SchedulerInv`: whoever is between the check and `BeginTx` holds the
   scheduler's lock, so that the check is still true when the transaction
   begins; `schedTx` is the last one begun and all before it are done.
3. `OutcomeInv`: `done`, `ending` and `winner` agree; exactly one method wins,
   and only `rollback` runs hooks.
4. `HooksInv`: the hooks that ran are the youngest ones in reverse, and
   `index` stands at the youngest of the others. This needs layer 3 to know
   that no hook runs in a committed transaction.
5. `BackgroundInv`, only for `context.Background()`: a transaction's context
   ends only by its own `cancel`, its caller is the only one who works with it,
   and no hook is added once it is ending.

`FateSteps` reduces the steps that matter to layers 3 and 4 to eight actions.
The two properties about contexts that never end rest on layer 5, the others
on 1 to 4.

Its last part proves that with `context.Background()` `Transaction`
implements `UndoLog`: the state of a transaction maps to `ending` and `winner`,
its log to the hooks subscribed and not yet run; every step is a step of the
log or leaves it alone. UndoLog promises less than one might expect, and this
is what `AddOnService` is built on: a transaction may begin while another is
undoing.

`DropInInstallerProofs` proves `PackageThereWhileInstalling` and
`HandledBeforeDeleted` for any number of repositories, versions, clients and
crashes. The invariant: the installer has the transaction exactly while one of
its routines runs; what it has at hand is the latest of the tags it read, and
still there (`LatestAtHand`); and every repository it has looked at in this run
is settled but the one at hand (`AllSettled`). `LatestIsMaximum` shows that the
last of the sorted tags is what the loop takes it for; it rests on the
well-foundedness of the naturals. A package can only disappear in `Delete`,
which comes when nothing is at hand. `HandledBeforeDeleted` is about the versions
the run has read; for one that is copied later it would be false.

`SWUpdateWatcherProofs` proves `ReconnectsAreBounded` for any number of
failures, messages and attempts. The count alone is not inductive: the
connections that are alive are the youngest ones, there are at most two of
them, and once there are two the listener can neither hold nor load a dead one
(`Broken`).

`VolumeDriverProofs` proves `FileIsCurrent` and `KnownHasDirectory` for any
number of goroutines and volumes and restarts at every step. The invariant
adds that a goroutine is inside the critical section exactly when it holds the
mutex (`HolderInside`), that file and map agree until the holder writes the
map (`CurrentUntilWritten`), and that the directory of a volume is there when
it enters the map (`MadeBeforeInsert`).

`AddOnServiceProofs` proves `NoOrphans`, `CommitMeansDone`,
`StatusOfWholeOperation` and `UpdateKeepsData` for any number of clients,
add-ons, versions, images, volumes and routes, whatever the device is delivered
with, from `AddOnResourcesAssumption` alone. The properties speak of the moments after a step or before a commit and
are not inductive: that a rollback leaves nothing behind depends on which hooks
were subscribed when the failure came, and that a commit is complete depends on
every earlier step of the routine. The invariant `ServiceInv` has two halves:

1. `Control`, for every goroutine by itself and without any proviso: which
   request brings it to which point (`RequestInv`), whether its transaction is
   open (`TxInv`), the status that was set first (`StatusInv`), the version that
   is being replaced (`OldInv`), the hooks, which are a prefix of the five of
   `CreateAddOnRoutine` or the one of `configureAction` (`HooksInv`), and the
   rest of a loop, which is over things of the right version (`TodoInv`).
   `StatusOfWholeOperation` follows from this half.
2. `Work`, as long as no transaction began during the rollback of another: only
   one goroutine is between its first effect and its last (`OneAtWork`), what
   nobody is at work on is in order (`Tidy`), and at each point of a routine the
   resources are those the steps before it have made or removed (`InstallInv`,
   `RemoveInv`), also while hooks run (`UndoInv`). The proof that a hook keeps
   `UndoInv` is where the order of the hooks matters: the manifest goes last, so
   that the images it refers to are known until then.

The proviso `~overlap` is a weakness of the code, not of the proof: see "What
the violations say" for why it is there. `leaked` excepts an add-on for which
the call of a hook has failed, an error that `rollback` logs and passes over.

`ReverseProxyProofs` proves `LinkedIsWhole`, `SuccessMeansServed` and
`ServesWhatIsLinked` for any number of callers, routes, versions, calls and
failures, with the hooks of all failed transactions beside the open one.
`ProxyInv` has two halves:

1. `FilesInv`: which calls a transaction may be in (`CallInv`); two calls at work
   on one route are remembered (`Alone`); for a call that is alone at its route,
   how far files and links are at each point of `Create`, and of `Delete` or the
   hook (`CreateInv`, `DeleteInv`); and what calls have left behind on a route
   where none overlapped (`LeftInv`): nothing if it is no add-on's and no hook has
   failed, both files with their links in the version of the last success, and a
   whole file behind every link. That `Create` finds nothing under a route rests
   on `absent`, which is why the last hook, which removes the manifest, disturbs
   the routes that the next transaction has created meanwhile.
2. `ServedInv`: when no job is queued and no reload was refused, every route that
   no call, hook or failed routine is still to touch is served as it is linked,
   overlapped or not. The property says this only of moments when nothing is
   under way, which a reload for one route beside the change of another does not
   preserve.

The proviso on overlapped routes is a weakness of the code: without it
`LinkedIsWhole` is false, with three calls of routines and a hook on one route.

`DistributionProofs` proves `ExportIsOnePackage`, `RepliesAreTrue`,
`InstallIsOnePackage` and the action property `RefusedUpdateKeepsOld` for any
set of tags, packages and requests, whichever layers are passed over and
whichever packages the schema refuses, from `DistributionAssumption`. Of this, a
tag of a package is a tag the registry may have, and package names differ from
the marks for the directory. `DistributionInv` has, for
the registry, that a tag and a migrated package are found under their own
version only (`RegistryInv`, `CacheInv`); for an export, that what is left and
what is written make up the platforms of the resolved package (`ExportInv`); for
each request, where its call stands and what for (`ControlInv`, `PurposeInv`)
and that its package is the right one and what was fetched is of it
(`PackageInv`); and for the requests
together (`TogetherInv`): one at a time changes the add-on, so that the
installed one is there until the update that checked it takes it away; what has
a tag now has been seen by all; and a request that unpacks alone finds in the
shared directory nothing, or what it has written itself (`DirInv`). The latter
is why the proviso `~ mixed` in `RepliesAreTrue` is exactly what is needed: with
two requests in the directory a reply may be about the other's version.
`RefusedUpdateKeepsOld` excepts an update whose tag moved between the check and
the pull, and one whose package the schema refuses: both are refused after the
old add-on was deleted.

`StartupProofs` proves all safety properties of `boot` for any add-ons,
manifests of version 0.1, values of the user and number of faults, from
`StartupAssumption`: `CurrentMeansMigrated` (`Current`), `ServingMeansStarted`
(`Started`), `DataKept` (`Data`), `SettingsKept` (`Settings`), with
`ListsAreClear` also `UnchangedSettingsStay` (`Unchanged`), and `TypeOK`
(`Types`). A process that may end after every step and is started again leaves
no simple invariant; it is built in layers:

1. `CoreInv`: the manifests that can be in the catalogue (`ManifestInv`), what
   each loop has done to the add-ons behind it (`LoopInv`), what the recorded
   release says of all add-ons (`ReleaseInv`), what portainer still knows
   (`PortainerInv`). That `resolveVersionBasedOn` may decide by the first add-on
   rests on `ReleaseInv`: without a `release.json` either everything is migrated
   or nothing is. `CurrentMeansMigrated` follows.
2. `StackInv` and `ServingInv`: an add-on whose manifest is migrated has its
   compose stack, attached to a bridge exactly if the manifest says so
   (`Attached`); portainer's containers are as they were. `Reconnect` then
   leaves no container on a bridge that was removed, which is what `Start`
   needs.
3. `VolumeInv` and `DataInv`: the old volumes of an add-on are all there with
   their data or all gone (`Whole`), but while they are moved; then each has its
   data in the old volume if it is still to be moved, in the new one if not, and
   the one at hand in the cache (`MovedBut`). `Whole` is what a repeated
   migration finds, and why a start that ends before the first volume is cleared
   or after the last was removed endangers nothing.
4. `SettingsInv`: the values of the user are in portainer's containers until
   the add-on is fetched, in `migrated` until the stack is created, and in the
   new containers from then on. Between the second and the third nothing but
   the end of the process may interfere, so the invariant has also that the
   bridge and the old volumes are there and that no manifest lacks its vendor:
   otherwise `CreateStackFails`, `InspectFails` or `FetchFails` would end it.
5. `EnvironmentInv`: all containers were created with settings that can be read
   back (`WellChosen`): a list has one of its items or, where the manifest
   selects none, no variable. `SentBackSame` shows that then the settings read
   from the first container and sent back make the same environments.

The lemmas on the operators of `Manifest` and `AddOnView` that this rests on
are about every input: what `MigrateUcManifest` does to services, networks,
environments and volumes, what the compose file has of them, and what
`CombineManifestSettingsWithSettingsMap` and the mapping of the server make of a
setting. The proof had an effect on the model: a `CASE` with guards that
overlap is an unspecified choice to the prover, where TLC takes the first one
that holds, as the code does; all of these are `IF` chains now.

Each of these invariants was checked by TLC on the instances of the runs before
it was proved, but for the parts of `SettingsInv` and `EnvironmentInv` that speak
of some environment or settings without a bound.

Only model-checked:

* liveness (`EveryTransactionEnds`, `EveryRunEnds`,
  `ReadSuccessIsInstalled`, `ComesBack`, `EveryRequestIsAnswered`,
  `ComesUpOrStuck`, `EveryCallReturns`, `EveryRequestAnswered`) and
  `NoHandlerWaits`, which speaks of `ENABLED`: both are out of the prover's reach;
* `InstallFits` and `LatestIsGreatest` of `Distribution`: the first is about a
  sum over a set and the second about `SortVersions`, both folds, and what a
  fold computes takes an induction over data;
* what the operators over packages and versions compute.

The type invariants of the modules other than `Transaction` are the first layer
of their proofs or documentation of the state; no run of their own checks them.

## 5. Plan

What would come next: `AddOnResources` uses a route as a whole, which asks for an
abstract specification of `ReverseProxy` and the refinement to it.

Not modelled: the command line client, which calls the server and prints; the
generated portainer client and its authentication; formats (tar, gzip, cpio,
JSON, YAML, templates) and the JSON schema but for which packages it refuses;
`package_validator.go` and `oras_graph_builder.go` of the packager, which only tests use; the wiring of
objects in `cmd/`; heartbeats on the stream, logos and log output. Docker,
systemd, nginx, SWUpdate, portainer, the IAM service and the OCI registry are
external and modelled from how the code uses them.
