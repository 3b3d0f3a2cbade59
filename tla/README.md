# A formal model of mc-backup

mc-backup is a daemon that backs up Minecraft servers running in Docker. A
backup *cycle* switches a server's autosave off over RCON, flushes the world,
copies it with rsync into a directory named after the current minute, and
switches autosave on again. With a *tiered* target the copy goes to fast local
("hot") storage first and a worker moves it later to "cold" storage, local or a
NAS reached over ssh. Old snapshots are pruned by age and by number, the last
snapshot of every server is remembered in memory and in `.last-backup`, and a
small HTTP API shows and starts jobs.

Paths below are relative to the repository; `engine/` stands for
`internal/engine/`.

## 1. Inventory

| Component | State | Operations | Interacts with |
|---|---|---|---|
| Cycle control (`engine/daemon.go`, `backup.go`, `rcon.go`) | `cycleMu`, `cancelFn`, the process context, the server's autosave | `RunContext`, `runBackupCycle`, `BackupServer`, `runRcon`, `Cancel` | API and discovery start cycles in goroutines of their own; all share `cycleMu` |
| Capture (`backup.go`) | snapshot directories, `.inprogress` directories | `BackupServer`: copy, rename, clean-up | called by the cycle; read by worker, prunes, boot scan |
| Offload worker (`daemon.go`, `backup.go`) | `offloadCh`, `lastBackups` | `runOffloadWorker`, `processOffloadJob`, `offloadSnapshot` | takes jobs the cycle queues, reads hot storage, writes cold storage |
| Retention (`prune.go`) | the snapshot directories | `pruneLocalByCount/Days`, `pruneNASByCount/Days` | called by cycle (direct targets) and worker (tiered) |
| Snapshot record (`daemon.go`, `config.go`) | `lastBackups`, `.last-backup` | `writeLastSnapshotAt`, `discoverSnapshots` | written by cycle, worker and boot scan; the file has no lock |
| Job tracker (`status.go`) | `JobTracker.jobs` | `Add`, `Remove`, `UpdateIfSnapshot`, `RemoveIfSnapshot` | cycle and worker write, the API reads |
| Startup schedule (`daemon.go`, `discovery.go`) | the ticker, the configuration it goes by | `waitForContainers`, initial cycle unless recent, ticker and its reset | cycle control, record, live reload, systemd |
| Status API (`status.go`) | - | `/jobs`, `/backup`, `/cancel`, `/scan` | cycle control, tracker |
| Configuration store (`config.go`) | config file, auto-servers file, backups | `saveSplit`, `SaveAutoServers`, `SetConfigValue`, `watchConfig` | daemon and CLI write the same files |
| Configuration rules (`config.go`) | - | `Validate`, `resolveBackupTarget`, excludes, environment overrides | every cycle |
| Discovery (`discovery.go`) | server list | directory scan, container detection, provisioning | configuration store, cycle control |
| Command line, update (`cmd/mc-backup/main.go`) | the program file, its `.new`, the systemd unit | `runUpdate`, `runCmd` | configuration store, API, systemd |
| Exec, log, shell quoting | - | thin wrappers | everywhere |

What is hard in this code:

* **Concurrency.** The ticker, the API and discovery start cycles; the worker
  runs beside them; the HTTP server is up before the boot scan has finished.
* **Failure inside a bracket.** After `save-off` every exit, error or
  cancellation must lead to `save-on`, which needs a context of its own.
* **Unreliable commands.** `docker exec` and `ssh` can do their work and still
  report failure.
* **Crashes** between two steps that belong together: rename and record, the
  middle of a recursive removal, queued jobs.
* **Stale state.** The worker chooses a snapshot and copies it for a long time
  while captures and prunes go on; the boot scan records what it listed earlier.
* **Two writers of one configuration.** The command line and the daemon replace
  the same two files, each from what it read some time before.
* **Long histories.** Whether a server is visited at all depends on the ages of
  entries in `.last-backup`, on ticks, naps and deadlines, and on how often the
  process is killed and started in between; a kill can leave autosave off.
* **A clock that may be set back,** while names are minutes of it.
* **Limits.** A bounded queue, two captures in one minute, off-by-one in prunes
  written once in Go and once in shell.

What makes each component right: cycle control - autosave comes back, no copy
of a moving world, a cancel and a stop work; capture - a directory with a final
name is complete; worker - its source stays whole, its destination is free, no
capture is forgotten; retention - only what is too old or superseded goes;
record - it moves forward and names real snapshots; tracker - it shows what is
going on; configuration store - no setting is lost, the daemon ends up with what
the files say; discovery - every directory is provisioned, no edit undone;
configuration rules - nothing comes into force that a cycle cannot use; startup
schedule - no server is left without visits, whatever the restarts; update - the
program is whole and the service comes back, or the failure is reported. The hazards behind these are listed, line by line, in `PROJECT.json`.

## 2. Modules

| Module | Models |
|---|---|
| `Autosave` | cycle control: threads, `cycleMu`, cancellation, stop, the RCON bracket |
| `Autosave_proofs` | its theorems |
| `Retention` | which entries a prune removes, as operators |
| `RetentionLists` | the prunes as the code computes them (sorted lists), compared with `Retention` |
| `Retention_proofs` | theorems about the prunes for every finite directory |
| `RetentionLists_proofs` | that the sorted lists compute what `Retention` says |
| `BackupPipeline` | captures, worker, prunes in context, record, tracker, boot scan, crash |
| `TieredStore` | abstract: what the two tiers promise, which `BackupPipeline` implements |
| `BackupPipeline_proofs` | types of the pipeline and the lemmas its other proofs share |
| `PipelineRecord_proofs` | theorems about the record of the last snapshots, the offload jobs and the status API |
| `PipelineStore_proofs` | theorems about what is on disk, and the refinement of `TieredStore` |
| `ConfigRules` | validation, target resolution, setters, environment overrides, as operators |
| `Service` | the daemon under systemd over a long time: start, schedule, reload, stop, restart, update; uses `ConfigRules` |
| `Service_proofs` | its theorems |
| `ConfigStore` | the two configuration files: `config set`, the daemon's start, watcher and discovery |
| `ConfigStore_proofs` | its theorems |
| `MCAutosave`, `MCBackupPipeline`, `MCConfigStore`, `MCService` | instances for TLC |

### Autosave

A thread is the main goroutine or one started by the API or by discovery; a
thread of `Api` may run any number of cycles one after the other, as new
goroutines would. `pc[t]` is the thread's place in `runBackupCycle` and
`BackupServer`:

    lock -> locked -> loop -> save-off -> flush -> copy -> save-on -> loop -> unlock

`lock` is `cycleMu`, `cancelFn` the published cancel function (the thread it
would cancel), `cancelled` the threads whose context it ended, `sigterm` the
process context. `try` counts the attempts of `runRcon`: each attempt fails or
succeeds; the command is given up when `Retries` attempts have failed, or after
a failed attempt when the context is done. The context of `save-on` is detached
and may run out by itself after 120 s, so its give-up needs only one failed
attempt. `reported` holds the servers whose lost `save-on` was logged as FATAL.
With `LostReply` an attempt may take effect and still be reported as failed.

The reasons to skip a server (disabled, not asked for, container stopped, no
players, unusable target) are one nondeterministic action, `SkipServer`. Copying
is one step: `BackupPipeline` looks inside it.

### Retention

A snapshot's name is its minute. Local prunes compare names. NAS prunes compare
modification times; since `rsync -a` copies the modification time of the hot
directory and `mv` keeps it, a finished snapshot has the time of its capture,
unless a `mv` repeated after a lost reply puts a second copy into it later, which
sets its time to that moment; an unfinished `.inprogress` directory has the time its
transfer started. Hence names and times of NAS entries may disagree.
The day prune matches finished names only; the count prune's pattern
`[0-9]*-[0-9]*` matches unfinished ones too (`prune.go:100`). `ls -dt` orders
equal times in a way the code does not control, so `NasCountDoomed` is the set of
all outcomes (`TailsAfter`: everything but some `count` entries modified last).
`RetentionLists` has the prunes as the code computes them: a listing sorted by
name or by time (`SortedDirs`, `Listings`, by what a sort promises: every entry once,
in order) and the part of it that is cut off. Its `again` is the time of a second copy.

### BackupPipeline

Three processes share the disk, the record and the tracker:

* the cycle (`cyc`): `save -> copy -> record -> [prune] -> read -> rename ->
  announce -> enqueue`. `read` and `rename` are the unlocked read-modify-rename
  of `.last-backup`. A direct target is pruned by the cycle and skips the last
  two; a tiered one skips the prune.
* the worker (`wrk`): `select -> begin -> transfer -> record -> read -> rename
  -> pruneCold -> pruneHot`. `select` takes the newest hot capture, not the
  job's, and drops the job when cold storage has it already.
* the boot scan (`boot`): loads `.last-backup` once, then for each server lists
  the directories, rewrites the entry if it changed and replaces the record.

A directory is `none`, `whole` or `torn` (final name, incomplete content).
`ColdRename` is the end of a transfer: the rename to the final name or, on a NAS that
has that name already, the `mv` into the existing directory, which is recorded in
`again` and changes what `ls -dt` and `find -mtime` see of it (`MTime`). A third
`mv` would have to replace the copy inside and fails, as `os.Rename` does at the
first taken name (`Blocked`). The boot scan takes the newest name of a local tier and
the directory modified last of a NAS (`ColdListed`).
`Crash` ends all three processes at any point and may leave a prune half done.
`Faults` chooses which failures an instance explores. Left out: rsync's data and
`--link-dest`, byte counts, the text of messages, entry times.

`target` is chosen at the beginning and never changes. The clock (`now`) moves
forward by `Tick` and may be set back `MaxBacks` times by `ClockBack`; names are
minutes of this clock, so a capture taken after that sorts before older ones, is
passed over by the worker and goes first when the tier is pruned.

`failed` holds the servers whose last capture was given up with a message in the
log, or lost in a crash: a failed transfer, a failed `save-on` after the copy, a
job dropped although no other job of the server is to come.

### TieredStore

The abstract specification of a tiered server with count pruning. Its state is
two sets of complete snapshots per server. A capture appears at once; cold
storage takes captures of the hot tier only, each newer than all it has; a tier
forgets snapshots only while a newer one stays. There is no queue, worker,
record, process or crash. `BackupPipeline` maps the directories that are `whole`
to the two sets (`Store`), so a torn directory, an `.inprogress` one and the loss
of all memory in a crash are invisible, and `StoreSpec` says that every step is a
step of `TieredStore` or a stutter.

### ConfigStore

A configuration is one setting of the main file and, per server, `none`, `off`
or `on`. `main` and `auto` are the two files; `left` says that the backup of an
administrator's main file was left behind. Files change only by rename, so one
variable per file and one action per rename is enough. Three writers:

* `cli`, one `config set` at a time: `main -> names -> stat -> bakMain -> newMain
  -> bakAuto -> newAuto -> done`, which is `SetConfigValue` reading the sidecar
  and the main file, then `saveSplit` reading the sidecar's names, testing which
  files exist and renaming. A failure from `newMain` on goes through `undoAuto`
  and `undoMain`, each of which may fail too; a kill is possible everywhere.
* `load`, the daemon's start and its watcher: `auto -> main [-> stat -> default ->
  auto -> main] -> new -> watch -> idle`. A start that finds no main file
  provisions the default and loads once more; if the file is missing again, or
  back when its absence is tested, the start fails.
* `scan`, the discoveries: list with the daemon's configuration `ac`, merge into
  `autoServers` under its lock, save the sidecar without one.

`pending` is a watcher event not yet handled. `blind` and `raced` are history
variables for two windows the code leaves open, see the properties. Because one
`config set` runs at a time, the main file it has read is still there when it
is renamed. Left out: two `config set` at once, edits by hand, environment
overrides, a watcher that cannot be started, and how discovery finds container
names and skips directories. A `config set` that fails validation is part of
`CliAbort`; the contents written here are valid, so a reload is never refused for its
content: that is in `Service` (`Reload`, `ConfigInForce`).

### ConfigRules and Service

A configuration is a function from keys to values. A text is told apart only as
far as the rules do: empty, blank, a root with slashes at its end, or other. Keys
that follow the same rule are represented by one: `hot_prune_count` for the
numbers that must not be negative, `prune_count` for those whose setters refuse a
negative number but which are not validated on load. `Accepts` is what a setter refuses, `Stored`
what it keeps, `Validate` and `resolveBackupTarget` are the functions of those
names. A bad environment variable is skipped, a bad file is not loaded.

`Service` counts time in units of the 5 s poll. `Pass` lets a unit go by when
nothing is due; every other action takes no time. `pc` is the main goroutine:

    load -> poll <-> sleep -> decide -> cycle <-> backup -> loop -> cycle -> after -> loop
              \-> fallback -/

At the start `Poll` looks at the containers of the enabled servers (`Watched`) and of a
directory that is not in the configuration yet (`Strangers`). A backup begins with
`save-off`, which may take effect or not; when it is given up, or a stop cancels it,
the backup ends without a `save-on` (`SaveOffGivenUp`).

`cfg` is the configuration `RunContext` goes by, `ac` the one in force, which
the watcher replaces; a cycle uses `ac`, the ticker `cfg` until `AfterCycle`.
`rec[s]` is the age of the server's entry in `.last-backup`. The ticker keeps one
tick waiting and drops further ones; resetting it does not remove a waiting tick
(`go.mod` says Go 1.21). systemd is external: `Restart=on-failure`, `RestartSec`,
`TimeoutStopSec` from `mc-backup.service`. The daemon's exit code is 1 after any
`run`, so it is restarted unless it was stopped. A kill during a backup leaves
autosave off and may leave a copy that the next boot scan finds and records
(`CopyFound`). The update is `runUpdate`: download to `<program>.new`, check,
stop, `mv`, start, status; it can fail or be killed at each step.

`scenario` is chosen at the beginning: the kinds of events that may happen in the
behaviour. `since`, `life` and `stale` measure time for the properties, and
`skipped` names the servers the last cycle of the running process has not switched
on again because it passed them over, did not find them enabled or gave up their
`save-off`; every age stops counting at a ceiling above which no rule tells values
apart. A server that the configuration coming into force does not enable is not
waiting for a visit, so `since` starts again, and `stale` does when that
configuration has the ticker's interval. The initial files and the values written
are assumed to have numbers up to `MaxInterval` and `MaxDelay` where a number
belongs (text that is no number does not parse and is not loaded); the first file
can be loaded.

## 3. Runs

| Run | Instance | Result |
|---|---|---|
| `autosave` | 2 servers, main + 1 API goroutine, 2 attempts, replies reliable, fair | all seven properties hold |
| `autosave_lost_reply` | 1 server, main only, replies may be lost | `AutosaveRestored` violated |
| `autosave_api_stop` | 1 server, main + 1 API goroutine | `StopRestoresAutosave` violated |
| `pipeline_tiered` | 1 tiered-local server, 3 minutes and one jump back, queue 1, keep 1; captures and transfers fail, crashes, fair | all ten hold, `TieredStore` among them |
| `pipeline_pair` | a tiered-nas server with captures in 3 minutes and a tiered-local or local one with captures in the first 2, queue 1, days and count; failing transfers and prunes, lost replies | all four hold |
| `pipeline_direct` | 1 local server, captures fail | `SnapshotsComplete` violated |
| `pipeline_leftover` | 1 tiered-nas server, transfers and their clean-up fail | `RetentionKeepsNewest` violated |
| `config_store` | 2 servers, 1 discovery at a time, 1 edit, 1 restart, fair | all five hold |
| `config_case` | a directory `Survival` | `NamesCaseInsensitive` violated |
| `service` | 2 servers, interval 3, initial delay 0 or 1, backups of 0 or 1 units; five scenarios, each with crashes: failing backups; skips and stops; containers; edits; an update | all seven hold |
| `service_interval` | 1 server, `backup_interval` is edited | `IntervalWithinSeconds` violated |
| `retention_lists` | every directory of at most 4 snapshots, with 2 unfinished transfers or second copies, limits 0..5 | all three hold |

What the properties say:

* `AutosaveRestored`: autosave is off only while a cycle is inside
  `BackupServer` for that server or after a logged failure. `CopyQuiesced`: no
  online copy runs with autosave on. `CancelReaches`: `POST /cancel` reaches the
  running cycle. `StopFinishesOwnCycle`: a stop lets the main goroutine's cycle
  close its bracket. `StopEndsProcess`, `AutosaveComesBack`: a stop ends the
  process; no bracket stays open for ever.
* `TransferSourceWhole`, `OffloadFresh`: the source of a transfer stays whole,
  its destination is free although several jobs may lead to the same capture.
  `RecordCovers`: the record covers cold storage, also after a crash between
  rename and record.
  `NewestComplete`: the newest snapshot and the remembered ones are complete,
  whatever crashed. `OffloadPending`: a capture newer than cold storage always
  has a job that will take it, or its loss was logged, although a full queue
  drops jobs. `StoreSpec`: the disk behaves like `TieredStore`.
  `CapturesReachCold`: it gets there, or a failure is logged. `RecordMonotone`:
  the record only moves forward, unless a capture's own name is older because
  the clock was set back. `RetentionKeepsNewest`: a complete snapshot is
  removed only when too old or when `prune_count` complete newer ones remain. On a
  NAS with lost replies that is not so (see 4. below), and `pipeline_pair` checks
  `RetentionKeepsLatest`: a snapshot goes only when it was last modified too long ago
  or when `prune_count` complete ones stay that were not modified before it.
  `StatusTruthful`: what the API shows is really going on.
* `SettingsRecoverable`: the administrator's main file is in place or in a backup
  that is kept, whatever rename fails and whoever is killed. It excuses `raced`:
  a start that finds the file missing while `config set` has it aside, and
  writes the default over the one that is back. `ReloadSettles`: when the watcher
  has nothing to do, the daemon has what the files say, although a reload reads
  them one after the other while they are replaced. It excuses `blind`: a change
  after the start has read the files and before the watcher runs is noticed only
  with the next one. `ScanKeepsEdits`: where discoveries do not overlap, one undoes an
  enabling only if it started before the daemon loaded that edit, or if the
  daemon started while `config set` had the sidecar aside and so does not know
  its servers (`daemon.go:64` reads them once). Overlapping discoveries may undo
  more, since they save after releasing `autoMu`. `DirectoriesConfigured`: each
  directory is in the daemon's configuration in the end, although `config set`
  may drop from the sidecar what discovery has just added.
* `VisitedInTime`: once the daemon has been up for the longest wait and a cycle, no
  enabled server with an entry has gone without a visit for more than two
  intervals, the wait and a cycle, however the process was stopped and restarted
  before. A server without an entry does not count in the decision about the
  first cycle, hence the exception. `AutosaveHealed`: autosave left off by a kill
  is on again after the next process has lived for the longest wait, an interval and a
  cycle (the longest, since an edit may change the wait while it goes on). Excused is a
  server that the last cycle skipped or did not find enabled, whose failed `save-on`
  was logged, or whose last backup failed with its `save-off`: `BackupServer` then
  returns before it defers `save-on` (`backup.go:192-194`), and as long as every
  visit ends so the log says only "backup failed".
  `ConfigInForce`: whatever is written into the file, a cycle never meets an
  enabled server whose target cannot be used; and a file that only `config set`
  has changed can be loaded by the next start. `ServiceAccounted`: the service is
  down only because it was stopped by hand, or by an update that is under way,
  reported its failure or was killed. `ProgramWhole`: the installed program is the old or the
  verified new one at every moment. `IntervalCaughtUp`: a changed interval is the
  ticker's after one old interval and one cycle. `TypeOK` includes the deadline
  of the wait for containers.
* `LocalCountAgrees`, `NasCountAgrees`, `DayPrunesAgree`: the sorted-list
  algorithms remove what the definitions say; local and NAS retention agree, the
  NAS waiting less than a day longer.

**Bounds.** Two attempts distinguish "retry" from "give up". Two threads are
enough for every interference on `cycleMu` and `cancelFn`; the theorems of
section 5 lift both to any number. In the pipeline, a queue of one is full as
soon as two captures come in while the worker is busy, and keeping one snapshot
makes every prune remove something; three minutes and one jump back give a
snapshot being transferred, one newer, one pruned and one that is named before
them. `pipeline_tiered` prunes by count only: with day pruning a transfer that
takes longer than `prune_days` removes the snapshot it has just stored, which the
configuration asks for. `pipeline_pair` turns day pruning on; the NAS server captures in
all three minutes, which the repeated `mv` needs (capture 2 transferred with a lost
reply, capture 3 taken, 2 moved into itself in minute 3, 3 transferred, and now the
count prune may remove 3), the other one in the first two. Its queue of one is a daemon started
with one server to which discovery has added another (`NewDaemon` sizes the
channel once). In `config_store` two servers let a discovery that finds one
rewrite the entry of the other, and edit and restart can come at any point of it.
In `service` an interval of 3 is longer than the restart (1), the poll (1) and a
cycle of both servers (2), as in practice, so ticks can fall into cycles and
restarts between ticks. Each scenario allows some kinds of events; an administrator's
stop is in one of its own because an update stops the service as well. `TimeoutStopSec` is 0 there: after SIGTERM the goroutine
may get to its end, or SIGKILL may hit it at any point before. The bounds in guards are `MaxTime`,
`MaxCapture`, `MaxBacks` (the clock and the last capture), `MaxEdits` and
`MaxStops`, and in `Service` `MaxInterval`, `MaxDelay` and `MaxPass`; the theorems
of section 5 hold for every value of these bounds.

**Deadlock.** Runs in which the clock may stop with nothing left to do, or the
process exits, say `CHECK_DEADLOCK FALSE`. In `pipeline_tiered` a crash is
always possible, in `service` time can pass or something is due, in `retention_lists` a state is an input that stutters.

**Fairness.** Goroutines run and the commands they wait for end: weak fairness
of the steps of each thread, the cycle and the worker. `LockCycle` is strongly
fair because a Go mutex in starvation mode is handed to its longest waiter.
`MainStop` is strongly fair because a `select` with two ready channels picks
among them at random. In `ConfigStore` the command, the loader and the discoveries keep
running (the discovery ticker fires every minute), and `ScanSave` is strongly
fair: writing the sidecar does not fail for ever. Nothing is assumed of the API,
the backup ticker, crashes, signals or restarts.

## 4. Where the code differs from what it says

1. **Lost reply to save-off** (`backup.go:192`). The save-on is deferred after
   `save-off` was *reported* as done. If it took effect and all attempts were
   reported as failed, autosave stays off. README: "re-enables autosave even
   when the cycle fails".
2. **Stop during a cycle started by the API** (`daemon.go:316`, `377`). Only the
   worker is waited for. README: "Stopping gracefully allows the current cycle
   to finish and re-enables autosave."
3. **Direct targets are written in place** (`backup.go:240`). A failed copy
   leaves an incomplete directory with a snapshot's name. README: "Snapshots are
   complete directories."
4. **Leftover transfers count for NAS retention** (`prune.go:100`). With
   `prune_count = 1` an unfinished directory can push the only complete snapshot
   out. README: "`prune_count` keeps only the configured number of newest
   snapshots". A second way to the same end needs no leftover: the NAS renames
   capture 2 and the reply is lost (`backup.go:351`); the next job transfers 2 once
   more while capture 3 is taken; `mv` puts it into the existing directory 2, which is
   now the one modified last; when 3 arrives, `ls -dt` may list it after 2 and
   `prune_count = 1` removes it. `RetentionKeepsNewest` is false on the instance of
   `pipeline_pair` for this reason; what still holds is `RetentionKeepsLatest`.
5. **Directories with capitals** (`discovery.go:178`). The configuration's keys
   are lower case, the lookup uses the directory's name as it is, so the directory
   is new in every discovery, which writes its entry again as disabled. README:
   "Server names are case-insensitive."
6. **A changed interval waits for the old one** (`daemon.go:380`). The new
   configuration is in force at once, but the ticker is reset only after its next
   cycle. README: "Changes take effect within seconds through inotify, except
   `listen_addr`".

Two more things worth knowing, for which there is no run. A server without
an entry in `.last-backup` does not count in the decision about the first cycle
(`daemon.go:345-356`), so it waits a whole interval after every restart while
another server is recent, although the log says "all servers backed up within
interval"; `VisitedInTime` leaves it out for this reason. And the boot scan
(`daemon.go:253`) replaces a record that a cycle started through the API has just
written by the older one it computed before. `RecordCovers` and `OffloadPending`
show that no offload is forgotten or repeated for it.

## 5. Proofs

`Autosave_proofs` proves, for every number of servers, API goroutines and
attempts: `TypeCorrect`, `CopyIsQuiesced`, `CancelAlwaysReaches` (with lost
replies too), and for reliable replies `AutosaveIsRestored`, `StopFinishes` and
`StopRestoresWithoutApi` (without API cycles the README's promise about a stop
holds). Assumptions: the named `ASSUME`s of `Autosave`.

The properties are not inductive. `CopyQuiesced`, say, needs that no *other*
thread sends `save-on` during the copy, hence that only the lock's holder is
inside a bracket. The invariant `IInv` is the conjunction of

* `TypeOK`;
* `LockInv`: `cycleMu` is held by exactly the thread between Lock and Unlock;
* `CancelReaches`: the thread in a cycle's body owns `cancelFn` (it is cleared
  before the unlock: the order of the deferred functions);
* `WorkInv`: a thread at work is at an existing server, RCON is for online
  backups, the main goroutine runs no offline ones, and the process exits only
  through the main goroutine's exit;
* `QuietInv`: from a successful `save-off` to `save-on`, autosave is off.

`OffInv` is proved on top of it when replies are reliable: autosave is off only
inside a bracket or after a logged failure. It is false with lost replies, which
is finding 1. There is one lemma per conjunct, with one step per action.

`Retention_proofs` proves about every finite directory: the count prune keeps at
most `prune_count` snapshots and exactly that many if it removes any
(`CountKeepsExactly`), it leaves no hole (`CountPrunesOldest`), and days followed
by count never removes the newest snapshot unless it is itself too old
(`LocalSparesNewest`). Of the NAS: the day prune removes nothing the local one
would keep and is less than a day later where nothing was put into a snapshot after
its capture (`NasWaitsUnderADay`), an unfinished transfer takes the place of at most one finished snapshot (`NasCountBounds`, the
extent of finding 4), and without any the count prunes agree
(`NasCountsLikeLocal`). The existence of a newest snapshot comes from the
well-foundedness of strict inclusion on finite sets.

`RetentionLists_proofs` proves, for every set of names and every limit, that the
lists the code sorts and cuts give those sets: `LocalCountIsExact`,
`NasCountIsExact` (any order within a tick) and `DayPrunesDifferByADay`. A
sorted listing of a finite set exists (`ListingExists`: if one did not, take a
minimal such set; without its last entry it has a listing, to which that entry is
appended), and exactly `i - 1` entries come before its `i`-th (`ListingRanks`), so
that cutting a list off at a position is counting what is newer.

`ConfigStore_proofs` proves for every set of names and directories, any number of
edits and restarts, from `LowerAssumption` and `EditBounds`:

* `TypeCorrect` and `SettingsAreRecoverable`. `SettingsRecoverable` is not
  inductive: that `config set` may remove its backup at the end needs that the
  new main file is in place by then and stems from the one put aside. Added are
  `BackupInv` (while there is a backup the settings are in it, else in the main
  file) and `CliInv` (before the main file is put aside it is there, afterwards
  its backup is, and what is saved was computed from it).
* `ReloadsSettle`: a reload reads the sidecar, then the main file. `WatchInv`: only
  a started daemon watches, and only a watching one discovers. `SettleInv`: a
  load under way has the sidecar of this moment, and one that is over the
  configuration of this moment, unless a change is still to be seen.
* `ScansKeepEdits`, where discoveries do not overlap (any two elements of `Scans`
  are equal). `KeepInv`: a directory a discovery takes for new is one its
  configuration does not have, and after the merge what it is going to write of
  the servers it knows is what its configuration says.
* `OverlappingScansNeverDisable`, for any number of discoveries at once. They save
  after `autoMu` is released, so the one that merged first may save last and drop
  an entry; by `FaithfulInv` it never writes that a server is disabled which its
  configuration has enabled.

`BackupPipeline_proofs` proves `TypeCorrect` and, with it, `PcInv` and `Control`:
which names each goroutine holds at which step, that the worker runs only after
the boot scan, and that only tiered servers reach it. All
theorems on the pipeline use the assumptions of `BackupPipeline` and those of
`Retention`, for every set of servers, targets, queue size, limits and clock.

`PipelineRecord_proofs`, without further hypotheses:

* `RecordIsCovering`. Cold storage and the record change in different steps, so
  `Covers` says who knows of a snapshot between them: the worker between rename
  and record, the boot scan for the server it is at, else the record.
* `OffloadIsFresh` follows: what the worker selected is newer than the record
  (`Behind`), the record covers cold storage.
* `RecordIsMonotone`, an action property. A record could move backwards if a
  capture got an older name than what is known already. `NoFuture` excludes it:
  as long as the clock was never set back, nothing on disk, in the file, in memory
  or in the hands of a goroutine is newer than the running capture's name, or
  than the clock when there is none.

* `StatusIsTruthful`, with `Owned`: every entry of the tracker belongs to a
  goroutine or to a queued job.
* `OffloadIsPending`, with `NotForgotten`: a newest capture that the record does
  not have in cold storage is in the hands of the cycle, waits in the queue or is
  with the worker, or it is in `failed`. A full queue drops jobs, but then one of
  the same server is waiting or the loss is logged; a crash forgets all jobs and
  puts every server into `failed` until its next capture.

`PipelineStore_proofs` is about what is on disk. Two things damage a tier, and each
has its invariant:

* A crash in the middle of a prune leaves torn snapshots. `Covered` says they do
  no harm to a hot tier or a local cold tier behind one: each has as many complete
  newer ones as the limit, because the count prune removes only those. A day prune
  removes a snapshot however few are newer, so a crash in it may leave a torn
  newest one; hence the hypothesis of no day pruning or no crashes (`Countable`).
* Direct targets are written in place (finding 3) and the NAS count prune counts
  unfinished transfers (finding 4). Where nothing crashes, `Untorn` says that a
  directory is torn only while the running capture writes it (unless captures of
  that direct target fail), and `Tidy` that an `.inprogress` directory is that of
  the running transfer (unless clean-up on the NAS fails). `Timed` says that no
  finished NAS directory was modified after its capture, except on the NAS of a
  tiered-nas server with crashes or lost replies. The worker prunes after
  its transfer, so the prune of a tidy tier finds neither (`PruneFindsTidy`).

From these:

* `SourceIsWhole`: `Countable` for the hot tier.
* `SnapshotsAreComplete`: without crashes and without failing captures of direct
  targets every directory with a final name is complete, the running capture
  excepted. Finding 3 drops the second hypothesis.
* `RetentionIsSafe`, for any mix of targets: each is local behind a hot tier and
  pruned by count, with crashes anywhere, or nothing damages or litters it or changes
  its times (`Tended`): no crash, no failing in-place capture, no failing clean-up and,
  on a NAS behind a hot tier, no lost reply. Finding 4 drops each of the last two.
* `RetentionGoesByTime`: where replies are lost `RetentionKeepsLatest` is left, for every
  NAS target without crashes, failing in-place captures and failing clean-up
  (`NasTidy`). The instance of `pipeline_pair` is one of these.
* `NewestIsComplete`: count pruning with local cold storage, or no crashes, for
  tiered servers of either kind. It adds `Remembered`: what is, or is about to
  become, the record of a server is not a torn snapshot.
* `TiersImplementStore`, that is `Spec => StoreSpec`: the initial states map to
  those of `TieredStore` and each step is one of its steps or leaves the two tiers
  alone. It takes count pruning, since `TieredStore` promises exactly the count;
  tiered servers on the NAS may be there as long as nothing crashes, clean-up
  works and no reply to a rename is lost (`NasTended`), and direct targets beside them. That cold storage only takes
  what is newer than all it has needs `Ahead`: the hot tier is never behind, so the
  newest capture the worker selects is newer than anything stored, on the NAS too,
  where the record may lag.

The promise is safety; that captures arrive is `CapturesReachCold`, for TLC.

`Service_proofs` holds for every set of servers, configuration, scenario and number of
edits, from the named assumptions of `Service`:

* `ProgramIsWhole` and `ServiceIsAccounted`, from `UpdateInv` (what each step of an
  update has established: the file to be installed is the verified one) and
  `StopInv` (a stop is explained from the moment it is asked for).
* `ConfigIsInForce`, from `ConfigInv`: everything in force was validated, and what
  setters store passes validation. `ServiceTypes` adds `Shape`, `BootInv` and
  `WorldOK`; the poll's deadline bounds the wait.
* `IntervalIsCaughtUp`, `ServersAreVisited`, `AutosaveIsHealed`: limits on a clock
  that runs up. Such a bound becomes inductive with a clock that runs down
  beside it: `stale` with what is left of the ticker's period in the loop and with the
  work to come in a cycle (`LateInv`); `since` likewise (`VisitInv`), once `GapInv`
  ties it to the age of the entry in `.last-backup`, which decides about the
  first cycle; the life of a process that finds autosave off likewise (`HealInv`). The sum of what the servers to
  come may take is the length of a cycle by a cardinality argument.
  `ServersAreVisited` has the hypothesis `CycleTime <= MaxInterval`: when a cycle
  is longer than the interval the next one follows at once, and two visits of a
  server may be almost two cycles apart.

Only model-checked:

* liveness (`StopEndsProcess`, `AutosaveComesBack`, `CapturesReachCold`,
  `DirectoriesConfigured`), which needs fairness and ENABLED;
* that the violations of section 4 happen where the hypotheses of the theorems fail.

## 6. Not modelled

Bearer tokens, JSON and the dashboard of the API, argument parsing and the HTTP
client commands, `config get`, logging, shell quoting and command execution keep
no state or only format it. Exclude patterns are handed to rsync, whose own
algorithm is outside. How discovery recognises container names and ignored
directories is text processing. `update.sh` is a script beside the program.
`Service` leaves out cycles asked for through the API (`Autosave` and
`BackupPipeline` have them) and the stop of Docker itself, which stops the service.

## 7. Plan

1. A variant of `ConfigStore` with two `config set` at once, and with two
   discoveries an instance small enough for TLC (two directories, one edit and two
   discoveries have more than a million states).
2. A day prune that a crash interrupts: how many torn snapshots the next prunes
   may meet, beyond the hypotheses of `PipelineStore_proofs`.
