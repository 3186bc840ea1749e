# fwupd-webui: specification, model checking and proofs

fwupd-webui is a web front end of `fwupdtool`: it lists the firmware of a
machine's devices, refreshes the update metadata, serves a status report for
monitoring, and, when that is enabled, flashes a device. This directory holds
TLA+ specifications of its behaviour, the TLC configurations that check them,
and theorems about them that TLAPS checks. `PROJECT.json` indexes it: the
components, the runs, a mutant for each checked property (a change of the
specification that stands for a plausible bug and that the property catches),
the source lines behind every definition, the hazards and the findings.

Paths below are relative to `src/fwupd_webui/` of the repository.

## 1. The system

| Part | Source | State | Operations |
|---|---|---|---|
| Request handlers | `web/routes.py`, `web/flash_routes.py`, `web/api_routes.py` | local variables that live across `await` | the pages, `POST /refresh`, `POST /flash`, `POST /flash/dismiss`, `GET /api/status` |
| Service | `fwupd/service.py` | hardware lock, cached inventory, `_flash_starting`, refresh stamp (a file) | `inventory`, `cached_inventory`, `refresh`, `start_flash`, `_run_flash` |
| Flash manager | `fwupd/flash.py` | the one job: status, phase, log, outcome | `begin`, `run`, `dismiss` |
| fwupdtool client | `fwupd/cli.py` | a process, its stderr pipe, a watchdog timer | `get-devices`, `get-updates`, `refresh`, `--version`, `install` |
| Policy | `fwupd/policy.py`, `fwupd/models.py` | none | may this device be flashed, does the typed name confirm it |
| Download | `fwupd/download.py` | a temporary file, a digest, a deadline | `download_verified` |
| Login | `web/auth.py` | sessions, failure counts, lockouts, the password file | `login`, `logout`, the middleware, `load_password` |
| Progress page | `web/templates/_flash_progress.html` with htmx | what each tab shows, and whether it polls | poll, dismiss |
| Startup | `__main__.py` | none | password, first refresh, server |
| Configuration, diagnostics, wiring | `config.py`, `fwupd/diagnostics.py`, `web/app.py` | none | |

How they interact: everything but two kinds of thread runs on one asyncio event
loop, so code between two `await`s is atomic and nothing else is. A handler that
needs the hardware calls `FwupdService._call`: it waits in the FIFO queue of one
`asyncio.Lock`, runs the blocking `FwupdCli` method in a thread, and goes on when
the event loop gets to it. A flash is a background task that holds that lock
from the download to the enumeration afterwards. During `install` three parties
run in parallel: the worker thread that reads stderr, the watchdog's thread, and
the process. The browser polls; the disk keeps the stamp and the password over a
restart, and nothing else survives one.

What is hard here, and where each part could go wrong (the `hazards` of
`PROJECT.json` give the line of each):

- **Awaits in the middle of a decision.** Validating a flash awaits up to five
  calls between the check that no flash runs and the claim of the slot; a page
  and the monitoring API use values they read before an `await`.
- **The lock.** One self-deadlock (`_record_outcome` runs under it), one lost
  release, or one call outside it would each be enough.
- **Failure in the background task,** which nobody awaits.
- **A watchdog racing a process that ends by itself,** and errors that leave the
  process behind.
- **Two lists that overlap,** get-devices and get-updates, read at two times,
  compared by version and component.
- **Several tabs,** each acting on what it last saw; a restart under all of them.
- **A file that only fwupdtool should outlive.** A download that fails at any
  step, a server that is stopped while its thread downloads or installs, or
  killed: an unverified file must never be read and nothing be left behind.
- **A password that must survive a half-finished start,** because its file is
  removed, created and written in three steps.
- **Two tables and a clock against guessing,** shared by everybody behind an
  address and emptied at a limit.
- **A stamp file** that a crash can leave empty, and clocks that decide
  freshness.

## 2. The modules

| Module | Models | Kind |
|---|---|---|
| `FlashSlot` | what flashing promises: one slot, claimed, begun, written at most once, finished, dismissed | abstract |
| `FwupdService` | handlers, lock, threads, cache, job slot, background task; implements `FlashSlot` | core |
| `FwupdServiceProofs` | its theorems | proofs |
| `InstallCall` | what `FwupdCli.install` promises to the flash: one fwupdtool, one outcome that fits its end | abstract |
| `FwupdtoolInstall` | `FwupdCli.install`: reader, watchdog, process; the inside of the core's call "install"; implements `InstallCall` | detail |
| `FwupdtoolInstallProofs` | its theorems | proofs |
| `FirmwareFile` | the download, the temporary directory and the file in it, up to fwupdtool; shutdown and kill | detail |
| `FirmwareFileProofs` | its theorems | proofs |
| `FlashPolicy` | which release is shown and which is flashed; the verdicts the core takes as free choices | detail |
| `FlashPolicyProofs` | its theorems | proofs |
| `ConfirmName` | the phrase on the page and the check of what was typed; `form.typed` of `FlashPolicy` | algorithm |
| `ConfirmNameProofs` | its theorems | proofs |
| `Lists` | filtering a list, as a fold; used by `FlashPolicy` and `ConfirmName` | helper |
| `FoldProofs` | what a fold computes, for lists of any length; used by their proofs | lemmas |
| `ProgressPage` | tabs, sessions and restarts around the job slot | composition |
| `Metadata` | the stamp file, startup, refresh, and the verdict of `/api/status`, before, during and after a flash | detail |
| `MetadataProofs` | its theorems | proofs |
| `PasswordFile` | `load_password`: which password a process runs with, over starts that end anywhere | detail |
| `Access` | sessions, throttle and middleware of the running server; extends `PasswordFile` | composition |
| `AccessProofs` | the theorems of both | proofs |

`MC...` modules give the constants their values for TLC.

### FwupdService

One action is the code of one handler, or of the background task, from one
`await` to the next. A task's `pc` names the call it waits for or has running;
`thread` is the `asyncio.to_thread` behind it (`CallStarts`, `CallEnds`); `lock`
is the `asyncio.Lock` with its queue. A call ends well, with `FwupdError`, or
with any other exception, and each handler treats the three as the code does.

| Actions | Code |
|---|---|
| `index`, `refresh`, `status`, `flash_page`, `start_flash`, `start_flash_busy`, `dismiss` | the handlers up to their first `await` |
| `CallStarts`, `CallEnds` | `_call`, `asyncio.to_thread` |
| `RefreshReturned` ... `InventoryReturned`, `InventoryFailed`, `RefreshFailed` | the rest of `refresh`, `inventory`, `cached_inventory` and of the handlers |
| `CheckDevicesPassed`, `CheckUpdatesPassed`, `FlashRefused`, `FlashRaised` | `_validate_and_begin` and the `finally` of `start_flash` |
| `RunnerStarts` ... `FlashSucceeded` | `_run_flash`, `FlashManager.run`, `_record_outcome` |

Handlers that answer without waiting and change nothing (redirects while a flash
is active, answers from the cache, the progress fragment) have no action: they
would be stuttering steps. An inventory is reduced to two times, when it was
asked for (`at`) and when the devices were read (`read`). Python's rule that
`Lock.acquire` returns at once when the lock is free and nobody waits, and that
`release` wakes the first waiter, is modelled as a direct handover. CPython
leaves the lock unlocked until the woken waiter runs, but no other task can take
it in between, because `acquire` also looks at the queue.

### FwupdtoolInstall

The worker thread, the watchdog and the process are three sets of actions over a
bounded pipe. `Faults` says what can go wrong around the tool: a line that is
not text ("undecodable"), a thread that cannot be started ("no_thread"), a child
process that inherits stderr ("helper"). `timed_out` and the kill are two steps,
because they are two statements of the watchdog's thread.

`InstallCall` is the same call without pipe, threads and timer. It is what the
other modules rest on: `FirmwareFile` takes every outcome that `InstallCall`
allows (`Launch`, `InstallRaises`, `ToolEnds`, `InstallReturns`), and the core
takes them as a call that ends well, with `FwupdError`, or with another
exception. Of the outcomes, `installed`, `failed` and `timed_out` come after the
end of fwupdtool; `raised` may come before it.

### FirmwareFile

Four parties: the task (`FlashManager.run`), the worker thread
(`download_verified`, then `FwupdCli.install`), fwupdtool, and the process.

| Actions | Code |
|---|---|
| `MakeDirectory` ... `InstallReturned`, `CallFailed` | `run` inside and around its `with` block |
| `RemoveFile`, `RemoveDirectory`, `RemovalFails`, `DirectoryNotEmpty` | the exit of `TemporaryDirectory`, which removes the file before the directory; a disk that refuses; a file that was created in between |
| `Connect`, `Receive`, `EndOfBody`, `TransferFails`, `Check`, `Discard`, `Late` | `download_verified`; one `Receive` is one chunk |
| `Launch`, `ToolLoads`, `ToolEnds`, `InstallReturns`, `InstallRaises` | `install`, with fwupdtool reading the file once |
| `Stop`, `Exit`, `Kill`, `Start` | the end of `asyncio.run`, of the process, and a new one |

A file is its length in chunks and whether all of it is from the release, which is
what the hash tells apart. A cancelled task leaves its `with` block at once, while
the thread it waited for goes on: `asyncio.run` cannot cancel a thread and waits
for it, so from `Stop` on the removal of the directory races the download and
the start of fwupdtool. A thread that has not created its file yet may do so
between the two removals, and then the directory stays on the best of disks
(`DirectoryNotEmpty`); `interrupted` remembers the flashes that a stop met that
early, and `excused` those that were killed or that the disk refused to clean up,
so that the property tells the three apart. `Stop` finds the task at an `await`, because it is on the
event loop, and uvicorn has let the requests in flight finish. A kill takes the
threads and fwupdtool along; the machine stays up, so what is on the disk stays.
A call that was submitted to the pool and not yet picked up when the task is
cancelled is not modelled (it never runs, which is the harmless case), and
neither is a fwupdtool that outlives its own flash into the next one, which is
`install_outlived`.

### PasswordFile and Access

`PasswordFile` has one action for each step of `load_password` that a crash or
an error of the disk can come after. `drawn`, `logged` and `settled` keep what
happened, for the properties. `Access` adds the running server. Its handlers do
not await anything, so one action is a whole handler; `login`, `logout`,
`record_failure`, `record_success` and `create` have the names of the code. A 0 in
`failures` and a `None` in the other tables stand for an absent entry. `granted`,
`ended`, `wrong` and `refused` are not variables of the program; they keep the
history that the properties speak of. Requests that are refused without touching
a table (a cross-site form, no session and no password) would be stuttering
steps. What the tables hold is gone with the process.

### FlashPolicy and ConfirmName

`FlashPolicy` follows one device through two calls of the page and two of the
validation, with `Changes` between any two of them. A release is its version, its
component (the AppStream ID, or none), the file behind it, whether it is an
upgrade, and what makes a download verifiable. fwupd marks upgrades by comparing
versions, so two files of one version agree on it (`PolicyAssumption`); the code
filters after removing repetitions and relies on that. `Meant` is the set of the
releases a posted form may mean, by their place in the device's list; the code's
loop takes the first, after it has refused a form that means two components. `ConfirmName` decides
which answers confirm which names, on texts of letters in two cases, blanks and
glyphs. Both go through a list from its start, like the loops and comprehensions of
the code, and write that as a fold.

### ProgressPage

A tab shows nothing of the flash, "Starting", a job's progress, or a job's
result, and polls in the second and third case. A poll is rendered at once;
`GET /flash` takes the job, may wait for an inventory, and renders the job as it
is by then. Answers can be lost, sessions expire, the server restarts.

### Metadata

`_write_stamp` empties the file and fills it, with a crash or a full disk in
between; `_read_stamp` takes an empty file for none. The clock is that of the
wall, and `SetBack` sets it back: then a stamp lies in the future and its age is
negative, so that neither it nor the cached inventory ages until the clock has
caught up. `fetched` and `attempt` are not variables of the program, nor is `back`,
how far the clock was set back: they keep what really happened, in the time that
really passed (`Elapsed`), for the properties to compare with.

The snapshot is served in two cases (`CacheIsServed`): while it is younger than the
cache's lifetime, and during a flash at any age, since listing would wait behind
the write. A flash is therefore in the model as far as that matters: it begins with a
snapshot that was good to serve or has just been made (`ServedFromCache`,
`InventoryListed` for `"start_flash"`), waits for the lock, writes, and ends;
`begun` keeps when. While it writes, no call of fwupdtool returns (`LockIsFree`), but
between its beginning and its turn those that queued before it do, and a listing
of `/api/status` may replace the snapshot. `pending` is what a caller read before it
waited: the clock, and whether the job it picked up had failed. There is one caller of
each kind at a time, and their listings may end in any order, which is more than the
FIFO lock allows; that the cache moves forward is the core's subject. `reported` is
the answer of `/api/status` in the step that gives it, and nothing otherwise.

## 3. The runs

| Run | Shows | Bounds |
|---|---|---|
| `safety` | the invariants and action properties of the core | 3 handlers of any kind, 2 clock values |
| `live` | every request is answered; the core implements `FlashSlot` with its liveness | 2 handlers |
| `pages` | a claim of a comment that does not hold | 2 handlers |
| `install` | what `install` reports is true, it implements `InstallCall`, and it comes back | pipe of 2 lines, 4 lines written, tail of 2, every fault |
| `install_outlived` | a claim that does not hold | the same |
| `firmware` | fwupdtool reads a verified file or none; the file is there until then but for a shutdown and an `install` that raises; a directory is left by a kill, a disk that refuses, or a stop before the download has created its file; every flash ends | file of 2 chunks, limit of 3, 3 flashes, any stops and kills |
| `names` | the confirmation accepts the words of the name and nothing else | texts of up to 4 characters of 5 kinds |
| `policy` | what is shown and flashed | lists of up to 2 of 4 files, one change |
| `progress` | no tab shows a flash as running for ever | 2 tabs, up to 2 flashes and 1 restart |
| `stamp`, `refresh_failure` | old metadata is not called ok, also during a flash; a claim that does not hold | 6 clock values, any number of flashes, interval 1, cache 2, set back by up to 2; for the claim 5 clock values, interval 2, no cache, never set back |
| `login` | there is always a password, it can be found and it stays; a login lasts; guesses are bounded, locks are earned and end | 2 addresses, 2 tokens, 2 passwords to draw and 1 configured, 2 failures, lock and session of 2, tables of 2, 4 clock values |

Why the bounds are enough to be interesting. Three handlers are a flash being
validated, one handler that fills the cache and one that arrives meanwhile, next
to the background task; a queue of length three is long enough for order to
matter, and the theorems hold for any number. Two clock values are a fresh and
an aged cache. The pipe of two lines fills up and blocks the process, and four
lines are more than the pipe and the tail hold. Lists of two files contain the
repeated key, the repeated version with two components, the unsigned copy and
the file that is only in one of the lists. Four characters hold two words with a
glyph or a second blank between or around them. Two flashes let a page show the
result of the one before. A file of two chunks can be cut short, be too long by
one (the limit is three, so a body of four is refused), or be wrong in either
chunk; three flashes are one that is killed, one that is stopped, and one that
is served. Two addresses fill the table of failures, so it is emptied under a
third attempt, and a lock of two ticks can begin, be asked into, and end before
the clock stops; in `stamp` the clock can be set back once by two ticks or twice
by one, while a snapshot is being taken, after it was, or both, and the seven
ticks that can pass are interval, cache and twice the set-back; set back by one, or
not at all, the clock leaves time for a flash of one tick or two as well; two
passwords are one that a start loses and one that the next start saves. In
`login` the addresses, tokens and passwords are symmetric: they are compared
with each other and nothing else.

Deadlock is checked in the core, in `FirmwareFile`, `ProgressPage` and `Metadata`.
`FwupdtoolInstall` ends when the install is over, `FlashPolicy` when the
request is decided, and in `Access` the clock stops and a start may find no
password left to draw, so their configurations turn it off.

### Fairness

- The core: the event loop resumes every ready task, the executor starts every
  submitted call, and every call ends. The last is what the code arranges:
  `subprocess.run` has a timeout for every command, the install has its
  watchdog, the download has socket timeouts and a deadline. Two exceptions are
  known and are stated here because the liveness of the core rests on them:
  `KillEndsLoop` (section 4) shows that the watchdog does not bound an install whose child
  process keeps stderr open, and the download looks at its deadline only between
  chunks, so that a server which sends a byte within every socket timeout holds one
  read of 1 MiB for long, though not for ever. Nothing makes a request arrive, the operator dismiss or the clock move.
- `FwupdtoolInstall`: the two threads run, and time passes, so the watchdog
  expires. Nothing is assumed of the process; a hanging one is the point.
- `FirmwareFile`: the event loop runs the task, the thread goes on (every read of
  the network returns, because each wait on the socket has a timeout and a chunk is
  finite), fwupdtool ends or is killed by the watchdog, and a process that waits for
  nothing any more exits. The clock need not move: `FlashEnds` holds by the
  size limit alone, without the deadline. Nothing stops, kills or starts the server.
- `ProgressPage`: a flash ends and a page is rendered (which is the core's
  liveness), a polling tab polls, and not every answer to a tab is lost (strong
  fairness: a lost answer disables the step that would show it).
- `ConfirmName`, `FlashPolicy`, `Metadata` and `Access` have safety properties
  only. That a lock ends is safety here: after `LOCKOUT_SECONDS` it is over
  (`RetryAfterIsEnough`).

## 4. Findings

Each of these is a run that TLC must find violated, against a sentence of the
repository.

| Run | Claim | What happens |
|---|---|---|
| `pages` | `flash_routes.py`: no flash page may wait on the hardware lock | it looks for an active flash once, before its first wait, and a flash can begin in between. In TLC's trace the page is that of a `POST /flash` refused because another is validating, with nothing cached; it waits for the flash that the other begins. `GET /flash` does so with a finished job and an aged cache |
| `install_outlived` | `service.py`: a single lock serializes fwupdtool | a line that does not decode ends `install` with the process still running |
| `refresh_failure` | README: `degraded` on a refresh failure | the error of `refresh` is dropped by its callers |

Smaller observations, for which the claim is loose or the case is rare. The
definition that states the claim is at the end of its module, and
`tlc -config <configuration> <MC module>` shows the case:

| Definition, configuration | Claim | What happens |
|---|---|---|
| `WriteNeverKilled`, `MCFwupdtoolInstall_killed.cfg` | README: a job runs to completion or fails on its own | the watchdog kills at the limit, also in the middle of the write |
| `TimeoutMeansExceeded`, `MCFwupdtoolInstall_late.cfg` | `cli.py`: fwupdtool exceeded the configured timeout | a complete install is reported as timed out when the timer expires between its exit and the cancel |
| `KillEndsLoop`, `MCFwupdtoolInstall_pipe.cfg` | `cli.py`: killing the process closes the pipe | not while a child of it holds the other end |
| `PhraseAlwaysWorks`, `MCConfirmName_glyphs.cfg` | README: a phrase you can actually type | not for a name of glyphs only |
| `FlashedWasConfirmed`, `MCFlashPolicy_confirmed.cfg` | README: unconfirmed releases are refused as well | a file passes that shares version and component with a confirmed one |
| `ButtonDecides`, `MCFlashPolicy_button.cfg` | `service.py`: "Choose one from the device page." | the button of a release without AppStream ID sends only the version and is answered with this again |
| `StatusReportsActiveFlash`, `MCFwupdService_status.cfg` | `api_routes.py`: a monitor needs to see that a write is in flight | the job is picked up before the wait, so the answer may be from before the flash |
| `PollingStops`, `MCProgressPage_starting.cfg` | `flash.py`: the progress page stops polling at that point | after a dismiss in another tab it reads "Starting" for ever |
| `WrittenIsReported`, `MCFirmwareFile_reported.cfg` | an update that was written is not reported as failed | it is when its directory cannot be removed |
| `FileThereUntilRead`, `MCFirmwareFile_unread.cfg` | `cli.py`: `install` blocks until the process exits | when it raises instead, the file is removed under a fwupdtool that is still starting |
| `CleanStopLeavesNothing`, `MCFirmwareFile_left.cfg` | a `TemporaryDirectory` is gone after its `with` block | a stop during the connection: the thread creates the file between the two removals, and the directory stays |
| `LocksWithinLimit`, `MCAccess_locks.cfg` | `auth.py`: `_MAX_TRACKED_CLIENTS` limits what is kept of clients | only the table of failures is measured; locked addresses pile up in the other. `MCAccess_limit.cfg` shows that the limit holds for the first |
| `GeneratedIsLogged`, `MCAccess_logged.cfg` | README: a generated password is written to the log once | not when the process ends between saving and logging it; it is in the file then |
| `DismissedWasShown`, `MCProgressPage_dismissed.cfg` | `flash.py`: the result stays readable after a reconnect | the button of an old result dismisses a later one |

## 5. What is proved

`FwupdServiceProofs` proves, for every finite or infinite set of handlers, every
clock bound and every cache lifetime:

| Theorem | Statement |
|---|---|
| `Invariance` | `Safety => []IInv` |
| `TypeCorrect`, `MutualExclusion`, `NoLostWakeup` | `TypeOK`, `HardwareExclusive`, `NobodyForgotten` |
| `SingleClaim`, `SnapshotDuringFlash`, `NoOrphanJob`, `HonestAge` | `ClaimantFindsSlotFree`, `ActiveHasSnapshot`, `ActiveHasRunner`, `SnapshotNotOlderThanStamped` |
| `FinalResult`, `NoWaitOnArrival`, `CacheMonotone` | `ResultIsFinal`, `ArrivalsNeverWaitForFlash`, `CacheMovesForward` |
| `ImplementsSlot` | `Safety => Slot!Safety` |

The argument. Mutual exclusion follows from `LockOwner`: a thread works, or has
an answer waiting, only for the task that holds the lock. That is inductive with
the types alone, since a task leaves the lock only in the step that collects its
thread's answer. The single claim is not inductive by itself: that a request with
the claim may begin a flash needs the slot to be free, and that the slot stays
free needs every other request to have a handler other than "flash"
(`RolesMatch`) and the job to be over whenever its task is (`ActiveHasRunner`).
The snapshot follows because the only step that makes a job active either has
just stored one or found one in the cache, and nothing removes it. The age is
honest because `now` is read before the call that reads the devices
(`TimesInOrder`), by a request that keeps both in local variables over three
awaits. `IInv` is the conjunction; `IInvStep` puts the preservation lemmas of its
parts together. `NobodyForgotten` is proved on top of it with three facts about
the line of holder and waiters: what acquiring adds, what releasing removes, and
what doing both in one step leaves. `CacheMonotone` rests on the order of that line
(`CacheInOrder`). The three calls of an inventory are three turns of the lock, so
several requests can be at it at once; but of two of them, the one that has more
calls behind it, or as many and a better place in the line (`Ahead`), has looked at
the clock and read the devices no later. A request that begins stands last; one that
moves on was ahead of all that have come as far, and comes behind all that have
come further; and the one that stores its inventory is ahead of everybody. A queue that
is not first come, first served would break this, as the run's mutant shows. `SlotStep` maps every action of the service
to a step of `FlashSlot` or to a stutter, using the invariant where the slot's
guards need it.

`FwupdtoolInstallProofs` proves, for every pipe, output and combination of
faults, `TypeOK`, `OkMeansComplete`, `KillIsReported`, `NamedOutcomeMeansEnded`,
and `KeepsPromise`: `Safety => ImplementsInstallCall`. Its
invariant adds what the parties know of each other: there is an exit code exactly
after the process (`CodeOfExited`), the event is set before the kill
(`EventBeforeKill`), and what the worker has seen at each place (`WorkerKnows`).
`PromiseStep` maps every action to a step of `InstallCall` or to a stutter; only
`Decide` needs more than the types, since the event it looks at has to be set
whenever the code is that of a kill.

`FirmwareFileProofs` proves, for every length of file, limit and number of flashes:

| Theorem | Statement |
|---|---|
| `TypeCorrect` | `TypeOK`, and with it that neither the hash nor the disk ever has more than the limit |
| `OnlyVerifiedIsLoaded`, `FileOutlivesLaunch` | `LoadedIsVerified`, `FileStaysUntilGivenUp` |
| `NothingRefusedStays`, `DirectoriesAreRemoved` | `RefusedIsDeleted`, `LeftoversAreExplained` |

What fwupdtool loads was hashed and is still what was hashed. That follows from
`DiskIsDigest` (during the download the file is what the hash has seen, or gone)
and `DiskIsImage` (from the checksum on it is the image, or gone); the "or gone" is
the shutdown, and while the server is up it is excluded because the task leaves the
`with` block only after the thread has ended (`OneCallAtATime`). The thread can end
before fwupdtool has read the file, when `install` raises and leaves it alone
(`WhoseTool`): that is the one way, with the server up, in which the file is gone before
it was read, and `FileStaysUntilGivenUp` names it next to the shutdown. The
directory of a flash is gone when the flash ends, with three exceptions that
`LeftoversAreExplained` names: a kill, a disk that refuses, and a stop that met the
download before its file was created, which is all that can put a file into a directory
between the two removals (`WhoCreatesLate`).

`AccessProofs` proves, for any passwords, addresses, tokens and limits:

| Theorem | Statement |
|---|---|
| `StartsAsLoaded` | `Spec => LoadSpec`: the server with its login implements the start of the process |
| `AlwaysAPassword`, `PasswordIsSomewhere`, `SavedIsKept` | `NeverWithoutPassword`, `PasswordCanBeFound`, `SavedPasswordStays` |
| `TypeCorrect`, `LoginLasts` | `TypeOK`, `SessionIffGranted` |
| `GuessesAreBounded`, `LockIsEarned`, `WaitingHelps` | `WrongPasswordsPerMinute`, `LockoutIsEarned`, `RetryAfterIsEnough` |

The three about the password are proved of `LoadSpec` and carried over by the
refinement. They need that a start with a new password has no settled one to keep
(`NothingToKeep`) and that a settled one is still in the file (`SettledIsSaved`).
The bound on guesses is about a window over the wrong passwords, while the code
has a counter and a lock; `CountedSinceLock` ties them: the last `failures[c]`
of the remembered times are those that are counted, and the one before them locked
the address, so that a whole lock lies between the two. `OneMoreWrong` is the step of that
argument. A lock never lasts beyond a refusal by more than its length
(`LocksAreEarned`), because no refusal extends it. `FailuresAreLimited` is the limit of
the table of failures (`FailuresWithinLimit`): a wrong password adds one entry at most,
and a full table is emptied first.

`FlashPolicyProofs` proves, for every set of releases, every list and any number of
changes, `FlashedIsAllowed`, `FlashedIsChosen` and `ShownOnce` (`OnlyAllowedIsFlashed`,
`ChosenIsFlashed`, `UpgradesAreShownOnce`). The invariant says what is known at each
stage: a pressed button is what the form says, a picked release is one that the form
means and no release of another component is, a flashed one was confirmed and is
verifiable, and a page on show is the view of two lists (`PageIsView`). What such a view
shows is the lemma `ViewShowsOnce`: removing repetitions loses no version and component
and keeps each once (`DedupeKeys`), filtering and joining keep them apart, and filtering
for upgrades after the removal hides none because two files of one version agree on
being one, which is where `PolicyAssumption` is needed.

`ConfirmNameProofs` proves, for names and answers of any length, `ConfirmedByWords` and
`PhraseWorks` (`WordsConfirm`, `ShownPhraseWorks`). Both rest on `WordsDecide`: two texts
have the same normal form exactly if they have the same words. One direction shows that
each step of `_normalize` (without glyphs, blanks joined, in lower case) leaves the words
as they were; the other that the words, written down with a blank before each, are the
normal form with a blank before it (`WordsSpell`).

Both need what a fold computes for a list of any length. `FoldProofs` proves an
induction over sequences that is carried by a set, the sequences of which the claim
holds, since the induction theorems of the library take an operator. It compares a fold
with a recursion whose step is a function (`RecFold`), shows that such a recursion has
exactly one solution (`RecursionExists`, `RecursionUnique`), and that a fold whose
operator agrees with the step solves it (`SolutionIsRecFold`). Each module has then one
lemma for each of its folds, such as `DedupeFold` and `ReadFold`.

`MetadataProofs` proves, for every refresh interval, cache lifetime and clock
bound, and however often the clock is set back, `StatusOkMeansFresh` (theorem
`OkMeansFresh`). By itself that is not inductive: a report rests on a snapshot
(`SnapshotIsTrue`: one that is not called stale was right when it was asked for),
the snapshot on the stamp, and the stamp, also while it is being written, on a
refresh that worked no earlier than it says (`Earned`); `Past` keeps all of them
behind the time that passed. A flash begins with a snapshot that was good to serve at
that moment, or with a new one, and can only come by a newer one (`FlashHasSnapshot`),
because what is fetched only gets newer (`StaysNewEnough`). The bound is the interval
and the cache's lifetime, the time since the flash began if there is one, and
twice what the clock was set back: the age of the stamp and the age of the snapshot can
each be short by the whole difference. TLC finds states one tick below that bound, also with a clock that was set back and a
flash under way, and none at it, since a snapshot as old as the cache's lifetime is no
longer served to those who ask or begin a flash.

Assumptions: those named in the modules (`ConstantsAssumption`,
`InstallAssumption`, `MetadataAssumption`, `FileAssumption`, `PasswordAssumption`,
`AccessAssumption`, `PolicyAssumption`, `LengthAssumption`), which TLC evaluates in the runs; no other.

Every safety invariant and every action property of the passing runs is the statement
of a theorem. Model-checked only: all liveness (`RequestsAnswered`, the fairness half of
`ImplementsFlashSlot`, `InstallReturns`, `FlashEnds`, `ProgressMovesOn`), because the
prover has no rules for fairness; with it all of `ProgressPage`, whose one property is
liveness.

## 6. What is not modelled

- A restart during a flash in the core: nothing of a job is persisted, so there
  is no recovery to check; the new process starts in `Init`. `ProgressPage` has
  the restart as the tabs see it, `FirmwareFile` as the disk does.
- A power loss: `PasswordFile`, `FirmwareFile` and `Metadata` let processes die at
  any step, but what was written to a file stays written.
- The other half of shutdown: that uvicorn first lets the requests in flight
  finish is taken as given (`FirmwareFile`), and the requests are not followed there.
- A wall clock that is set back, in the core: `FwupdService` has a clock that only
  moves forward, and `Metadata` follows one that does not. The login's clock is
  monotonic in the code.
- The same-origin check, the form of a refusal and the redirects of the middleware:
  they decide from one request alone and keep nothing.
- The contents of pages, of log lines and of the JSON answers, the parsing of
  fwupd's JSON, configuration, diagnostics, and the deployment scripts: they keep
  no state, or are I/O and layout.

## 7. Plan

Done, in this order: `FlashSlot`, `FwupdService` and its proofs;
`FwupdtoolInstall` and its proofs; `ConfirmName`; `FlashPolicy`; `ProgressPage`;
`Metadata` and its proofs; `PasswordFile`, `Access` and their proofs; `FirmwareFile`
and its proofs, with shutdown and kill; the proofs of `FlashPolicy`; `InstallCall`
and the refinement; `Metadata` with a clock that is set back, and with the flash during which a snapshot is
served at any age; the order of the cache;
`FoldProofs`, and with it the proofs of `ShownOnce` and `ConfirmName`; the limit of the
table of failures.

Left:

- Composition: `InstallCall` inside the core, where the call that raises with
  fwupdtool still running (`install_outlived`) breaks mutual exclusion of the
  hardware while `HardwareExclusive`, which is about the lock's calls, holds;
  `FlashPolicy` in place of the core's free verdicts for two devices.
