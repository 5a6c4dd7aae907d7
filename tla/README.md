# A TLA+ model of Tails Cloner

Tails Cloner (`src/src/tails_cloner/`) copies a Tails image to a whole USB
drive, or upgrades the system partition of a drive that already has Tails on
it.  It runs as a Tk window or as a command line, and both use one controller.
The program is small. What it does cannot be undone, and most of it happens
between things that it does not control: drives that are swapped, a desktop
that mounts what it sees, worker threads that replace a shared list, downloads
that are cut short.  The repository also carries the installer it descends from
(`src/_legacyinstaller/`) and a lab that tests the AppImage in a guest
(`src/infra/vagrant-lab/`).

Contents: [inventory](#inventory), [modules](#modules), [runs](#runs),
[bounds](#bounds), [fairness](#fairness), [proofs](#proofs),
[disagreements found](#disagreements-found), [observations](#observations),
[not modelled](#not-modelled),
[plan](#plan).

## Inventory

Paths are relative to `src/src/tails_cloner/` unless they start with `src/`.

| Component | State it keeps | Operations | Hard behaviours |
| --- | --- | --- | --- |
| **Controller** (`controller.py`, `models.py`, `planner.py`) | `AppState`: devices, source mode, live source, selected release, record of the verified image; no lock | scan, plan, revalidate, write; refresh and select a release; record and hash again | worker threads replace what the UI thread has read; the hardware moves between two reads |
| **Device discovery** (`devices.py`, `drive_inspector.py`, `source.py`) | none | `lsblk`, then the by-id links; parent disk, live source | two reads that are not one; several names for one disk |
| **Whole-device install** (`creator.py`, `blockdev.py`) | none | inspect, deactivate, `dd`, reread the table | commands computed from one look and run later; a desktop that steps in |
| **System-partition upgrade** (`upgrader.py`) | a loop device, mounts | attach, find, unmount, copy, check again, detach | every command and the callback may fail; cleanup on each path |
| **Post-write and boot loader** (`post_write.py`, `boot_loader.py`) | a scratch mount; configuration files and their backups | mount, back up, rewrite, check, restore, release | release while an error is under way; a drive pulled in the middle of a rewrite; equal titles |
| **Verified download** (`download.py`, `verification.py`, `remote_index.py`, `network.py`) | temporary files, the download directory | fetch digest, signature, image; verify; move into place; reuse | killed half way, wrong bytes, two processes on one directory |
| **Window** (`app.py`) | two flags, job numbers, a callback queue, widgets | handlers, tick, worker jobs, message boxes, closing | one UI thread and four workers; nested event loops; callbacks late and in any order |
| **Command line** (`cli.py`, `cli_events.py`) | the number of the last record, a log file | resolve source and target, token, execute, event records, exit code | the acknowledgement is of an earlier look at the hardware; a record that cannot be emitted; `dd` outlives an interrupt |
| **Legacy installer** (`src/_legacyinstaller/`) | the drives by the name of their port, the options of its window | list, select, install, upgrade, delete the Persistent Storage | nested main loops; an installing thread that reads the window; exceptions that leave a handler half-way; a retry |
| **Lab** (`src/infra/vagrant-lab/real-boot-lane/`) | a lock per lane, a serial log, evidence files | boot, log in, run the smoke test, judge | time limits; a guest that outlives its run; a log of earlier runs |
| Presentation and constants (`theme.py`, `runtime.py`, `config.py`) | none | — | — |
| `packaging`, `scripts` | none that outlives a run | — | — |

Interactions.  The window's handlers and the command line call the controller.
The controller calls discovery and, after its checks, one of the two write
services.  Background scans and catalog refreshes run on the controller's
executor and assign `AppState` directly; the window's tick reads it five times
a second and also annotates it.  Workers talk back to the window through
`_ui_events`.  The download runs on the same executor and ends in a callback
that records the verified image, and the write hashes that image again.

What makes each part correct:

* **Controller, discovery, services**: the drive written is the drive that the
  operator acknowledged; no disk of the running system and no live source is
  written; nothing is copied onto itself.
* **Install**: `dd` starts on a disk that nothing uses, and an error has a cause.
* **Upgrade**: success means a complete copy and Persistent Storage as before;
  no loop device is left; cleanup does not decide the result; it ends.
* **Post-write**: a reordered menu is the configured one and loses no entry that
  came with the stick, also after a crash and a second run.
* **Command line**: nothing is written that was not announced, the last record is
  the verdict, and the exit code says what happened to the drive.
* **Download**: what is moved into place is complete and verified, and what is
  written as verified is what was verified.
* **Legacy installer**: what it erases was named in the dialog that was agreed to;
  an upgrade is of a Tails stick; a completed one is whole.
* **Lab**: a test that passed passed in the guest; one guest at a time per lane.
* **Window**: writes and downloads exclude each other, settings hold still
  under a write, closing is refused while something runs and only then, results
  arrive, and what is downloaded is what the window shows.

## Modules

### `WriteBoundary` — from the acknowledgement to the first byte

The core: `controller.py`, with both front ends' ways of asking, the scan, and
the last checks of both services.  Three parties interleave: the hardware
(`Unplug`, `Plug`), background scans (`RefreshStep`, `SyncDevices`) and one
destructive operation whose `pc` names the stretch between two accesses to
shared state.

| Model | Code |
| --- | --- |
| `plugged` | the drive behind `/dev/sdX`; changes at any step |
| `devices`, `list` | `state.devices` and a scan's local list; `flagged` is the reason that annotation adds |
| `Snapshot`, `WithStablePaths`, `Annotated` | `lsblk`, `find_stable_device_path`, `annotate_device_selection_state` |
| `AskPlan` … `Confirm`; `CliScan` … `CliAcknowledge` | `_confirm_and_clone`; `_execute_operation` |
| `Rehash`, `PlanAnnotate`, `PlanInitial` | the hash of a recorded image, and the plan that the worker makes |
| `FreshList` … `Revalidate` | `_require_valid_target_plan`: scan, compare identities, plan again |
| `PrepareTarget`, `WriteDisk` | `prepare_target_device`, `dd` on the write path |
| `CompareDevices` … `CopyPartition` | `upgrade_tails_system_partition_from_device`: look up both partitions, `dd` on kernel names |

`acked`, `written`, `readFrom`, `validated`, `moved`, `touched` and `raced` are
history: no guard reads them.  A path is a disk or a partition named by its
kernel node or by a by-id link, because the code treats the four differently.
WWN and serial are one attribute.  A live source refuses an install in the
plan itself, so the later refusals of that case cannot be reached and are left out.
`clear_attached_live_source` has no caller.

### `ConfirmedWrite` — what the core promises

The abstract specification: the operator agrees to an identity; then either the
hardware that has it is written, once, or nothing is; a disk in use is never
written; and the program returns.  Only two flags of the environment relax it:
`diverted` (the hardware moved between two looks at the target) and `overtaken`
(it moved after the last check).  `WriteBoundary` implements it under

| `ConfirmedWrite` | In `WriteBoundary` |
| --- | --- |
| `stage` | `Stage`: `idle` until something was acknowledged, `over` once `pc` is `done` |
| `agreed` | `Agreed`: the identity acknowledged, `acked` |
| `written` | `written` |
| `diverted` | `Diverted`: the open window of the services, or `raced` in the window program |
| `overtaken` | `Overtaken`: a swap after the last check of the disk in use |

`Promised == INSTANCE ConfirmedWrite WITH ...` states the mapping, and
`WritesAsConfirmed == Promised!Spec` is a property of `cli` and of `gui`, and
proved in `WriteBoundaryProofs`.

### `MediumWrite` — what a write service promises the controller

The second abstract specification: a medium that is `untouched`, `part` written
or `whole`, whether `dd` is running, and an outcome.  `dd` is started at most
once (`Open`), and only while what is in use there is `excused`; it is a process
of its own and ends by itself (`Finish`), before the report or after it, since
nothing stops it when the callback raises.  One report is made (`Report`):
success only of a whole copy by a `dd` that has ended, a refusal only of a
medium that was never opened.  Three modules implement it:

| `MediumWrite` | In `WholeDiskInstall` | In `PartitionUpgrade` | In `CommandLine` |
| --- | --- | --- | --- |
| `medium` | `medium` | `system`: old, torn, new | `drive` |
| `writing` | `dd` | `dd` | `child` |
| `outcome` | `result`: `protected`, `unsuitable` and `busy` are refusals, other errors `failed` | `verdict`, once `pc` is `done` | the exit code of `install` and `upgrade`: 0, then 2 to 6, then any other |
| `inUse` | `busy` | the partition, if `overMounted` | nothing |
| `excused` | `stirred` and `LeftOpen` | the partition, if `remounted` | nothing |

`WritesAsPromised == Promised!Spec` is a property of `whole_disk` and of
`upgrade`, and `KeepsPromise` the same of the command line in `verified_image`;
all three are proved.  The command line is on both sides: what it does to the
drive is `Service!Open` and `Service!Finish`, the steps of a service, and its
exit code is a report of the same kind to whoever started it.  In
`WriteBoundary` a call of a service is its last check of the hardware and one
write; what happens in between is here.

### `WholeDiskInstall` and `PartitionUpgrade` — inside the two writes

`WriteBoundary` sees each service as a check and a write.  These modules open
them up.

`WholeDiskInstall` has the disk as a tree of places (partitions, mappings on
them), what each holds and whether it is in use; `Commands` is computed once
from it, as `inspect_target_deactivation_commands` does, and run one by one
while `Desktop` mounts, unmounts, unlocks or swaps.  The list of commands is a
set with an order on it (`Precedes`), and the next one is the one that precedes
all others (`Upcoming`): a proof about a set needs no induction.  `BeginWrite`
starts `dd`, `DdEnds` is its end, and `EndWrite` its status or a callback that
raises while it runs; `RereadTable` and the `post_write.py` steps follow.
`stirred`, `seen` and `busy` are history.  `EndsForCause` says what each error
means for the disk.

`PartitionUpgrade` has the loop device (absent, without partitions, ready), the
system partition (old, torn, new), its mounts, Persistent Storage, and the
verdict that is on its way out while the `finally` blocks run.  `dd` is a process
here too: a progress line that cannot be relayed ends the operation, whose loop
device is then detached, and leaves `dd` to itself.  Commands, the detach and the
progress callback fail by choice, each as a member of `Faults`.

### `BootOrder` — the menus of a written drive

`boot_loader.py`, file by file: read, back up under a fresh name, rewrite in
place, read again, restore if that is not what was wanted.  A menu is a sequence
of blocks with a title and perhaps a menu label.  `Entries`, `ReorderEntries`,
`BlockOf` and the rewrite say which positions of a sequence are taken, in which
order (`Pick`), and no loop is folded or recursive: so they can be proved about.

A copy and a write go to the page cache, and nothing flushes them before the
drive is unmounted (`boot_loader.py:275-276`; the `sync` of `post_write.py:162-164`
comes after the unmount).  So `menu` and `backups` are what a reader sees,
`reached` is what of each file may be on the drive itself and `kept` how many of
its backups surely are.  `UnmountDrive` makes the two the same; `Pull` at any step
before leaves any combination of what may have reached the drive, the new file
without its backup included.  A stopped program (`Interrupted`) loses nothing but
the end of what it was writing (`Lengths`: how much of it is there), and the
command may be run again over what is left.  The two grammars (GRUB, Syslinux) are one: the code
has the same steps for both, and `labelled` stands for the difference between a
`LABEL` with and without a `MENU LABEL`.

### `GuiSession` — the window

The UI thread (`tick`, `dialog`), the executor (`job`, `queue`), the callbacks
(`events`) and the two flags.  A confirmation is opened by a handler, and ticks
go on below it; a result is shown from inside the drain of a tick, which waits
for it.  A tick that raises is the last one (`tick = "dead"`), since it
schedules its successor at its end.  `AskToWrite` has the guard of the code: the
Return key reaches it while the button is disabled.  `WriteBoundary` treats one
operation at a time; what two of them do to the window is here.

`settings` is what the worker of a write reads of the source after the dialog:
the mode, the attached medium, and the record of the image that was verified
(`verified`); the path of the image itself it has as an argument.  Whether the
operator can change them is a matter of two kinds of code, both of which set the
same widgets: `writing` and `downloading` disable them, and every tick enables
those that belong to the mode again (`SyncSourceMode`), to disable them at its
end if a flag is up (`Relocked`).  `drawn` is the mode they were last enabled for
and `redrawn` says that this came last; a tick that dies (`Plan`, `RecordFails`)
leaves it so.

### `Catalog` and `VerifiedImage` — what is written

`Catalog` has the five fields that say which release is selected.  A refresh on
a worker thread, a click, the tick and the download button each access them
**one field at a time**.  Two things are stated as exceptions and are really
so in the code.  A refresh that assigns in the middle of the window's copy, or
assigns a field that the window's comparison does not look at, leaves the
screen with a mixture that no later tick repairs (`torn`).  A click during a
refresh leaves a mixture in the selection (`clash`).  A refresh the window has
not copied yet is `dirty` (`during`: since the copy under way began).  The
branch of `refresh_versions` for an empty catalog cannot be reached:
`fetch_versions` raises.

`VerifiedImage` has the download directory, shared by the window and a
command-line run: digest, signature, look, load, hash, `gpg`, move; the record
of what was verified; the window's local checksums; the hash before the write
and the moment `dd` opens the file.  A release's image, its digest and its
signature are one value, so "verified" means that three independently obtained
values agree.  A process may be killed at any step of a download, answers may be
wrong, and somebody may put another file in place.  `altered` and `late` record
when that happened.

### `CommandLine` — records, verdict, exit code

One run of the command line from `Parse` to the end of the process: `at` is the
step, `saying` the records that are to be emitted before the next one.  Each
record is numbered and logged (`WriteLog`, `LogFails`) and then printed
(`PrintRecord`), and each of the two may raise.  A record that is cut short
(`cut`) has no newline, so the next one joins its line (`joined`), and a log may
end in one of an earlier run (`LeftOver`); a line with two records on it parses
as neither.  `CodeOfLostRecord` says which error the code of that place makes of
it, `OutsideTry` where `main` catches nothing.  Every command (`versions`,
`devices`, `status`, `source`, `download`, `plan`, `install`, `upgrade`) has its
records in its order and its ways to end.
The reader may leave, the log may be full or take half a line, Ctrl+C and a kill
come at any step, and `dd` (`child`) is a process of its own, started and ended
by the steps of `MediumWrite`.

### `LegacyInstaller` — the vendored installer

`port` and `holds` are the hardware: which stick is where and what is on it.
`drives` is what the window last read, by name.  `ui` has the options and
widgets, `gui` where the main thread is: `begin()` is a sequence of steps with a
nested main loop at each dialog, in which handlers and scans go on.  `worker`
is the installing thread, step by step (`unmount` to `complete`), with the
`@retry` of `partition_device`.  Handlers that raise leave the window as far as
they had come: `PopulateFails` is a scan that fails by itself, and `ScanFails` is
one inside a handler of the source, in the middle of the list or of its
callback, which leaves the rest of the handler undone.  `settled` in the history
entry of each act tells whether that has happened since the last complete
refresh.

### `GuestSmoke` — the lab's smoke test

Two lanes share the shape lock, QEMU, serial line, verdict, evidence.  The login
lane drives the guest through a socket; the capture lane watches a log file that
all runs append to.  A guest is a process of its own: `runner` may be gone while
`guest` is up.  The login lane may raise wherever it talks to its guest
(`RunRaises`).  Text on the serial line is a sequence of the few tokens that the
scripts look for.

### Instances

Modules that share no variable are run side by side: `component` says which one
moves, and the others rest in one initial state each.  So one run explores each
of them completely, and nothing is claimed about their interleaving, because
there is none.

`MCVerifiedImage` is `Catalog`, `VerifiedImage` and `CommandLine`.  What passes
from the catalog to the images is a request, and `VerifiedImage` takes every
request that the catalog can make (any release for the image with any for the
metadata); what passes from the images to the command line is an answer, and
`CommandLine` takes every answer.  `MCInstallers` is `WholeDiskInstall`,
`BootOrder`, `LegacyInstaller` and `GuestSmoke`, which never work on one stick at
a time.  What passes from one to the next is a stick in any state it may be left
in.

`MCWriteBoundary`, `MCWholeDiskInstall`, `MCPartitionUpgrade` and `MCGuiSession`
give the constants of one module each for TLC.

## Runs

All with `tlc -config <cfg> <module>`, from this directory.

| Run | Configuration | Shows |
| --- | --- | --- |
| `cli` | `MCWriteBoundaryCli` | From the command line, only the acknowledged hardware is written outside the stated window; never onto itself; the operation implements `ConfirmedWrite`. |
| `gui` | `MCWriteBoundaryGui` | The operation implements `ConfirmedWrite` from the window too, while a background scan interleaves, with the exceptions that hold there; an attached live source named by its node is not written. |
| `whole_disk` | `MCInstallers` | The deactivation commands work for every layout, errors mean what they say (`EndsForCause`), and the installation implements `MediumWrite`: `dd` starts on a quiet disk, once, and success is of a whole copy. Menus are in the configured order after a run that reports success (`MenuAsConfigured`), and what came with the drive is lost only with a drive that is pulled between its first rewriting and the unmount (`ShippedMenuKept`). The legacy installer erases what was agreed to, upgrades Tails sticks, clones onto new tables, completes whole, and its window holds still meanwhile, with the stated exceptions. The smoke test that passed passed in the guest, and one guest per lock. |
| `upgrade` | `MCPartitionUpgrade` | Success is whole, loop devices are released, cleanup never decides, the operation ends, and it implements `MediumWrite`: the copy is to an unmounted partition, once, and success is of a whole copy. |
| `session` | `MCGuiSession` | Writes and downloads exclude each other; the source holds still under a write, but for the controls that a dying tick leaves open; a refusal to close has a cause, every result is reported. |
| `verified_image` | `MCVerifiedImage` | Only complete verified images are moved into place, what is written as verified was verified; requests, previews and checksums match what the window shows. Every command of the command line announces before it writes, ends with one verdict that can be read unless the log line before it was cut short, exits with a code that tells what happened to the drive, and implements `MediumWrite`. |

The properties name their exceptions, so that each exception is a claim of its
own: `OpenWindow` (between `lsblk` and the by-id lookup; between the lookup of
a partition and `dd`; anything after the scan when there is no by-id link),
`raced` (a background list came in between), `overlap` (a second write was
confirmed), and so on.  Nothing outside these exceptions breaks the property.

Six further runs state what a document, a message or a comment of the
repository says, and are violated: see
[disagreements found](#disagreements-found).

Every property of a passing run has a mutant in `PROJECT.json`: a small change
of one definition, of the sort a bug would be, under which the same run finds
the property violated.  The `...Proofs` modules define their inductive
invariants (named in [proofs](#proofs)) over the same variables.

## Bounds

* **`cli`, `gui`**: two kernel nodes, three drives (one with serial and by-id
  link; one with neither; one that the running system uses).  Each of the kinds
  of identity is there, and two nodes are enough for a source and a target or
  for a swap between them.  A diverting swap is an unplug and a plug; three
  events on the command line (one to spare), two in the window, where one
  background scan multiplies the states.  `NodeSymmetry` is sound: no
  definition names a node, and every source path given by node is there for
  both nodes.
* **`whole_disk`, installation**: a disk, a mapping on the whole disk, two
  partitions with a mapping each; every content of each place; two events of the
  desktop (a mount and an unlock are enough to disturb every later step).
* **`whole_disk`, menus**: two files, one with up to three blocks of three titles
  (two for the first block), with a menu label on all, none or the first only (so
  that titles repeat, a block between two equal ones exists, and the check after a
  rewrite may fail), one with a menu or none; three orders (none, several, with
  repeated and unknown titles); two runs; a copy or a write cut short before the
  first block or after two.
* **`whole_disk`, legacy installer**: the running stick, one to install on and
  one too small; three ports; two plugs, unplugs or failed scans, in a handler or
  not (a swap is two); three clicks; two attempts for the ten of `@retry`, of
  which the others only repeat the second.
* **`whole_disk`, lab**: two runs, in either lane: one to leave things behind
  and one to find them.
* Symmetric there are two of the ports and the two runs: no definition names one.
* **`upgrade`**: two mount points (so that one unmount may succeed before the
  next fails), three probes, three events.  The code's number of probes only
  repeats the middle one.
* **`session`**: two writes, two downloads, a scan on two threads: enough for
  two of a kind to overlap, for a job to wait behind others, and for both flags to
  be in conflict.  One scan is enough for a selected device that vanishes between
  two looks of a tick.  Two attached media, so that one can be validated in place
  of another.  The program has four threads; with two the pool is
  full sooner.
* **`verified_image`**: two releases (the right one and another), the window
  and one command-line run, one file changed by hand, one path entered by the
  operator besides the one a download sets; in the catalog one refresh (with
  any non-empty list) and two clicks.  `MaxPicks` counts the operator's own
  picks.  `Found` leaves out files found at the start, because `ChangeFile` puts
  one there at any later point.  `Permutations(Image)` is sound: no definition
  names a release of `VerifiedImage`, and `Catalog` numbers its own.  For the
  command line: up to two progress records at each place that emits them (none,
  one and several differ), two failures of the log (one that is reported and one
  that hits the report), and a log that is new or ends in half a record.

`CHECK_DEADLOCK FALSE` is set where the system really stops: the operation is
over, the window is closed, all jobs are done.

## Fairness

`WriteBoundary`, `WholeDiskInstall`, `BootOrder`, `LegacyInstaller`,
`CommandLine`, `GuestSmoke`, `Catalog` and `VerifiedImage` have none: everything
stated of them is safety.  In particular the legacy installer's `begin()` waits
for its user without limit, and the lab's runs end by time limits that the model
takes as a choice at every step.

`GuiSession`: weak fairness of the pool taking jobs, of each job ending (a
command exits, a transfer times out), of the tick (Tk calls `after` callbacks)
and of the dismissal of a result box.  None for handlers: the operator may do
nothing.  `ResultReported` needs all four, the last because a modal box holds
up the drain loop.

`PartitionUpgrade`: weak fairness of the operation's own steps and of the end of
`dd`; the operation is a thread, its commands end, and a `dd` ends when it has
copied everything or cannot go on.  `Ends` says that the wait for partitions is
bounded and that no error path loops.

## Proofs

All checked by `tlapm` with Z3, Zenon and LS4: about 12200 obligations.

| Module | Theorem | Property |
| --- | --- | --- |
| `WriteBoundaryProofs` | `CliTypeCorrect`, `GuiTypeCorrect` | `TypeOK` |
| | `CliNeverOntoItself`, `GuiNeverOntoItself` | `NeverOntoItself` |
| | `CliProtectedSpared`, `GuiProtectedSpared` | `ProtectedSpared`, which the refinement rests on |
| | `GuiConfirmedOrRaced` | `ConfirmedOrRaced`, which the refinement rests on |
| | `CliSameHardwareAsConfirmed` | `SameHardwareAsConfirmed` |
| | `CliKernelNamedSourceSpared`, `GuiKernelNamedSourceSpared` | `KernelNamedSourceSpared` |
| | `CliWritesAsConfirmed`, `GuiWritesAsConfirmed` | `WritesAsConfirmed`: the refinement of `ConfirmedWrite` |
| `WholeDiskInstallProofs` | `WriteOnQuietDisk` | `QuietAtWrite`, which the refinement rests on |
| | `ErrorsHaveCauses` | `EndsForCause` |
| | `InstallIsWriteService` | `WritesAsPromised`: the refinement of `MediumWrite` |
| | `ShippedMenuIsKept` | `ShippedMenuKept` of `BootOrder` |
| | `MenuIsAsConfigured` | `MenuAsConfigured` of `BootOrder` |
| `PartitionUpgradeProofs` | `UpgradeTypeCorrect` | `TypeOK` |
| | `UpgradeSuccessIsWhole` | `SuccessIsWhole` |
| | `UpgradeCopyUnmounted` | `CopyUnmounted`, which the refinement rests on |
| | `UpgradeLoopReleased` | `LoopReleased` |
| | `UpgradeCleanupNeverDecides` | `CleanupNeverDecides` |
| | `UpgradeIsWriteService` | `WritesAsPromised`: the refinement of `MediumWrite` |
| | `UpgradeIsBounded` | the safety half of `Ends`: the number of steps left |
| `GuiSessionProofs` | `SessionTypeCorrect` | `TypeOK` |
| | `SessionExclusive` | `Exclusive` |
| | `RefusalsHaveCause` | `RefusalJustified` |
| | `SessionKeepsSettings` | `SettingsKept` |
| | `NoResultDropped` | the safety half of `ResultReported`: what waits is in its queue, once |
| `DownloadProofs` | `WrittenWasVerified` | `WrittenIsVerified` |
| | `OnlyVerifiedPromoted` | `PromotedWhole` |
| | `ChecksumIsOfSelection` | `ChecksumOfSelection` |
| | `PreviewFollowsSelection` | `PreviewOfSelection` of `Catalog` |
| | `TickSettlesWindow` | `WindowSettled` of `Catalog` |
| | `RequestFollowsWindow` | `RequestAsShown` of `Catalog` |
| | `ImageTyped` | `ImageTypeOK`, a part of `TypesOK` |
| `CommandLineProofs` | `WritesAreAnnounced` | `AnnouncedBeforeWrite` |
| | `ExitCodeTellsEffect` | `ExitTellsEffect` |
| | `OneLastVerdict` | `VerdictIsLast` |
| | `CommandIsWriteService` | `KeepsPromise`: the refinement of `MediumWrite` |
| | `CommandTyped` | `CommandTypeOK`, a part of `TypesOK` |
| | `AllTyped` | `TypesOK` of `MCVerifiedImage` |
| `LegacyInstallerProofs` | `ErasesTheNamedStick` | `ErasedAsAgreed` |
| | `DeletesOnlyTails` | `UpgradesATails` |
| | `ClonesOntoNewTable` | `BackupOnNewTable` |
| | `CompleteMeansWhole` | `CompleteIsWhole` |
| | `WindowSettledWhileWriting` | `SettledWhileWriting` |
| | `InstallersTyped` | `TypesOK` of `MCInstallers` |
| `GuestSmokeProofs` | `LockExcludesGuests` | `OneGuestPerLock` |
| | `PassedWasSeen` | `PassedInTheGuest` |

Each holds for every value of the constants: any number of drives, plug events,
scans, writes, downloads, workers, releases, refreshes, clicks, command-line
runs, records, sticks and ports, attempts, files changed by hand and runs of the
lab; every layout of a disk and every use of it; every menu and every order.
TLC evaluates the assumptions in the runs:

* names of nodes, drives and paths are distinct (`NamesAssumption`), the sets of
  drives are sets of drives (`DrivesAssumption`), source paths are paths and the
  bound is a number (`EnvironmentAssumption`);
* `lsblk` lists a disk first and parents before children, a place holds something
  only if what it lies on is a table or is unlocked, and a LUKS container has one
  mapping (`LayoutAssumption`);
* a menu is a sequence of blocks with a title that is not empty, since
  `unique_entries` drops the empty ones, and an order is a sequence of titles
  (`BootOrderAssumption`);
* writes, downloads and scans are different jobs (`JobsAssumption`); the window is
  not a command-line run and no release is called like junk or nothing
  (`ImageAssumption`); what is found at the start is some content
  (`FoundAssumption`); `Free` is no run of the lab (`SmokeAssumption`);
* ports and sticks are finite sets, and "no port" is no port (`LegacyAssumption`);
* bounds are numbers (`CatalogAssumption`, `CommandLineAssumption` and the above).

The argument for `WriteBoundary`.  Both front ends share the controller's steps, so each step is
treated once, as a step of `GuiNext \/ CliNext`.  None of the properties is
inductive by itself:

* `NeverOntoItself` needs that no drive is behind two nodes (`Injective`), that
  nothing is written before `done`, and that the two partition names differ
  from the check on (`PairDiffers`): the drives are compared by name, long
  before they are opened, and a swap moves drives but cannot put one in two
  places.  Together: `DistinctInv`.
* `ProtectedSpared` needs that the name that passed the service's check still
  denotes an unprotected drive until a swap (`GuardHolds`): `ProtectedInv`.
* `ConfirmedOrRaced` follows the identity from the dialog to `dd`, a conjunct
  for each stretch: the list still shows it at the given path
  (`ListShowsAcked`, which needs that a list names no disk twice,
  `EntriesUnique`), the worker's plan has it (`InitialIsAcked`), an entry of
  the final scan tells the truth up to the window (`ScanFaithful`), the target
  taken from it is the acknowledged one (`TargetIsAcked`), and so is the drive
  behind a partition name (`LocatedIsAcked`).  Together: `AckInv`.
* On the command line there is no background scan, so `raced` stays false, and
  `SameHardwareAsConfirmed` follows.
* `KernelNamedSourceSpared` follows the drive of the live source instead: it stays
  behind its node (`SourceInPlace`), so the final scan has it there and nowhere
  else, and the annotation flags that entry (`ScanPlaced`); the plan therefore
  takes another drive (`TargetSpared`), and the services write the drive that
  they looked up (`LocatedSpared`).  Together: `SourceInv`.  It also shows why
  the property is not claimed of a source named by its by-id link: no entry of the
  list is recognised by such a path, so nothing is flagged.
* The refinement takes the invariants above at the state a step leads to.  Every
  step but `WriteDisk` and `CopyPartition` is `Agree`, `Refuse`, `Return` or
  `Rest`; those two are `Write`, because `ConfirmedOrRaced` and `ProtectedSpared`
  of the next state are its two conditions.

The arguments for the others:

* **Upgrade.**  `UpgradeInv` adds to the types: what the two looks at Persistent
  Storage saw and when it went away (`LooksInv`), what the copy found mounted
  (`MountsInv`), and where a loop device may exist and why it may be left
  (`LoopInv`).
* **Window.**  `SessionInv` says that what waits in a queue has the stage of that
  queue and waits once (`Queues`), that a download between its start and its
  callback holds its flag and is alone, that no dialog is open then
  (`DownloadsInv`), and, unless a second write was confirmed (`overlap`), that a
  write holds its flag and is alone (`WritesInv`).  Most steps are `Steady`: they
  start no job, clear no flag and show no result.  The four that are not
  (`AnswerYes`, `StartDownload` and the two callbacks) are treated one by one.
  `SettingsKept` needs in addition when the controls may be open under a raised
  flag: never between two ticks, and after the last one only for the writes it met
  (`ControlsInv`), which is so because nothing but the answer to a dialog brings a
  write under way, and that disables them (`NoneBegun`).
* **Images.**  `ImageInv` says for each session where it may hold a temporary file
  (`Stages`), what is known of the candidate at each step of its verification
  (`Candidates`), and what the record means before and during a write
  (`Recordings`).  A session that rests stays so, because `altered` and `late` note
  every change that others make to a file (`StaysConsistent`, `PutNotes`).
* **Command line.**  `CommandInv` follows the step the command is at or heads for
  (`Heading`): only `install` and `upgrade` get to the write, the drive is
  untouched before it (`HeadingInv`), the boundary is the last record before the
  controller and is logged before it is printed (`Announcing`), and a verdict that
  is on its way already tells the truth (`CodeInv`).  Every step that leaves the
  drive alone heads for a next step, for a verdict, or ends without one
  (`Outcome`, `Aborts`).
  `VerdictIsLast` needs what is still to come: a verdict ends what is said
  (`SayingInv`), sequence numbers only grow and a record that is logged and not
  yet printed is the last of the log (`LoggedInv`, `OrderInv`), and before the end
  there is no verdict but that one (`UndecidedInv`).  A line that was
  cut short is the last of the log only before the first record of a command and
  when the command is about to end (`LinesInv`): so what joins it is a start or a
  verdict, and the announcement of a write is on a line of its own.
* **Catalog.**  Five fields are assigned one at a time by several parties.
  `CatalogInv` says of each moment which fields are new: those a writer has passed
  (`WriterInv`), those a tick has copied (`CopyInv`), those the handler of the
  button has read (`RequestInv`).  While nothing was refreshed since the last copy
  the window shows the selection (`ShownInv`), and the preview is of it or its
  answer is on the way (`PreviewInv`).  `TornInv` says what the comparison of the
  tick cannot see.
* **Installation.**  `DiskInv` has `CoverInv`: what is in use has its command
  ahead, was stirred or stays open.  When no command is left, that is
  `QuietAtWrite`.  `AheadInv` is the other direction: without the desktop, what a
  command ahead is to take out of use is in use, so the command works.  Both need that
  what lies on a place precedes it, which is all that is used of `lsblk`'s order.
  The first attempt at `EndsForCause` failed on a volume group on a LUKS mapping:
  it stays open, and so does the mapping below, whose `cryptsetup close` then
  fails.  The property now names that cause.
* **The services as `MediumWrite`.**  `MediumInv` and `CopyInv` say how much is
  written at each step.  The start of dd is `Open`: what is in use is excused by
  `QuietAtWrite`, or by `MountsInv` for a partition.  The end of dd is `Finish`,
  before the report or after it; every step that ends the operation is `Report`,
  the others are `Rest`.  Once a status was read dd has ended and the copy stays
  as it is.  That a success is of a whole copy needs, for the upgrade, that a
  verdict that waits for the cleanup is decided already.
* **The command line as `MediumWrite`.**  Its steps on the drive are those of a
  service.  Every other step leaves the drive alone, and the one that ends the
  process is a `Report`, because `ExitTellsEffect` at the state it leads to says
  what an exit code means for the drive; that the code is not replaced by another
  is that nothing but the end of `dd` moves after it.
* **Bounds.**  `StepsLeft` is a number that each step of the upgrade makes smaller
  (`StepTaken`) and that nothing else changes; it counts the probes and, after the
  lookup, the mounts that are still to be undone.
* **Nothing dropped.**  Each step moves at most one job (`Moves`): it joins a
  queue at the end (`FoundAppended`), or leaves one at the front and stays in the
  middle otherwise (`FoundBehind`).
* **Components side by side.**  In `MCVerifiedImage` and `MCInstallers` a step is of
  one component and leaves the variables of the others alone, so each keeps its
  own specification (`EachRuns`, `EachInstallerRuns`), and its types with it.
* **Boot menus.**  `Pick` keeps the order of the positions it is given: the n-th
  position is the one with n positions up to it, so everything follows from
  cardinalities of subsets of an interval, without induction on sequences.
  `Unique` has every element once and in the order of first places
  (`UniqueEntries`), `ReorderEntries` has the elements of the menu, known ones first
  (`Reordered`), and so `Rewritten` is as configured (`RewriteConfigures`).
  `OrderInv` follows a run from file to file (`ProgressInv`) and has the
  menu among the backups from the copy on (`BackupInv`): a file is only
  written after a backup of what it held, and a cut backup is not the last one
  when the file is written, because the run has failed before.  For a pull it has
  the same of the drive itself (`DriveInv`): a file that nothing was written to
  since the last unmount is there as it is read, and a backup that was there at the
  last unmount stays.
* **Legacy installer.**  `LegacyInv` has three stretches.  The window: unless a
  handler escaped, the options are those of the selected drive (`Fitting`,
  `OptionsInv`), what is listed as a Tails partition is one (`ListedInv`).
  The dialogs of `begin()`: what was agreed to where (`DialogInv`).  The thread:
  the window is closed to every handler (`LockedInv`), which is
  `SettledWhileWriting`, and the stick at the port has come as far as the step
  says unless somebody touched the port (`AdvanceInv`).  A copy can only go astray
  onto a stick that was no Tails when the copy began, under options that a handler
  left half-way (`Astray`), whatever was done to other sticks or before.
* **Lab.**  A guest that is up has a runner that holds the lock or is gone
  (`SmokeInv`).  So while a run watches, the log has only its own lines unless a guest
  that was left behind met it (`OwnLogInv`); a line is only there after its guest
  printed it (`LineInv`); and what is found valid was in the log (`VouchInv`).

Two modules of proofs build on others, because their last theorem is about an
instance of several modules: `CommandLineProofs` extends `MCVerifiedImage` and
`DownloadProofs`, and `LegacyInstallerProofs` extends `MCInstallers`,
`WholeDiskInstallProofs` and `GuestSmokeProofs`.

Model-checked only: the liveness properties `ResultReported` and `Ends`, since
liveness under fairness and `ENABLED` are out of this prover's reach.  What of
them is safety is proved (`NoResultDropped`, `UpgradeIsBounded`); that the pool,
the tick and `dd` go on is the fairness above.  No module here declares a
recursive operator or folds over data.

## Disagreements found

| Run | Property | What |
| --- | --- | --- |
| `hot_swap` | `SameHardwareAsConfirmed` | `README.md:22` says identity is compared again before a write. In the window the comparison is with a plan that the worker makes from the shared list *after* the dialog. |
| `by_id_source` | `LiveSourceRefused` | `README.md:21` says every live-source disk is refused. A source attached by its by-id path is not recognised. |
| `partition_link` | `ValidatedSourceListed` | `README.md:242` gives a `-part1` by-id path as a source. It validates, and is then never found in the list. |
| `close_while_writing` | `NeverClosedWhileWriting` | The Return key starts a second write beside the first; the first to end clears the flag and the window closes under the other. |
| `stuck_download` | `DownloadRefusalTruthful` | When the download directory cannot be made, no callback is queued and the window refuses to close for good. |
| `encrypted_swap` | `SafeToOverwrite` | The loop goes on after `swapoff`, before `cryptsetup close`: an encrypted swap area stays open under `dd`. |

## Observations

What the models had to take in, none of which contradicts a line of the
repository.  The properties name these cases as exceptions.

* **Legacy installer.**  An exception that leaves `on_target_partitions_changed`
  or `begin()` half-way leaves the options of another drive in force: "Upgrade"
  may then delete the top-level directories of a stick that is no Tails, and it
  asks for no confirmation.  A scan that fails keeps new drives and an old
  selection.  A stick that is swapped for another under the name of its port gets
  what was meant for the first.  When wiping fails with an ignored error
  (`src/_legacyinstaller/creator.py:938`) the partition is not looked up, the next
  use raises, and `@retry` partitions the drive once more.  Any udisks change
  moves the selection to the first entry of the list while no target is selected.
* **Boot menus.**  Text between two GRUB blocks, and all but the last of several
  blocks with one title, are lost in a rewrite.  A Syslinux file in which some
  entries have a menu label and others do not fails the check after the rewrite
  and is restored.  Bytes that are not UTF-8 are replaced.  Neither the backup nor
  the file is flushed before the unmount: a drive that is pulled in between may
  have lost the menu it came with, in both.
* **Write services.**  A progress callback that raises ends the operation with an
  error while `dd` writes on; in an upgrade from an image the loop device is
  detached under it.  The window then reports a failure of a write that is still
  under way, and the drive may yet become whole.
* **Command line.**  A record that cannot be emitted during a download counts as a
  failed download (6), during verification as a failed verification (5).  A reader
  that leaves and an interrupt end the command while `dd` writes on; the exit code
  is then 1, 7, 8 or 9, never one that means an untouched drive.  A log line that
  was cut short is joined by the next record, of the same run or the next one: when
  that is the verdict, the log holds none that can be read by lines, while the exit
  code and the output have it.  A verdict that cannot be emitted
  makes the process exit with 1 (120 when the flush at exit fails), whatever
  code was on its way.
* **Window.**  Every tick enables the radio button of the running system and the
  controls that belong to the source mode, also under a write, and disables them
  at its end.  A tick that dies in between (the plan of a device that a scan has
  just removed, `app.py:1690`, or an event record that cannot be written) leaves
  them open for good: the source of the write that is under way may then be
  changed, and an edit of the image path forgets the record by which the worker
  would have hashed the image again.  Closing does not wait for the executor
  (`shutdown(wait=False)`), so a job may still emit records after the completion of the program.
* **Lab.**  `read_until_any` looks at everything received so far, so after the user
  name has been sent it may return at once for a `#` of the boot messages; a guest
  that asks for a password then hardly passes.  `read_until` returns at the marker
  and may see half of the line that carries it.  An exception skips the end of
  QEMU and the evidence.  What `kill` ends is the `timeout` command: QEMU goes on
  beside the next run, whose lock was given away.  A runner that is killed leaves
  a lock that somebody must remove.

## Not modelled

* **Parsing and wording**: `lsblk` JSON, catalog documents, checksum files,
  `gpg` status lines, the naming of by-id links, messages, the fields of event
  records, progress percentages.  A parsed answer is right, wrong or an error.
* **Transport**: HTTPS, redirects, size limits, Tor.  A fetch gives any answer or fails.
* **The two menu grammars** as text: `BootOrder` starts from blocks.  What a pulled
  drive does to the tables of its file system is not followed either: a file there
  holds what was written to it or a part of that.
* **Read-only inspection** of candidate sources and what device listings print.
* **Temporary files that cannot be removed**, and signals in the middle of a
  Python statement.
* **Widgets**: layout, theme, scrolling, the boot-order dialog.
* **Legacy installer**: parsing of the udisks tree, partition sizes, the text of
  syslinux files, the D-Bus proxy of the Persistent Storage, the progress bar; what the installing
  thread itself assigns to its entry of the list (`creator.py:185-191`,
  `1022-1024`).
* **Lab**: the scenario runner, probes and reports, which run commands one after
  the other.  `src/packaging` and `src/scripts` likewise: build and release steps
  with no state of their own and nothing concurrent.

## Plan

Done: the core with its proofs and its refinement, the two write services and
the command line with their promise, boot menus, window, catalog and images,
legacy installer and lab, with a theorem for every safety property that a run
checks, composed instances included.  Left to the theorems alone: **`Catalog` with two
refreshes**, the one at startup and the button's, has more than 17 million
states and is too large for a run; the theorems about it hold for any number.
What could come next:

1. **The grammars** of GRUB and Syslinux under `BootOrder`: how blocks are found
   in a text, and that a rewrite changes nothing between them.
2. **`WriteBoundary` above `MediumWrite`**: its call of a service is one check and
   one write, and could be a service step by step, with drives that move meanwhile.
