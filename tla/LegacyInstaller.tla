-------------------------- MODULE LegacyInstaller --------------------------
(***************************************************************************)
(* The vendored installer (_legacyinstaller): its GTK window, whose        *)
(* handlers all run in one thread and whose dialogs are nested main loops, *)
(* the thread that installs, and the sticks that come and go meanwhile.    *)
(* The window keeps a list of drives by the name of their port, refreshed  *)
(* when udisks reports a change and no target is selected; every later     *)
(* command reaches whatever stick is at that port by then.                 *)
(***************************************************************************)
EXTENDS Integers, FiniteSets

CONSTANTS
    Stick, Port, NoStick, NoPort,
    Running, Home,  \* the stick Tails runs from, which stays in its port
    Small,          \* sticks below min_installation_device_size
    Attempts,       \* stands for the ten attempts of @retry
    MaxPlugs,       \* bound on plugs, unplugs and failed scans
    MaxClicks       \* bound on what the user does in the window

ASSUME LegacyAssumption ==
    /\ IsFiniteSet(Stick) /\ IsFiniteSet(Port)
    /\ NoStick \notin Stick /\ NoPort \notin Port \cup [port: Port, part: BOOLEAN]
    /\ Running \in Stick /\ Home \in Port /\ Small \subseteq Stick
    /\ Attempts \in Nat \ {0} /\ MaxPlugs \in Nat /\ MaxClicks \in Nat

VARIABLES
    port,           \* the stick at each port
    holds,          \* what each stick holds
    drives,         \* live.drives: the stick that was read under each name
    ui,             \* the window: its options and the state of its widgets
    gui,            \* where the main thread is: idle, or inside begin()
    live,           \* live.drive: the port and the stick that was read there
    worker,         \* the step of the installing thread
    attempt,        \* attempts of partition_device
    plugs, clicks,
    \* history, for the properties only:
    confirmed,      \* the stick that the dialog of this start named, when agreed to
    acts,           \* what was done to which stick, and which stick was listed
    escaped,        \* an exception left a handler half-way since the last refresh
    disturbed       \* the port of the target changed since the thread started

legacyVars == <<port, holds, drives, ui, gui, live, worker, attempt, plugs,
                clicks, confirmed, acts, escaped, disturbed>>
window == <<drives, ui, gui, clicks>>
thread == <<worker, attempt>>
hardware == <<port, holds, plugs>>

\* blank: a new partition table; torn: a Tails partition without a whole
\* system; copied: a system that cannot boot yet; new: one that syslinux
\* made bootable.
System == {"foreign", "tails", "blank", "torn", "copied", "new"}
Holding == [system: System, persistence: {"none", "old", "backup"}, mbr: BOOLEAN]

\* The name of a drive, or of the Tails partition on it.
Name == [port: Port, part: BOOLEAN]

Step == {"none", "unmount", "table", "partition", "rescan", "switch", "format",
         "mount", "verify", "space", "extract", "mbr", "configs", "boot", "backup",
         "flush", "seed",
         "complete", "failed", "busy"}
Over == {"complete", "failed", "busy"}
Writing == Step \ (Over \cup {"none"})

\* A name that udisks does not answer for makes the caller raise.
Gone(p) == port[p] = NoStick

TooSmall(s) == s \in Small

CanBeUpgraded(s) == holds[s].system \in {"tails", "torn", "copied", "new"}

Act(what, p) == [what |-> what, stick |-> port[p], listed |-> live.stick,
                 held |-> holds[port[p]].system, settled |-> ~escaped]

-----------------------------------------------------------------------------
(***************************************************************************)
(* The widgets, as functions of the record of the window.                  *)
(***************************************************************************)

\* Mutant: the button heeds only the source and the target.
UpdateStartWithoutMode(u) ==
    [u EXCEPT !.start = u.source # "none" /\ u.target_available]

UpdateStartButton(u) ==
    [u EXCEPT !.start = /\ u.partition \/ ~u.clone_persistent
                        /\ u.source # "none"
                        /\ u.target_available]

EnableWidgets(u, enabled) ==
    LET v == IF enabled
             THEN [UpdateStartButton(u) EXCEPT !.reinstall = @ \/ u.force_available]
             ELSE [u EXCEPT !.start = FALSE, !.reinstall = FALSE]
    IN  [v EXCEPT !.choices = ~u.target_selected]

\* on_target_partitions_changed: the options follow the selected drive, and the
\* clone is for the running Tails.
TargetChanged(u, list) ==
    LET v == IF u.drive = NoPort THEN EnableWidgets(u, FALSE) ELSE u
        w == [v EXCEPT !.clone_persistent = @ /\ u.source = "running"]
        upgrade == u.drive # NoPort /\ u.drive.part
        roomy == upgrade /\ ~TooSmall(list[u.drive])
    IN  UpdateStartButton([w EXCEPT !.partition = ~upgrade,
                                    !.force_reinstall = ~upgrade,
                                    !.force_available = roomy,
                                    !.reinstall = roomy])

\* A drive that the list has lost, or that is gone, makes the handler raise.
Known(u, list) == \/ u.drive = NoPort
                  \/ list[u.drive] # NoStick /\ ~Gone(u.drive.port)

\* update_clone_persistent_storage_check_button: to uncheck it is a signal, and
\* the handler of that signal may raise.
UpdateCheckButton(u, list) ==
    LET v == [u EXCEPT !.clone_persistent = FALSE]
    IN  IF u.source = "running" \/ ~u.clone_persistent THEN u
        ELSE IF Known(u, list) THEN TargetChanged(v, list) ELSE UpdateStartButton(v)

(***************************************************************************)
(* The list of drives.                                                     *)
(***************************************************************************)

\* What udisks has under a name.
Read(n) == IF ~Gone(n.port) /\ (n.part => CanBeUpgraded(port[n.port]))
           THEN port[n.port] ELSE NoStick

\* detect_supported_drives: a drive gives way to the Tails partition on it.
Scanned == [n \in Name |-> IF ~n.part /\ Read([n EXCEPT !.part = TRUE]) # NoStick
                           THEN NoStick ELSE Read(n)]

\* Mutant: the running device is not left out.
OfferedRunning(u) ==
    {n \in Name : /\ Scanned[n] # NoStick
                  /\ n.port # u.source_dev
                  /\ TooSmall(Scanned[n]) => n.part}

\* The drives that are offered: neither the source nor the running device,
\* and large enough (a smaller one only to upgrade it).
Offered(u) ==
    {n \in Name : /\ Scanned[n] # NoStick
                  /\ n.port # u.source_dev
                  /\ Scanned[n] # Running
                  /\ TooSmall(Scanned[n]) => n.part}

\* add_devices: the list is rebuilt and its first entry becomes the selection.
Listed(u, offered, first) ==
    LET v == [u EXCEPT !.listed = offered,
                       !.target_available = offered # {},
                       !.drive = first]
    IN  UpdateStartButton(TargetChanged(v, Scanned))

First(offered) == IF offered = {} THEN {NoPort} ELSE offered

\* populate_devices within another handler.
Populated(u) == {Listed(u, Offered(u), first) : first \in First(Offered(u))}

\* The signal of a change is served by the main loop and by those of dialogs.
LoopRuns == gui \in {"idle", "confirm", "passphrase"}

PopulateDevices ==
    /\ LoopRuns /\ ~ui.target_selected
    /\ drives' = Scanned
    /\ ui' \in Populated(ui) /\ escaped' = FALSE
    /\ UNCHANGED <<hardware, gui, live, thread, clicks, confirmed, acts, disturbed>>

\* A scan that fails leaves a part of the new list beside the old selection, or
\* the new list and an empty box, whose signal says that nothing is selected.
Emptied(u) == TargetChanged([u EXCEPT !.listed = {}, !.drive = NoPort], Scanned)

ScanFails(u, v) ==
    /\ plugs < MaxPlugs /\ plugs' = plugs + 1
    /\ escaped' = TRUE
    /\ \/ /\ v = u
          /\ \E read \in SUBSET {n \in Name : Read(n) # NoStick} :
               drives' = [n \in Name |-> IF n \in read THEN Read(n) ELSE NoStick]
       \/ v = Emptied(u) /\ drives' = Scanned

\* Only the installer's own errors are caught and close the start button.
Caught(u) == UpdateStartButton([u EXCEPT !.target_available = FALSE])

PopulateFails ==
    /\ LoopRuns /\ ~ui.target_selected
    /\ \E v \in {ui, Emptied(ui)} : ScanFails(ui, v) /\ ui' \in {v, Caught(v)}
    /\ UNCHANGED <<port, holds, gui, live, thread, clicks, confirmed, acts, disturbed>>

-----------------------------------------------------------------------------
LegacyInit ==
    /\ port \in [Port -> Stick \cup {NoStick}]
    /\ \A s \in Stick : Cardinality({p \in Port : port[p] = s}) <= 1
    /\ port[Home] = Running
    /\ holds \in [Stick -> {[system |-> "foreign", persistence |-> "none", mbr |-> FALSE],
                           [system |-> "tails", persistence |-> "old", mbr |-> TRUE]}]
    /\ CanBeUpgraded(Running)
    /\ drives = Scanned
    /\ ui \in Populated([drive |-> NoPort, listed |-> {}, target_selected |-> FALSE,
                         target_available |-> FALSE, partition |-> TRUE,
                         force_reinstall |-> FALSE, force_available |-> FALSE,
                         clone_persistent |-> FALSE, start |-> FALSE,
                         reinstall |-> FALSE, choices |-> TRUE, source |-> "running",
                         source_dev |-> Home])
    /\ gui = "idle" /\ worker = "none" /\ attempt = 0
    /\ live = [port |-> NoPort, stick |-> NoStick]
    /\ plugs = 0 /\ clicks = 0
    /\ confirmed = {} /\ acts = {} /\ escaped = FALSE /\ disturbed = FALSE

(***************************************************************************)
(* The hardware.                                                           *)
(***************************************************************************)

Disturbs(p) == disturbed' = (disturbed \/ (worker # "none" /\ p = live.port))

Plug(s, p) ==
    /\ plugs < MaxPlugs /\ plugs' = plugs + 1
    /\ port[p] = NoStick /\ \A q \in Port : port[q] # s
    /\ port' = [port EXCEPT ![p] = s]
    /\ Disturbs(p)
    /\ UNCHANGED <<holds, window, live, thread, confirmed, acts, escaped>>

Unplug(p) ==
    /\ plugs < MaxPlugs /\ plugs' = plugs + 1
    /\ port[p] \notin {NoStick, Running}
    /\ port' = [port EXCEPT ![p] = NoStick]
    /\ Disturbs(p)
    /\ UNCHANGED <<holds, window, live, thread, confirmed, acts, escaped>>

(***************************************************************************)
(* What the user does in the window.                                       *)
(***************************************************************************)

Click == clicks < MaxClicks /\ clicks' = clicks + 1
Handled == /\ gui = "idle" /\ Click
           /\ UNCHANGED <<port, holds, gui, live, thread, confirmed, acts, disturbed>>

\* The device under the image is noted once, by its name; one that udisks does
\* not know is none.
IsoSource(u, p) == [u EXCEPT !.source = "iso", !.source_dev = p]
RunningLiveSystemSource(u) == [u EXCEPT !.source = "running", !.source_dev = Home]

\* on_radio_button_source_iso_toggled, to the running system or to an image.
ToggleSource ==
    /\ Handled /\ ui.choices
    /\ LET u == IF ui.source = "running"
                THEN [ui EXCEPT !.source = "none", !.source_dev = NoPort]
                ELSE RunningLiveSystemSource(ui)
       IN  \/ /\ ui.target_selected
              /\ ui' = UpdateCheckButton(u, drives) /\ UNCHANGED <<plugs, drives, escaped>>
           \/ /\ ~ui.target_selected
              /\ drives' = Scanned /\ escaped' = FALSE /\ UNCHANGED plugs
              /\ \E v \in Populated(u) : ui' = UpdateCheckButton(v, Scanned)
           \/ /\ ~ui.target_selected
              /\ \E v \in {u, Emptied(u)} :
                   ScanFails(u, v) /\ ui' \in {v, UpdateCheckButton(Caught(v), drives')}

\* select_source_iso: an image that can be read, on a stick or elsewhere.
SelectSourceIso(p) ==
    /\ Handled /\ ui.choices
    /\ ui.source # "running"
    /\ p \in {NoPort} \cup {q \in Port : ~Gone(q)}
    /\ LET u == IsoSource(ui, p)
       IN  \/ /\ ui.target_selected
              /\ ui' = u /\ UNCHANGED <<plugs, drives, escaped>>
           \/ /\ ~ui.target_selected
              /\ drives' = Scanned /\ ui' \in Populated(u) /\ escaped' = FALSE
              /\ UNCHANGED plugs
           \/ /\ ~ui.target_selected
              /\ \E v \in {u, Emptied(u)} : ScanFails(u, v) /\ ui' \in {v, Caught(v)}

\* Where the handler raises the options stay those of the drive selected before.
Reselect(u) ==
    /\ ui' = IF Known(u, drives) THEN TargetChanged(u, drives) ELSE u
    /\ escaped' = (escaped \/ ~Known(u, drives))
    /\ UNCHANGED <<plugs, drives>>

ToggleClonePersistent ==
    /\ Handled /\ ui.choices
    /\ ui.source = "running"
    /\ Reselect(UpdateStartButton([ui EXCEPT !.clone_persistent = ~@]))

SelectTarget(n) ==
    /\ Handled /\ ui.choices
    /\ n \in ui.listed
    /\ Reselect([ui EXCEPT !.drive = n])

(***************************************************************************)
(* begin(), one action for each of its nested main loops and for each of   *)
(* its commands.  It returns to idle, or is left by an exception.          *)
(***************************************************************************)

Ask(u) == IF u.partition THEN "confirm"
          ELSE IF u.clone_persistent THEN "passphrase" ELSE "mount"

Begin(before) ==
    LET u == EnableWidgets(before, FALSE)
        v == [u EXCEPT !.target_selected = TRUE]
        stick == IF u.drive = NoPort THEN NoStick ELSE drives[u.drive]
    IN  /\ Click /\ gui = "idle"
        /\ confirmed' = {}
        /\ \/ /\ ~u.target_selected /\ stick = NoStick       \* Cannot find device
              /\ ui' = u /\ escaped' = TRUE /\ UNCHANGED <<gui, live>>
           \/ /\ u.target_selected \/ stick # NoStick
              /\ live' = IF u.target_selected THEN live
                         ELSE [port |-> u.drive.port, stick |-> stick]
              /\ ui' = v
              /\ IF u.partition /\ Gone(live'.port)           \* has_persistent_storage
                 THEN escaped' = TRUE /\ UNCHANGED gui
                 ELSE gui' = Ask(v) /\ UNCHANGED escaped
        /\ UNCHANGED <<hardware, drives, thread, acts, disturbed>>

\* warn_ISO_not_selected ends in the branch of a dialog that was not agreed to.
WarnIsoNotSelected ==
    /\ Handled /\ ui.reinstall /\ ui.source = "none"
    /\ ui' = EnableWidgets([ui EXCEPT !.target_selected = FALSE], TRUE)
    /\ UNCHANGED <<plugs, drives, escaped>>

ClickStart == ui.start /\ Begin(ui)

ClickReinstall ==
    /\ ui.reinstall /\ ui.source # "none"
    /\ Begin([ui EXCEPT !.force_reinstall = TRUE, !.partition = TRUE])

InBegin(where) ==
    /\ gui = where
    /\ UNCHANGED <<port, plugs, drives, clicks, live, attempt>>

Agree ==
    /\ InBegin("confirm")
    /\ confirmed' = {live.stick}
    /\ gui' = IF ui.clone_persistent THEN "passphrase" ELSE "launch"
    /\ UNCHANGED <<holds, ui, worker, acts, escaped, disturbed>>

Released(u) == EnableWidgets([u EXCEPT !.target_selected = FALSE], TRUE)

Cancel ==
    /\ InBegin("confirm")
    /\ LET u == Released(ui)
       IN  ui' = UpdateStartButton(
                   IF u.force_available
                   THEN [u EXCEPT !.force_reinstall = FALSE, !.partition = FALSE] ELSE u)
    /\ gui' = "idle"
    /\ UNCHANGED <<holds, worker, confirmed, acts, escaped, disturbed>>

PassphraseEntered ==
    /\ InBegin("passphrase")
    /\ gui' = IF ui.partition THEN "launch" ELSE "mount"
    /\ UNCHANGED <<holds, ui, worker, confirmed, acts, escaped, disturbed>>

PassphraseCancelled ==
    /\ InBegin("passphrase")
    /\ ui' = UpdateStartButton(Released([ui EXCEPT !.force_reinstall = FALSE,
                                                   !.partition = FALSE]))
    /\ gui' = "idle"
    /\ UNCHANGED <<holds, worker, confirmed, acts, escaped, disturbed>>

\* An upgrade mounts the target here; a mount that somebody else made first
\* leaves no mount point, and the handler raises at the first path.
MountInBegin ==
    /\ InBegin("mount")
    /\ \/ ~Gone(live.port) /\ gui' = "delete" /\ UNCHANGED <<ui, escaped>>
       \/ gui' = "idle" /\ ui' = EnableWidgets(ui, TRUE) /\ UNCHANGED escaped
       \/ gui' = "idle" /\ escaped' = TRUE /\ UNCHANGED ui
    /\ UNCHANGED <<holds, worker, confirmed, acts, disturbed>>

Torn(s) == [holds EXCEPT ![s].system = IF CanBeUpgraded(s) THEN "torn" ELSE @]

\* delete_liveos removes one top-level entry after the other.
DeleteLiveos ==
    LET s == port[live.port]
    IN  /\ InBegin("delete")
        /\ \/ /\ s # NoStick
              /\ holds' = Torn(s) /\ acts' = acts \cup {Act("delete", live.port)}
              /\ \/ gui' = "launch" /\ UNCHANGED ui
                 \/ gui' = "idle" /\ ui' = EnableWidgets(ui, TRUE)
           \/ /\ s = NoStick /\ UNCHANGED <<holds, acts>>
              /\ \/ gui' = "launch" /\ UNCHANGED ui
                 \/ gui' = "idle" /\ ui' = EnableWidgets(ui, TRUE)
        /\ UNCHANGED <<worker, confirmed, escaped, disturbed>>

\* Mutant: the controls are left as begin() found them.
LaunchEnabled ==
    /\ InBegin("launch")
    /\ gui' = "idle" /\ worker' = (IF ui.partition THEN "unmount" ELSE "verify")
    /\ UNCHANGED <<ui, holds, confirmed, acts, escaped, disturbed>>

\* A thread can be started once.
Launch ==
    /\ InBegin("launch")
    /\ ui' = EnableWidgets(ui, FALSE) /\ gui' = "idle"
    /\ IF worker = "none"
       THEN worker' = (IF ui.partition THEN "unmount" ELSE "verify") /\ UNCHANGED escaped
       ELSE escaped' = TRUE /\ UNCHANGED worker
    /\ UNCHANGED <<holds, confirmed, acts, disturbed>>

-----------------------------------------------------------------------------
(***************************************************************************)
(* TailsInstallerThread.run.  A step does its work on the stick that is at *)
(* the port now, or fails; a failure ends the run with a status.           *)
(***************************************************************************)

Here == port[live.port]

Worker(step) == /\ worker = step
                /\ UNCHANGED <<port, plugs, window, live, confirmed, escaped, disturbed>>

Fails(step) ==
    /\ Worker(step)
    /\ worker' = "failed"
    /\ UNCHANGED <<holds, attempt, acts>>

UnmountTarget ==
    /\ Worker("unmount")
    /\ Here # NoStick
    /\ worker' \in {"table", "busy"}
    /\ UNCHANGED <<holds, attempt, acts>>

\* A table that cannot be read is zapped; errors of sgdisk are ignored.  The
\* target of a reinstallation is the drive that holds the listed partition.
ReadTable ==
    /\ Worker("table")
    /\ \/ UNCHANGED <<holds, acts>>
       \/ /\ Here # NoStick /\ holds[Here].system = "foreign"
          /\ holds' = [holds EXCEPT ![Here] = [@ EXCEPT !.mbr = FALSE]]
          /\ acts' = acts \cup {Act("wipe", live.port)}
    /\ attempt' = 1 /\ worker' = "partition"

Wiped == [system |-> "blank", persistence |-> "none", mbr |-> FALSE]

\* @retry calls again after any exception, and the last one ends the run.
RetryOnceMore ==
    \/ attempt <= Attempts /\ attempt' = attempt + 1 /\ UNCHANGED worker
    \/ attempt > Attempts /\ worker' = "failed" /\ UNCHANGED attempt
Retry ==
    \/ attempt < Attempts /\ attempt' = attempt + 1 /\ UNCHANGED worker
    \/ attempt = Attempts /\ worker' = "failed" /\ UNCHANGED attempt

\* One attempt of partition_device.  An error after the new table was written,
\* the one "ignored" when the new partition is wiped included, makes @retry
\* write the table again.
PartitionAttempt ==
    /\ Worker("partition")
    /\ \/ /\ Here # NoStick
          /\ holds' = [holds EXCEPT ![Here] = Wiped]
          /\ acts' = acts \cup {Act("wipe", live.port)}
          /\ \/ ~TooSmall(Here) /\ worker' = "rescan" /\ UNCHANGED attempt
             \/ Retry
       \/ UNCHANGED <<holds, acts>> /\ Retry

\* A step that changes no stick; it needs the target to be there.
Passes(step, next) ==
    /\ Worker(step)
    /\ Here # NoStick /\ worker' = next
    /\ UNCHANGED <<holds, attempt, acts>>

\* The scan of the new partition may answer without data; the switch, by name,
\* then finds no such drive.
RescanPartition == Passes("rescan", "switch")
SwitchDriveToSystemPartition == Passes("switch", "format")

FormatDevice ==
    /\ Worker("format")
    /\ Here # NoStick
    /\ holds' = [holds EXCEPT ![Here].system = "torn"]
    /\ acts' = acts \cup {Act("format", live.port)}
    /\ worker' = "mount"
    /\ UNCHANGED attempt

MountDevice == Passes("mount", "verify")
VerifyFilesystem == Passes("verify", "space")
CheckFreeSpace == Passes("space", "extract")

\* Mutant: a copy that was cut short goes on.
ExtractAnyway ==
    /\ Worker("extract")
    /\ Here # NoStick
    /\ \/ CanBeUpgraded(Here) /\ holds' = [holds EXCEPT ![Here].system = "copied"]
       \/ holds' = Torn(Here)
    /\ worker' = "mbr"
    /\ acts' = acts \cup {Act("copy", live.port)}
    /\ UNCHANGED attempt

\* The clone of the source is a copy of file after file.
ExtractIso ==
    /\ Worker("extract")
    /\ Here # NoStick
    /\ \E whole \in BOOLEAN :
         /\ holds' = IF whole /\ CanBeUpgraded(Here)
                    THEN [holds EXCEPT ![Here].system = "copied"] ELSE Torn(Here)
         /\ worker' = IF whole THEN "mbr" ELSE "failed"
    /\ acts' = acts \cup {Act("copy", live.port)}
    /\ UNCHANGED attempt

ReadExtractedMbr == Passes("mbr", "configs")
UpdateConfigs == Passes("configs", "boot")

\* install_bootloader: syslinux on the unmounted partition.
InstallBootloader ==
    /\ Worker("boot")
    /\ Here # NoStick
    /\ holds' = [holds EXCEPT ![Here].system = IF @ = "copied" THEN "new" ELSE @]
    /\ worker' = IF ui.clone_persistent THEN "backup" ELSE "flush"
    /\ UNCHANGED <<attempt, acts>>

\* CreateBackup makes the Persistent Storage of the new system.
ClonePersistentStorage ==
    /\ Worker("backup")
    /\ Here # NoStick
    /\ holds' = [holds EXCEPT ![Here].persistence = "backup"]
    /\ acts' = acts \cup {Act("backup", live.port)}
    /\ worker' = "flush"
    /\ UNCHANGED attempt

\* flush_buffers, unmount_device and, after partitioning, the full drive again.
FlushAndUnmount == Passes("flush", "seed")

ResetMbrAndWriteRandomSeed ==
    /\ Worker("seed")
    /\ Here # NoStick
    /\ holds' = [holds EXCEPT ![Here].mbr = TRUE]
    /\ acts' = acts \cup {Act("seed", live.port)}
    /\ worker' = "complete"
    /\ UNCHANGED attempt

Run ==
    \/ UnmountTarget \/ ReadTable \/ PartitionAttempt \/ RescanPartition
    \/ SwitchDriveToSystemPartition \/ FormatDevice \/ MountDevice \/ VerifyFilesystem
    \/ CheckFreeSpace \/ ExtractIso \/ ReadExtractedMbr \/ UpdateConfigs \/ InstallBootloader
    \/ ClonePersistentStorage \/ FlushAndUnmount \/ ResetMbrAndWriteRandomSeed
    \/ \E step \in Writing \ {"partition"} : Fails(step)

BeginGoesOn ==
    \/ Agree \/ Cancel \/ PassphraseEntered \/ PassphraseCancelled
    \/ MountInBegin \/ DeleteLiveos \/ Launch

LegacyNext ==
    \/ \E s \in Stick, p \in Port : Plug(s, p)
    \/ \E p \in Port : Unplug(p)
    \/ \E n \in Name : SelectTarget(n)
    \/ \E p \in Port \cup {NoPort} : SelectSourceIso(p)
    \/ PopulateDevices \/ PopulateFails
    \/ ToggleSource \/ ToggleClonePersistent
    \/ WarnIsoNotSelected \/ ClickStart \/ ClickReinstall
    \/ BeginGoesOn \/ Run

LegacySpec == LegacyInit /\ [][LegacyNext]_legacyVars

-----------------------------------------------------------------------------
(***************************************************************************)
(* Properties                                                              *)
(***************************************************************************)

(* Every variable has its type; the ports of the window and of the thread  *)
(* are ports.                                                              *)
LegacyTypeOK ==
    /\ port \in [Port -> Stick \cup {NoStick}] /\ holds \in [Stick -> Holding]
    /\ drives \in [Name -> Stick \cup {NoStick}]
    /\ ui.drive \in Name \cup {NoPort} /\ ui.listed \subseteq Name
    /\ gui \in {"idle", "confirm", "passphrase", "mount", "delete", "launch"}
    /\ live \in [port: Port \cup {NoPort}, stick: Stick \cup {NoStick}]
    /\ worker \in Step /\ attempt \in 0..Attempts
    /\ confirmed \subseteq Stick /\ escaped \in BOOLEAN /\ disturbed \in BOOLEAN

(* A stick that is still where the list saw it is erased only if the       *)
(* dialog of this very start named it and was agreed to, and it is neither *)
(* the stick Tails runs from nor, after a whole scan, too small for Tails:  *)
(* begin() and run() read the target and the options at other times than   *)
(* the dialog.                                                             *)
ErasedAsAgreed ==
    \A a \in acts : /\ a.what \in {"wipe", "format"}
                    /\ a.stick = a.listed
                    => /\ a.stick \in confirmed \ {Running}
                       /\ a.stick \in Small => ~a.settled

(* What an upgrade deletes without a dialog was a Tails system, unless an  *)
(* exception left a handler half-way: the options are then those of        *)
(* another drive than the target.                                          *)
UpgradesATails ==
    \A a \in acts : /\ a.what = "delete"
                    /\ a.stick = a.listed
                    => a.held # "foreign" \/ ~a.settled

(* A Persistent Storage is cloned only onto a stick that this run has      *)
(* partitioned anew, never beside or over the one an upgraded stick has.   *)
BackupOnNewTable ==
    \A a \in acts : a.what = "backup" /\ ~disturbed
                    => \E w \in acts : w.what = "wipe" /\ w.stick = a.stick

\* The target, none to upgrade, was copied to under the options of another drive.
CopiedAstray ==
    \E a \in acts : /\ a.what = "copy" /\ a.stick = Here
                    /\ a.held = "foreign" /\ ~a.settled

(* "Cloning complete" on the listed target, which stayed plugged in, means *)
(* a bootable system with its boot record, and the clone of the Persistent *)
(* Storage if it was asked for; the system is whole unless this very copy  *)
(* went onto a stick without a Tails system, as the options of another     *)
(* drive allow after an exception left a handler half-way.                 *)
CompleteIsWhole ==
    worker = "complete" /\ ~disturbed /\ Here = live.stick
    => /\ holds[Here].system = "new" \/ CopiedAstray
       /\ holds[Here].mbr
       /\ ui.clone_persistent => holds[Here].persistence = "backup"

(* The installing thread reads the options and the list of the window at   *)
(* every step; no handler of the window changes them while it runs.        *)
SettledWhileWriting ==
    [][(worker \in Writing) => UNCHANGED <<drives, ui>>]_legacyVars
=============================================================================
