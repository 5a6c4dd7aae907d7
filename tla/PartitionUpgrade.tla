-------------------------- MODULE PartitionUpgrade --------------------------
(***************************************************************************)
(* upgrade_tails_system_partition and its sibling for a live device        *)
(* (upgrader.py): the source image on a loop device, the system partition  *)
(* of the target looked up, unmounted and overwritten, and the recheck of  *)
(* Persistent Storage.  Any command may fail, the progress callback may    *)
(* raise, and the desktop or the operator may touch the target meanwhile.  *)
(***************************************************************************)
EXTENDS Integers, FiniteSets

CONSTANTS
    MountPoint,     \* where the target's system partition may be mounted
    Attempts,       \* lsblk probes for the partitions of the loop device
    Faults,         \* what may go wrong: a subset of Fault
    MaxEvents       \* bound on what happens to the target meanwhile

(* "command": a command fails; "detach": losetup --detach does; "sink":    *)
(* the progress callback raises.                                           *)
Fault == {"command", "detach", "sink"}

ASSUME UpgradeAssumption ==
    /\ IsFiniteSet(MountPoint)
    /\ Attempts \in Nat \ {0}
    /\ Faults \subseteq Fault
    /\ MaxEvents \in Nat

VARIABLES
    from,           \* what is upgraded from: an image or a device
    loop,           \* the loop device: absent, bare (no partitions yet), ready
    tries,          \* probes left
    system,         \* the target's system partition: old, torn, new
    keeps,          \* the target has a Persistent Storage partition
    mounts,         \* where the system partition is mounted
    had,            \* had_persistence
    seen,           \* target_partition.mountpoints not yet unmounted
    pc,
    dd,             \* dd is running
    verdict,        \* none, ok, or the error that is on its way out
    events,
    \* history, for the properties only:
    remounted,      \* mounted anew since the partition was looked up
    lost,           \* where in the operation Persistent Storage went away
    overMounted,    \* dd wrote the partition while it was mounted
    left            \* why the loop device was left behind

vars == <<from, loop, tries, system, keeps, mounts, had, seen, pc, dd, verdict,
          events, remounted, lost, overMounted, left>>
target == <<system, dd, keeps, mounts>>
history == <<remounted, lost, overMounted, left>>

Phase == {"start", "probing", "timed-out", "announcing", "source", "persistence",
          "target", "unmounting", "copying", "flushing", "recheck", "cleanup", "done"}

-----------------------------------------------------------------------------
Init ==
    /\ from \in {"image", "device"}
    /\ loop = "absent" /\ tries = Attempts
    /\ system = "old" /\ keeps \in BOOLEAN /\ mounts \in SUBSET MountPoint
    /\ had = FALSE /\ seen = {}
    /\ pc = "start" /\ dd = FALSE /\ verdict = "none" /\ events = 0
    /\ remounted = FALSE /\ lost = {} /\ overMounted = FALSE /\ left = "none"

(***************************************************************************)
(* The target meanwhile.                                                   *)
(***************************************************************************)

MeanwhileRest == UNCHANGED <<from, loop, tries, system, had, seen, pc, dd, verdict,
                             overMounted, left>>
Event == events < MaxEvents /\ pc # "done" /\ events' = events + 1

Automount(m) ==
    /\ Event
    /\ m \notin mounts /\ mounts' = mounts \cup {m}
    /\ remounted' = (remounted \/ pc \in {"unmounting", "copying"})
    /\ UNCHANGED <<keeps, lost>> /\ MeanwhileRest

Unmounted(m) ==
    /\ Event
    /\ m \in mounts /\ mounts' = mounts \ {m}
    /\ UNCHANGED <<keeps, lost, remounted>> /\ MeanwhileRest

(* The partition is deleted, or another Tails medium takes the name.       *)
LosePersistence ==
    /\ Event
    /\ keeps /\ keeps' = FALSE
    /\ lost' = lost \cup {pc}
    /\ UNCHANGED <<mounts, remounted>> /\ MeanwhileRest

(***************************************************************************)
(* The source.                                                             *)
(***************************************************************************)

Fails(kind) == kind \in Faults
MayRaise == Fails("command") \/ Fails("sink")

(* An error inside the try block runs the finally block, if there is one.  *)
Raise == /\ pc' = IF from = "image" THEN "cleanup" ELSE "done"
         /\ verdict' = "failed"

(* A live device is used as it is.                                         *)
UseDevice ==
    /\ pc = "start" /\ from = "device"
    /\ pc' = "source"
    /\ UNCHANGED <<from, loop, tries, target, had, seen, verdict, events, history>>

AttachImage ==
    /\ pc = "start" /\ from = "image"
    /\ \/ pc' = "probing" /\ loop' = "bare" /\ UNCHANGED verdict
       \/ Fails("command") /\ pc' = "done" /\ verdict' = "failed" /\ UNCHANGED loop
    /\ UNCHANGED <<from, tries, target, had, seen, events, history>>

(* The kernel scans the loop device for partitions, some time.             *)
Partscan ==
    /\ loop = "bare"
    /\ loop' = "ready"
    /\ UNCHANGED <<from, tries, target, had, seen, pc, verdict, events, history>>

(* _wait_for_loop_partitions: a failed lsblk counts as a probe.            *)
ExhaustedLate(n) == n + 1 = 0
Exhausted(n) == n = 0

NeverLess(n) == n
OneLess(n) == n - 1

Probe ==
    /\ pc = "probing" /\ ~Exhausted(tries)
    /\ \/ loop = "ready" /\ pc' = "announcing" /\ UNCHANGED tries
       \/ /\ loop = "bare" \/ Fails("command")
          /\ tries' = OneLess(tries) /\ UNCHANGED pc
    /\ UNCHANGED <<from, loop, target, had, seen, verdict, events, history>>

TimeOut ==
    /\ pc = "probing" /\ Exhausted(tries)
    /\ pc' = "timed-out" /\ verdict' = "failed"
    /\ UNCHANGED <<from, loop, tries, target, had, seen, events, history>>

KeptOnTimeOut(l) == l
DetachedOnTimeOut(l) == "absent"

DetachAfterTimeOut ==
    /\ pc = "timed-out" /\ pc' = "done"
    /\ \/ loop' = DetachedOnTimeOut(loop) /\ UNCHANGED left
       \/ Fails("detach") /\ left' = "detach" /\ UNCHANGED loop
    /\ UNCHANGED <<from, tries, target, had, seen, verdict, events, remounted,
                   lost, overMounted>>

(* "Attached source image ..." is reported before the try block.           *)
Announce ==
    /\ pc = "announcing"
    /\ \/ pc' = "source" /\ UNCHANGED <<verdict, left>>
       \/ Fails("sink") /\ pc' = "done" /\ verdict' = "failed" /\ left' = "announce"
    /\ UNCHANGED <<from, loop, tries, target, had, seen, events, remounted, lost,
                   overMounted>>

FindSource ==
    /\ pc = "source"
    /\ \/ pc' = "persistence" /\ UNCHANGED verdict
       \/ MayRaise /\ Raise
    /\ UNCHANGED <<from, loop, tries, target, had, seen, events, history>>

(***************************************************************************)
(* The target (_upgrade_from_source_partition).                            *)
(***************************************************************************)

ReadPersistence ==
    /\ pc = "persistence"
    /\ \/ pc' = "target" /\ had' = keeps /\ UNCHANGED verdict
       \/ MayRaise /\ Raise /\ UNCHANGED had
    /\ UNCHANGED <<from, loop, tries, target, seen, events, history>>

FindTarget ==
    /\ pc = "target"
    /\ \/ pc' = "unmounting" /\ seen' = mounts /\ UNCHANGED verdict
       \/ MayRaise /\ Raise /\ UNCHANGED seen
    /\ UNCHANGED <<from, loop, tries, target, had, events, history>>

(* A mount that somebody else undid makes umount fail.                     *)
UnmountOne ==
    /\ pc = "unmounting" /\ seen # {}
    /\ \E m \in seen :
          \/ /\ m \in mounts
             /\ mounts' = mounts \ {m} /\ seen' = seen \ {m}
             /\ UNCHANGED <<pc, verdict>>
          \/ /\ m \notin mounts \/ MayRaise
             /\ Raise /\ UNCHANGED <<mounts, seen>>
    /\ UNCHANGED <<from, loop, tries, system, dd, keeps, had, events, history>>

BeginCopy ==
    /\ pc = "unmounting" /\ seen = {}
    /\ pc' = "copying"
    /\ system' = "torn" /\ dd' = TRUE
    /\ overMounted' = (mounts # {})
    /\ UNCHANGED <<from, loop, tries, keeps, mounts, had, seen, verdict, events,
                   remounted, lost, left>>

(* dd is a process of its own, and nobody stops it.                        *)
DdEnds ==
    /\ dd /\ dd' = FALSE
    /\ \/ system' = "new"
       \/ Fails("command") /\ UNCHANGED system
    /\ UNCHANGED <<from, loop, tries, keeps, mounts, had, seen, pc, verdict, events,
                   history>>

\* Mutant: nobody looks at dd's exit status.
EndCopyUnchecked ==
    /\ pc = "copying" /\ ~dd /\ pc' = "flushing"
    /\ UNCHANGED <<from, loop, tries, target, had, seen, verdict, events, history>>

(* dd's status; or a progress line that cannot be relayed, which leaves dd *)
(* to itself.                                                              *)
EndCopy ==
    /\ pc = "copying"
    /\ \/ ~dd /\ system = "new" /\ pc' = "flushing" /\ UNCHANGED verdict
       \/ ~dd /\ system = "torn" /\ Raise
       \/ Fails("sink") /\ Raise
    /\ UNCHANGED <<from, loop, tries, target, had, seen, events, history>>

Flush ==
    /\ pc = "flushing"
    /\ \/ pc' = "recheck" /\ UNCHANGED verdict
       \/ Fails("command") /\ Raise
    /\ UNCHANGED <<from, loop, tries, target, had, seen, events, history>>

RecheckSkipped(before, now) == FALSE
Disappeared(before, now) == before /\ ~now

Recheck ==
    /\ pc = "recheck"
    /\ \/ /\ ~Disappeared(had, keeps)
          /\ pc' = IF from = "image" THEN "cleanup" ELSE "done"
          /\ verdict' = "ok"
       \/ (Disappeared(had, keeps) \/ MayRaise) /\ Raise
    /\ UNCHANGED <<from, loop, tries, target, had, seen, events, history>>

(* The finally block: a detach that fails is a warning only, but a warning *)
(* that cannot be relayed takes the place of the result.                   *)
ErrorOfDetach(v) == "failed"
VerdictStands(v) == v

Cleanup ==
    /\ pc = "cleanup" /\ pc' = "done"
    /\ \/ loop' = "absent" /\ UNCHANGED <<verdict, left>>
       \/ /\ Fails("detach") /\ UNCHANGED loop
          /\ \/ left' = "detach" /\ verdict' = VerdictStands(verdict)
             \/ Fails("sink") /\ left' = "warning" /\ verdict' = "failed"
    /\ UNCHANGED <<from, tries, target, had, seen, events, remounted, lost, overMounted>>

-----------------------------------------------------------------------------
Source == \/ UseDevice \/ AttachImage \/ Probe \/ TimeOut \/ DetachAfterTimeOut
          \/ Announce \/ FindSource
Target == \/ ReadPersistence \/ FindTarget \/ UnmountOne \/ BeginCopy \/ EndCopy
          \/ Flush \/ Recheck
Step == Source \/ Target \/ Cleanup
Meanwhile == \/ \E m \in MountPoint : Automount(m) \/ Unmounted(m)
             \/ LosePersistence \/ Partscan \/ DdEnds

Next == Step \/ Meanwhile

(* The operation is a thread that runs; its commands and the copy end.     *)
Spec == Init /\ [][Next]_vars /\ WF_vars(Step) /\ WF_vars(DdEnds)

-----------------------------------------------------------------------------
TypeOK ==
    /\ from \in {"image", "device"}
    /\ loop \in {"absent", "bare", "ready"} /\ (from = "device" => loop = "absent")
    /\ tries \in 0..Attempts
    /\ system \in {"old", "torn", "new"} /\ keeps \in BOOLEAN
    /\ mounts \subseteq MountPoint /\ seen \subseteq MountPoint
    /\ had \in BOOLEAN
    /\ pc \in Phase /\ dd \in BOOLEAN /\ verdict \in {"none", "ok", "failed"}
    /\ events \in 0..MaxEvents
    /\ remounted \in BOOLEAN /\ overMounted \in BOOLEAN
    /\ lost \subseteq Phase /\ left \in {"none", "detach", "warning", "announce"}

(* Success means a complete new system partition and Persistent Storage as *)
(* it was, unless it went away before the tool looked for the first time   *)
(* or after it had looked for the last time.                               *)
BeforeFirstLook == {"start", "probing", "announcing", "source", "persistence"}
SuccessIsWhole ==
    pc = "done" /\ verdict = "ok" =>
        /\ system = "new"
        /\ lost \subseteq BeforeFirstLook \cup {"cleanup"}

(* dd writes on a mounted partition only if it was mounted after the       *)
(* lookup that gave the mount points: a part of WritesAsPromised.          *)
CopyUnmounted == overMounted => remounted

(* No loop device is left behind unless its detach failed or the callback  *)
(* raised between the attachment and the try block.                        *)
LoopReleased ==
    pc = "done" /\ loop # "absent" => left # "none"

(* "Never let a cleanup failure replace the real upgrade error (or fail a  *)
(* good one)": only a callback that raises may do so (upgrader.py).        *)
CleanupNeverDecides ==
    [][pc = "cleanup" /\ verdict' # verdict => left' = "warning"]_vars

(* The upgrade keeps what a write service promises: dd is started once, on *)
(* a partition that is mounted only if it was mounted after the lookup,    *)
(* and what is reported, when all is cleaned up, is success only when it   *)
(* has written it all.                                                     *)
Promised == INSTANCE MediumWrite WITH
    Part <- {"partition"},
    medium <- CASE system = "old" -> "untouched" [] system = "torn" -> "part"
                [] system = "new" -> "whole",
    writing <- dd,
    outcome <- IF pc = "done" THEN verdict ELSE "none",
    inUse <- IF overMounted THEN {"partition"} ELSE {},
    excused <- IF remounted THEN {"partition"} ELSE {}

WritesAsPromised == Promised!Spec

(* The operation ends: the wait for the partitions is bounded.             *)
Ends == <>(pc = "done")

=============================================================================
