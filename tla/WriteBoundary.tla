--------------------------- MODULE WriteBoundary ---------------------------
(***************************************************************************)
(* From the operator's choice of a target disk to the first byte written   *)
(* on it: controller.py, with the GUI's (app.py) and the command line's    *)
(* (cli.py) way of asking for the acknowledgement, the device scan of      *)
(* devices.py, and the last checks of creator.py and upgrader.py.          *)
(*                                                                         *)
(* Three parties interleave.  The hardware: a drive may be unplugged, and  *)
(* another one may take over its kernel node, between any two steps.       *)
(* Background scans (startup, the refresh button, Ctrl+D) replace the      *)
(* shared list state.devices without a lock.  One destructive operation    *)
(* goes through confirmation, revalidation and write.  Each step of a      *)
(* program thread lies between two accesses to what the parties share: the *)
(* hardware and state.devices.                                             *)
(***************************************************************************)
EXTENDS Naturals

CONSTANTS
    Node,           \* kernel names of whole disks (/dev/sdb, /dev/sdc, ...)
    Drive,          \* physical drives
    None,           \* no drive, no node, no path, no serial
    Serial,         \* [Drive -> serial or WWN, None when the drive has neither]
    Looks,          \* [Drive -> size, vendor, model and transport taken together]
    HasById,        \* drives that udev gives a link in /dev/disk/by-id
    Protected,      \* drives with a filesystem the running system uses
    Tails,          \* drives with a VFAT partition labelled Tails
    Fits,           \* [Kind -> drives big enough, writable, with Tails to upgrade]
    SourcePaths,    \* paths the operator names an attached live source by
    Refresher,      \* background jobs that scan the devices
    MaxSwaps        \* bound on the plug and unplug events

Kind == {"install", "upgrade"}
Mode == {"LOCAL", "REMOTE", "ATTACHED", "RUNNING"}

(* A path names a whole disk or a partition by its kernel node, or a disk  *)
(* or a partition by a link in /dev/disk/by-id.                            *)
Path == {"disk", "part"} \X Node \cup {"byid", "byid-part"} \X HasById
PathOrNone == Path \cup {None}

ASSUME NamesAssumption ==
    /\ Node \cap Drive = {}
    /\ None \notin Node \cup Drive \cup Path

ASSUME DrivesAssumption ==
    /\ HasById \subseteq Drive
    /\ Protected \subseteq Drive
    /\ Tails \subseteq Drive
    /\ Fits \in [Kind -> SUBSET Drive]
    /\ Fits["upgrade"] \subseteq Tails
    /\ DOMAIN Serial = Drive
    /\ DOMAIN Looks = Drive

ASSUME EnvironmentAssumption ==
    /\ SourcePaths \subseteq Path
    /\ MaxSwaps \in Nat

(* What list_devices says of a disk; .drive stands for the data lsblk read *)
(* from the hardware, .flagged for a disabled_reason that annotation adds. *)
Device == [node: Node, drive: Drive, stable: HasById \cup {None},
           flagged: BOOLEAN]

Phase == {"idle",
          "asked", "dialog",                                  \* GUI
          "scanned", "named",                                 \* command line
          "submitted", "verified", "planning", "planned",     \* controller
          "listed", "resolved", "assigned", "annotated", "validated",
          "distinct", "sourced", "located", "prepared",       \* write service
          "done"}

ServicePhase == {"validated", "distinct", "sourced", "located", "prepared"}

Result == {"none", "ok", "failed", "integrity", "missing", "blocked",
           "rescan", "disappeared", "identity", "source-absent",
           "source-gone", "source-changed", "token"}

VARIABLES
    plugged,        \* hardware: the drive behind each kernel node
    swaps,          \* plug and unplug events so far
    devices,        \* state.devices, the list every thread shares
    refresh,        \* each background scan: its step and its local list
    mode,           \* state.source_mode
    running,        \* state.running_tails_device
    attached,       \* state.attached_live_source_device
    pc,             \* the step of the destructive operation
    kind,           \* install or upgrade
    path,           \* the target path the operator gave
    list,           \* the operation's own scan (fresh_devices)
    initial,        \* initial_plan.target and initial_source, by identity
    target,         \* fresh_plan.target
    source,         \* write path of the live source
    snode,          \* kernel node of the source partition
    node,           \* kernel node of the target partition
    result,         \* how the operation ended
    \* history, for the properties only:
    acked,          \* identity of the hardware the operator acknowledged
    written,        \* the drive the write went to
    readFrom,       \* the drive a live upgrade copied from
    validated,      \* the drive behind state.attached_live_source_device
    moved,          \* that drive's node was replugged since
    touched,        \* phases of this operation with a plug or unplug event
    raced           \* a background list came between two steps that read it

hardware == <<plugged, swaps>>
choice == <<mode, running, attached, validated>>
request == <<kind, path>>
services == <<source, snode, node, written, readFrom>>
vars == <<plugged, swaps, devices, refresh, mode, running, attached, pc, kind,
          path, list, initial, target, source, snode, node, result, acked, written,
          readFrom, validated, moved, touched, raced>>

-----------------------------------------------------------------------------
(* Helpers of devices.py, models.py, source.py and planner.py.             *)

(* get_parent_disk_path: a by-id link is returned as it is.                *)
Parent(p) == IF p \in {"part"} \X Node THEN <<"disk", p[2]>> ELSE p

(* find_stable_device_path, resolved when the link is looked up.           *)
(* A link for a drive that udev gives none. *)
StableOfAny(n) == plugged[n]
StableOf(n) == IF plugged[n] \in HasById THEN plugged[n] ELSE None

Snapshot == {[node |-> n, drive |-> plugged[n], stable |-> None,
              flagged |-> FALSE] : n \in {m \in Node : plugged[m] # None}}

WithStablePaths(l) == {[d EXCEPT !.stable = StableOf(d.node)] : d \in l}

(* target_is_attached_live_source and target_is_running_system_device.     *)
(* The comparison without the parent-disk rule. *)
IsNamedSource(n) == <<"disk", n>> \in {attached, running}
IsLiveSource(n) == <<"disk", n>> \in {Parent(attached), Parent(running)}
Annotated(l) == {[d EXCEPT !.flagged = IsLiveSource(d.node)] : d \in l}

Matches(d, p) ==
    \/ <<"disk", d.node>> \in {p, Parent(p)}
    \/ d.stable # None /\ p = <<"byid", d.stable>>
Found(l, p) == {d \in l : Matches(d, p)}

(* The kernel name even when there is a stable path. *)
WritePathByNode(d) == <<"disk", d.node>>
WritePath(d) == IF d.stable # None THEN <<"byid", d.stable>>
                                   ELSE <<"disk", d.node>>

(* BlockDevice.identity_key; WWN and serial are one attribute here.        *)
Identity(d) ==
    IF Serial[d.drive] # None THEN <<"serial", Serial[d.drive]>>
    ELSE IF d.stable # None THEN <<"by-id", d.stable>>
    ELSE <<"fallback", Looks[d.drive]>>

(* A target that is merely still present. *)
IdentityIgnored(k, l) == TRUE
SameIdentity(k, l) == k = l

(* target_confirmation_token is empty for a target without a serial and    *)
(* without a by-id link.                                                   *)
HasToken(d) == Serial[d.drive] # None \/ d.stable # None

SourcePath == CASE mode = "RUNNING" -> running
                [] mode = "ATTACHED" -> attached
                [] OTHER -> None

(* plan_operation's blocking errors: what the source forbids, a            *)
(* disabled_reason, and the target's own shortcomings.                     *)
Blocked(d) ==
    \/ mode = "REMOTE"
    \/ mode \in {"RUNNING", "ATTACHED"} /\ (kind = "install" \/ SourcePath = None)
    \/ d.flagged
    \/ d.drive \in Protected
    \/ d.drive \notin Fits[kind]

(* The kernel nodes a path denotes now: one, or none.                      *)
Denotes(p) == {n \in Node : /\ plugged[n] # None
                            /\ p[2] = n \/ p = <<"byid", plugged[n]>>}

-----------------------------------------------------------------------------
Init ==
    /\ plugged \in [Node -> Drive \cup {None}]
    /\ \A m, n \in Node : plugged[m] = plugged[n] /\ plugged[m] # None => m = n
    /\ swaps = 0
    /\ devices = {}
    /\ refresh = [r \in Refresher |-> [at |-> "idle", list |-> {}]]
    /\ running \in {None} \cup {<<"part", n>> : n \in
                      {m \in Node : plugged[m] \in Protected \cap Tails}}
    /\ mode = IF running # None THEN "RUNNING" ELSE "LOCAL"
    /\ attached = None /\ validated = None /\ moved = FALSE
    /\ pc = "idle" /\ kind = "install" /\ path = None
    /\ list = {} /\ initial = None /\ target = None
    /\ source = None /\ snode = None /\ node = None
    /\ result = "none" /\ acked = None /\ written = None /\ readFrom = None
    /\ touched = {} /\ raced = FALSE

(***************************************************************************)
(* The hardware.                                                           *)
(***************************************************************************)

(* Only events after the acknowledgement can matter to it.                 *)
Watched == Phase \ {"idle", "asked", "scanned", "named", "done"}

Swap(n, d) ==
    /\ swaps < MaxSwaps
    /\ swaps' = swaps + 1
    /\ plugged' = [plugged EXCEPT ![n] = d]
    /\ touched' = IF pc \in Watched THEN touched \cup {pc} ELSE touched
    /\ moved' = (moved \/ attached \in {"disk", "part"} \X {n})
    /\ UNCHANGED <<devices, refresh, choice, pc, request, list,
                   initial, target, services, result, acked, raced>>

Unplug(n) == plugged[n] # None /\ Swap(n, None)

Plug(n, d) == /\ plugged[n] = None
              /\ \A m \in Node : plugged[m] # d
              /\ Swap(n, d)

(***************************************************************************)
(* A background refresh_devices: list_devices reads lsblk, then the by-id  *)
(* links; discover_devices assigns the list, then annotates whatever list  *)
(* is current.  A failed lsblk leaves the old list in place.               *)
(***************************************************************************)

RefreshRest == UNCHANGED <<hardware, choice, moved, pc, request, list, initial,
                           target, services, result, acked, touched>>

(* Buttons and Ctrl+D submit nothing while the operation holds the locks;  *)
(* the GUI's tick plans the selected target and so rescans an emptied list. *)
RefreshSubmit(r) ==
    /\ refresh[r].at = "idle"
    /\ pc = "idle" \/ devices = {}
    /\ refresh' = [refresh EXCEPT ![r].at = "queued"]
    /\ UNCHANGED <<devices, raced>> /\ RefreshRest

RefreshList(r) ==
    /\ refresh[r].at = "queued"
    /\ \/ refresh' = [refresh EXCEPT ![r] = [at |-> "listed", list |-> Snapshot]]
       \/ refresh' = [refresh EXCEPT ![r].at = "idle"]
    /\ UNCHANGED <<devices, raced>> /\ RefreshRest

RefreshResolve(r) ==
    /\ refresh[r].at = "listed"
    /\ refresh' = [refresh EXCEPT
                     ![r] = [at |-> "resolved", list |-> WithStablePaths(@.list)]]
    /\ UNCHANGED <<devices, raced>> /\ RefreshRest

(* The list the operation reads next, if it is one it already relies on.   *)
Exposed == {"dialog", "submitted", "verified", "planning", "assigned", "annotated"}

RefreshAssign(r) ==
    /\ refresh[r].at = "resolved"
    /\ devices' = refresh[r].list
    /\ refresh' = [refresh EXCEPT ![r] = [at |-> "assigned", list |-> {}]]
    /\ raced' = (raced \/ pc \in Exposed)
    /\ RefreshRest

RefreshAnnotate(r) ==
    /\ refresh[r].at = "assigned"
    /\ devices' = Annotated(devices)
    /\ refresh' = [refresh EXCEPT ![r].at = "idle"]
    /\ UNCHANGED raced /\ RefreshRest

(* The GUI's tick annotates the current list, at any moment.               *)
SyncDevices ==
    /\ devices' = Annotated(devices)
    /\ UNCHANGED <<refresh, raced>> /\ RefreshRest

RefreshStep(r) == \/ RefreshSubmit(r) \/ RefreshList(r) \/ RefreshResolve(r)
                  \/ RefreshAssign(r) \/ RefreshAnnotate(r)

(***************************************************************************)
(* The operator's choices, open while no operation runs.                   *)
(***************************************************************************)

ChoiceRest == UNCHANGED <<hardware, devices, refresh, pc, request, list, initial,
                          target, services, result, acked, touched, raced>>

SetSourceMode(m) ==
    /\ pc = "idle"
    /\ m = "RUNNING" => running # None
    /\ mode' = m
    /\ UNCHANGED <<running, attached, validated, moved>> /\ ChoiceRest

(* set_attached_live_source: the given path is not compared with the       *)
(* mounted medium, the operator is taken to name the disk that is there.   *)
SetAttachedLiveSource(p) ==
    /\ pc = "idle"
    /\ \E n \in Node :
          /\ plugged[n] \in Tails
          /\ p[2] \in {n, plugged[n]}
          /\ validated' = plugged[n]
    /\ attached' = p /\ mode' = "ATTACHED" /\ moved' = FALSE
    /\ UNCHANGED running
    /\ ChoiceRest

(***************************************************************************)
(* The GUI asks (_confirm_and_clone).  The plan is made from the shared    *)
(* list; the dialog runs an event loop, so background scans go on.         *)
(***************************************************************************)

OperationRest == UNCHANGED <<hardware, choice, moved, refresh, touched, raced>>

(* plan_target_operation's first half: rescan an empty list, annotate.     *)
CurrentList == IF devices = {} THEN WithStablePaths(Snapshot) ELSE devices

AskPlan(k, n) ==
    /\ pc = "idle"
    /\ \E d \in devices : d.node = n
    /\ devices' = Annotated(CurrentList)
    /\ pc' = "asked" /\ kind' = k /\ path' = <<"disk", n>>
    /\ UNCHANGED <<list, initial, target, services, result, acked>>
    /\ OperationRest

ShowDialog ==
    /\ pc = "asked"
    /\ \E d \in Found(devices, path) : ~Blocked(d) /\ acked' = Identity(d)
    /\ pc' = "dialog" /\ touched' = {} /\ raced' = FALSE
    /\ UNCHANGED <<hardware, choice, moved, refresh, devices, request, list,
                   initial, target, services, result>>

(* No longer listed (a RuntimeError in the callback), or a blocked plan.   *)
NoDialog ==
    /\ pc = "asked"
    /\ \A d \in Found(devices, path) : Blocked(d)
    /\ pc' = "idle" /\ kind' = "install" /\ path' = None
    /\ UNCHANGED <<devices, list, initial, target, services, result, acked>>
    /\ OperationRest

Go(from, to) ==
    /\ pc = from
    /\ pc' = to
    /\ UNCHANGED <<request, acked>>
    /\ OperationRest

Confirm ==
    /\ Go("dialog", "submitted")
    /\ UNCHANGED <<devices, list, initial, target, services, result>>

Decline ==
    /\ pc = "dialog"
    /\ pc' = "idle" /\ kind' = "install" /\ path' = None /\ acked' = None
    /\ UNCHANGED <<devices, list, initial, target, services, result>>
    /\ OperationRest

(***************************************************************************)
(* The command line asks (_execute_operation): one thread scans, plans and *)
(* compares the operator's token with the planned target's.                *)
(***************************************************************************)

CliScan(k, p) ==
    /\ pc = "idle"
    /\ pc' = "scanned" /\ kind' = k /\ path' = p
    /\ list' = Snapshot
    /\ UNCHANGED <<devices, initial, target, services, result, acked>>
    /\ OperationRest

CliDiscover ==
    /\ Go("scanned", "named")
    /\ devices' = Annotated(WithStablePaths(list))
    /\ list' = {}
    /\ UNCHANGED <<initial, target, services, result>>

(* --yes and the exact token of the hardware in the plan.                  *)
CliAcknowledge ==
    /\ pc = "named"
    /\ \E d \in Found(devices, path) :
          /\ ~Blocked(d) /\ HasToken(d)
          /\ acked' = Identity(d)
    /\ pc' = "submitted" /\ touched' = {} /\ raced' = FALSE
    /\ UNCHANGED <<hardware, choice, moved, refresh, devices, request, list,
                   initial, target, services, result>>

Refuse(from, why) ==
    /\ Go(from, "done")
    /\ result' = why
    /\ list' = {} /\ initial' = None /\ target' = None
    /\ source' = None /\ snode' = None /\ node' = None
    /\ UNCHANGED <<written, readFrom>>

CliRefuse ==
    /\ \/ Refuse("named", "missing") /\ Found(devices, path) = {}
       \/ Refuse("named", "blocked") /\ \E d \in Found(devices, path) : Blocked(d)
       \/ Refuse("named", "token")
    /\ UNCHANGED devices

(***************************************************************************)
(* The controller's write entry points and _require_valid_target_plan.     *)
(***************************************************************************)

(* _resolve_source_image_path re-hashes a recorded image first.            *)
Rehash ==
    /\ mode = "LOCAL"
    /\ \/ /\ Go("submitted", "verified")
          /\ UNCHANGED <<list, initial, target, services, result>>
       \/ Refuse("submitted", "integrity")
    /\ UNCHANGED devices

PlanAnnotate ==
    /\ Go(IF mode = "LOCAL" THEN "verified" ELSE "submitted", "planning")
    /\ devices' = Annotated(CurrentList)
    /\ UNCHANGED <<list, initial, target, services, result>>

(* The live source's identity in a list, None when it is not listed there. *)
SourceIdentity(l) ==
    IF SourcePath = None \/ Found(l, SourcePath) = {} THEN None
    ELSE Identity(CHOOSE s \in Found(l, SourcePath) : TRUE)

PlanInitial ==
    /\ Go("planning", "planned")
    /\ \E d \in Found(devices, path) :
          /\ ~Blocked(d)
          /\ initial' = [target |-> Identity(d), source |-> SourceIdentity(devices)]
    /\ UNCHANGED <<devices, list, target, services, result>>

PlanRefused ==
    /\ \/ Refuse("planning", "missing") /\ Found(devices, path) = {}
       \/ Refuse("planning", "blocked") /\ \E d \in Found(devices, path) : Blocked(d)
    /\ UNCHANGED devices

FreshList ==
    /\ \/ /\ Go("planned", "listed")
          /\ list' = Snapshot
          /\ UNCHANGED <<initial, target, services, result>>
       \/ Refuse("planned", "rescan")
    /\ UNCHANGED devices

FreshResolve ==
    /\ Go("listed", "resolved")
    /\ list' = WithStablePaths(list)
    /\ UNCHANGED <<devices, initial, target, services, result>>

FreshAssign ==
    /\ Go("resolved", "assigned")
    /\ devices' = list
    /\ list' = {}
    /\ UNCHANGED <<initial, target, services, result>>

FreshAnnotate ==
    /\ Go("assigned", "annotated")
    /\ devices' = Annotated(devices)
    /\ UNCHANGED <<list, initial, target, services, result>>

(* The comparison with the initial plan, the live source's checks, the     *)
(* fresh plan, and the write paths taken from it.                          *)
SourceUnchanged(l) ==
    SourcePath # None =>
        /\ initial.source # None
        /\ SourceIdentity(l) # None
        /\ SameIdentity(initial.source, SourceIdentity(l))

Revalidate ==
    /\ Go("annotated", "validated")
    /\ \E d \in Found(devices, path) :
          /\ SameIdentity(initial.target, Identity(d))
          /\ ~Blocked(d)
          /\ target' = d
    /\ SourceUnchanged(devices)
    /\ IF SourcePath = None THEN source' = None
       ELSE \E s \in Found(devices, SourcePath) : source' = WritePath(s)
    /\ initial' = None
    /\ UNCHANGED <<devices, list, snode, node, written, readFrom, result>>

RevalidateRefused ==
    /\ \/ Refuse("annotated", "disappeared") /\ Found(devices, path) = {}
       \/ /\ Refuse("annotated", "identity")
          /\ \E d \in Found(devices, path) : ~SameIdentity(initial.target, Identity(d))
       \/ /\ Refuse("annotated", "source-absent")
          /\ \E d \in Found(devices, path) : SameIdentity(initial.target, Identity(d))
          /\ SourcePath # None /\ initial.source = None
       \/ /\ Refuse("annotated", "source-gone")
          /\ \E d \in Found(devices, path) : SameIdentity(initial.target, Identity(d))
          /\ SourcePath # None /\ initial.source # None
          /\ SourceIdentity(devices) = None
       \/ /\ Refuse("annotated", "source-changed")
          /\ \E d \in Found(devices, path) : SameIdentity(initial.target, Identity(d))
          /\ SourcePath # None /\ initial.source # None
          /\ SourceIdentity(devices) # None
          /\ ~SameIdentity(initial.source, SourceIdentity(devices))
       \/ /\ Refuse("annotated", "blocked")
          /\ \E d \in Found(devices, path) :
                SameIdentity(initial.target, Identity(d)) /\ Blocked(d)
          /\ SourceUnchanged(devices)
    /\ UNCHANGED devices

(***************************************************************************)
(* A whole-device install (clone_image_to_device): lsblk on the write path *)
(* and the refusal of protected mounts, then dd opens the path anew.       *)
(***************************************************************************)

(* A preparation without the protected mounts. *)
PreparationUnguarded(d) == TRUE
SafeToOverwrite(d) == d \notin Protected

(* Any step of the service may also fail: lsblk, umount, pkexec, dd.       *)
ServiceFails(from) == Refuse(from, "failed") /\ UNCHANGED devices

PrepareTarget ==
    /\ kind = "install"
    /\ Go("validated", "prepared")
    /\ \E n \in Denotes(WritePath(target)) : SafeToOverwrite(plugged[n])
    /\ UNCHANGED <<devices, list, initial, target, services, result>>

WriteDisk ==
    /\ Go("prepared", "done")
    /\ \E n \in Denotes(WritePath(target)) : written' = plugged[n]
    /\ result' \in {"ok", "failed"}
    /\ UNCHANGED <<devices, list, initial, target, source, snode, node, readFrom>>

(***************************************************************************)
(* A partition upgrade (upgrader.py).  From a live medium the two devices' *)
(* real paths must differ; the partitions are then looked up one after the *)
(* other and dd is given their kernel names.                               *)
(***************************************************************************)

RealPath(p) ==
    IF \E n \in Denotes(p) : TRUE THEN <<"disk", CHOOSE n \in Denotes(p) : TRUE>> ELSE p

CompareDevices ==
    /\ kind = "upgrade" /\ SourcePath # None
    /\ Go("validated", "distinct")
    /\ RealPath(source) # RealPath(WritePath(target))
    /\ UNCHANGED <<devices, list, initial, target, services, result>>

(* attach_image: a local image is attached to a loop device.               *)
AttachImage ==
    /\ kind = "upgrade" /\ SourcePath = None
    /\ Go("validated", "sourced")
    /\ UNCHANGED <<devices, list, initial, target, services, result>>

FindSourcePartition ==
    /\ Go("distinct", "sourced")
    /\ snode' \in {n \in Denotes(source) : plugged[n] \in Tails}
    /\ UNCHANGED <<devices, list, initial, target, source, node, written,
                   readFrom, result>>

(* _validate_partition_pair.                                               *)
(* The same partition on both sides. *)
PairUnchecked(n) == plugged[n] \notin Protected
ValidPair(n) == n # snode /\ plugged[n] \notin Protected

FindTargetPartition ==
    /\ Go("sourced", "located")
    /\ node' \in {n \in Denotes(WritePath(target)) :
                    plugged[n] \in Tails /\ ValidPair(n)}
    /\ UNCHANGED <<devices, list, initial, target, source, snode, written,
                   readFrom, result>>

CopyPartition ==
    /\ Go("located", "done")
    /\ plugged[node] # None
    /\ written' = plugged[node]
    /\ IF snode = None THEN readFrom' = None
       ELSE plugged[snode] # None /\ readFrom' = plugged[snode]
    /\ result' \in {"ok", "failed"}
    /\ UNCHANGED <<devices, list, initial, target, source, snode, node>>

Services == \/ PrepareTarget \/ WriteDisk
            \/ CompareDevices \/ AttachImage \/ FindSourcePartition
            \/ FindTargetPartition \/ CopyPartition
            \/ \E from \in ServicePhase : ServiceFails(from)

Controller == \/ Rehash \/ PlanAnnotate \/ PlanInitial \/ PlanRefused
              \/ FreshList \/ FreshResolve \/ FreshAssign \/ FreshAnnotate
              \/ Revalidate \/ RevalidateRefused

(***************************************************************************)
(* The operation is over: the GUI unlocks and keeps its state, the command *)
(* line exits and a later invocation starts from nothing.                  *)
(***************************************************************************)

Clear ==
    /\ pc = "done" /\ pc' = "idle"
    /\ kind' = "install" /\ path' = None
    /\ list' = {} /\ initial' = None /\ target' = None
    /\ source' = None /\ snode' = None /\ node' = None
    /\ result' = "none" /\ acked' = None /\ written' = None /\ readFrom' = None
    /\ touched' = {} /\ raced' = FALSE
    /\ UNCHANGED <<hardware, refresh>>

GuiFinish == Clear /\ UNCHANGED <<devices, choice, moved>>

CliExit ==
    /\ Clear
    /\ devices' = {}
    /\ UNCHANGED running
    /\ mode' = IF running # None THEN "RUNNING" ELSE "LOCAL"
    /\ attached' = None /\ validated' = None /\ moved' = FALSE

-----------------------------------------------------------------------------
Hardware == \E n \in Node : Unplug(n) \/ \E d \in Drive : Plug(n, d)

GuiChoices == \/ \E m \in Mode : SetSourceMode(m)
              \/ \E p \in SourcePaths : SetAttachedLiveSource(p)

(* One source selector per invocation; a catalog image is downloaded first *)
(* and is a local image by then.                                           *)
CliChoices == /\ attached = None
              /\ \/ \E m \in {"LOCAL", "RUNNING"} : SetSourceMode(m)
                 \/ \E p \in SourcePaths : SetAttachedLiveSource(p)

GuiNext ==
    \/ Hardware \/ GuiChoices \/ Controller \/ Services
    \/ SyncDevices \/ \E r \in Refresher : RefreshStep(r)
    \/ \E k \in Kind, n \in Node : AskPlan(k, n)
    \/ ShowDialog \/ NoDialog \/ Confirm \/ Decline
    \/ GuiFinish

CliNext ==
    \/ Hardware \/ CliChoices \/ Controller \/ Services
    \/ \E k \in Kind, p \in Path : CliScan(k, p)
    \/ CliDiscover \/ CliAcknowledge \/ CliRefuse
    \/ CliExit

GuiSpec == Init /\ [][GuiNext]_vars
CliSpec == Init /\ [][CliNext]_vars

-----------------------------------------------------------------------------
Identities == {Identity(d) : d \in Device} \cup {None}

TypeOK ==
    /\ plugged \in [Node -> Drive \cup {None}]
    /\ swaps \in 0..MaxSwaps
    /\ devices \subseteq Device
    /\ refresh \in [Refresher -> [at: {"idle", "queued", "listed", "resolved",
                                       "assigned"}, list: SUBSET Device]]
    /\ mode \in Mode
    /\ running \in PathOrNone
    /\ attached \in PathOrNone
    /\ pc \in Phase
    /\ kind \in Kind
    /\ path \in PathOrNone
    /\ list \subseteq Device
    /\ initial \in [target: Identities, source: Identities] \cup {None}
    /\ target \in Device \cup {None}
    /\ pc \in ServicePhase => target \in Device
    /\ source \in PathOrNone
    /\ snode \in Node \cup {None}
    /\ node \in Node \cup {None}
    /\ pc = "located" => node \in Node
    /\ result \in Result
    /\ acked \in Identities
    /\ written \in Drive \cup {None}
    /\ readFrom \in Drive \cup {None}
    /\ validated \in Drive \cup {None}
    /\ moved \in BOOLEAN
    /\ touched \subseteq Phase
    /\ raced \in BOOLEAN

(* The identity a drive has when nothing moves while it is scanned.        *)
OwnLink(d) == IF d \in HasById THEN d ELSE None
TrueIdentity(d) ==
    IF Serial[d] # None THEN <<"serial", Serial[d]>>
    ELSE IF OwnLink(d) # None THEN <<"by-id", OwnLink(d)>>
    ELSE <<"fallback", Looks[d]>>

WroteOther == written # None /\ TrueIdentity(written) # acked

(* The moments at which a hot-swap can still divert the write: between     *)
(* lsblk and the by-id lookup of the final scan; for a partition upgrade   *)
(* between the lookup of its kernel name and dd; and without a by-id link  *)
(* at any time after the final scan.                                       *)
PostScan == {"listed", "resolved", "assigned", "annotated", "validated",
             "distinct", "sourced", "located", "prepared"}
OpenWindow == IF target.stable = None THEN PostScan ELSE {"listed", "located"}

(* The hardware written to is the hardware the operator acknowledged,      *)
(* unless it was swapped inside that window.  The README's promise of      *)
(* _require_valid_target_plan (controller.py).                             *)
SameHardwareAsConfirmed == WroteOther => touched \cap OpenWindow # {}

(* What holds in the GUI as well, where a background scan may replace the  *)
(* list between two steps of the operation that read it.                   *)
ConfirmedOrRaced == WroteOther => raced \/ touched \cap OpenWindow # {}

(* A disk with a filesystem the running system uses is overwritten only if *)
(* it took the target's place after creator.py's or upgrader.py's own      *)
(* check: no stale list and no earlier swap gets past it.                  *)
ProtectedSpared ==
    written \in Protected => touched \cap {"prepared", "located"} # {}

(* A live upgrade never reads the drive it writes, whatever was swapped:   *)
(* _validate_partition_pair compares the names that dd is given.           *)
NeverOntoItself == readFrom # None => written # readFrom

(* The attached live source is no operation's target, unless it changed    *)
(* its node or a background scan interfered.  README.md: every live-source *)
(* disk is refused as a target.                                            *)
SourceDisturbed == moved \/ raced \/ touched \cap OpenWindow # {}
LiveSourceRefused ==
    written # None /\ written = validated => SourceDisturbed

(* What the annotation by get_parent_disk_path achieves: it holds when the *)
(* source was given by its kernel name.                                    *)
KernelNamedSourceSpared ==
    written # None /\ written = validated =>
        SourceDisturbed \/ attached \in {"byid", "byid-part"} \X Drive

(* While the hardware stays as it is, an attached source that validated is *)
(* found again in the device list: README.md gives it as a by-id partition.*)
ValidatedSourceListed == result = "source-absent" => swaps > 0 \/ raced

-----------------------------------------------------------------------------
(***************************************************************************)
(* Both front ends implement ConfirmedWrite.                               *)
(***************************************************************************)

Stage == CASE pc \in {"idle", "asked", "dialog", "scanned", "named"} -> "idle"
           [] pc = "done" -> "over"
           [] OTHER -> "agreed"

Agreed == IF Stage = "idle" THEN None ELSE acked
Diverted == raced \/ (pc \in ServicePhase /\ touched \cap OpenWindow # {})
Overtaken == touched \cap {"prepared", "located"} # {}

Promised == INSTANCE ConfirmedWrite WITH
    IdentityOf <- [d \in Drive |-> TrueIdentity(d)],
    stage <- Stage, agreed <- Agreed, diverted <- Diverted, overtaken <- Overtaken

(* The operation as a whole, from the acknowledgement to the first byte:   *)
(* one write for one acknowledgement and none without, to the hardware     *)
(* that was acknowledged and to none the running system uses, but for the  *)
(* stated moments; whatever the front end, the controller and the services *)
(* do in between changes neither what was agreed to nor whether it is over. *)
WritesAsConfirmed == Promised!Spec

-----------------------------------------------------------------------------
(***************************************************************************)
(* What the properties rest on.  Each conjunct says what one stretch of    *)
(* the operation may assume; together they are inductive.                  *)
(***************************************************************************)

Injective ==
    \A m, n \in Node : plugged[m] = plugged[n] /\ plugged[m] # None => m = n

NothingWrittenYet == pc # "done" => written = None /\ readFrom = None

(* The partition names that dd is given differ.                            *)
PairDiffers == pc = "located" => node # snode

(* The drive behind the checked name is the checked one until a swap.      *)
GuardHolds ==
    /\ pc = "prepared" /\ "prepared" \notin touched =>
          \A n \in Denotes(WritePath(target)) : plugged[n] \notin Protected
    /\ pc = "located" /\ "located" \notin touched => plugged[node] \notin Protected

(* A list names no disk twice.                                             *)
UniqueEntries(l) ==
    \A d, e \in l :
        d.node = e.node \/ (d.stable # None /\ d.stable = e.stable) => d = e

EntriesUnique ==
    /\ UniqueEntries(devices)
    /\ UniqueEntries(list)
    /\ \A r \in Refresher : UniqueEntries(refresh[r].list)

(* The list still shows, at the target path, what was acknowledged.        *)
ListShowsAcked ==
    pc \in {"dialog", "submitted", "verified", "planning"} /\ ~raced =>
        /\ devices # {}
        /\ \A d \in Found(devices, path) : Identity(d) = acked

InitialIsAcked ==
    pc \in {"planned", "listed", "resolved", "assigned", "annotated"} /\ ~raced =>
        initial.target = acked

(* An entry of the final scan, as far as no swap made it wrong.            *)
Faithful(d) ==
    /\ "listed" \notin touched => d.stable = OwnLink(d.drive)
    /\ touched \cap PostScan = {} => plugged[d.node] = d.drive

ScanFaithful ==
    /\ pc = "listed" /\ "listed" \notin touched =>
          \A d \in list : plugged[d.node] = d.drive
    /\ pc = "resolved" => \A d \in list : Faithful(d)
    /\ pc \in {"assigned", "annotated"} /\ ~raced => \A d \in devices : Faithful(d)

TargetIsAcked ==
    pc \in ServicePhase /\ ~raced => Faithful(target) /\ Identity(target) = acked

LocatedIsAcked ==
    pc = "located" /\ ~raced /\ touched \cap OpenWindow = {} =>
        TrueIdentity(plugged[node]) = acked

=============================================================================
