-------------------------- MODULE WholeDiskInstall --------------------------
(***************************************************************************)
(* clone_image_to_device of creator.py, from the inspection of the target  *)
(* to the optional post-write step of post_write.py.                       *)
(*                                                                         *)
(* The commands that take the disk out of use are computed from one lsblk  *)
(* and then run one by one, while the desktop may mount, unmount, unlock   *)
(* or activate what is on the disk.  After dd the kernel reads the new     *)
(* partition table, which it refuses while a part of the disk is in use.   *)
(***************************************************************************)
EXTENDS Naturals, Sequences, Functions

CONSTANTS
    Layout,         \* the places of the disk in lsblk's depth-first order
    Under,          \* [place -> the place it lies on], None for the disk
    Mapped,         \* places that only a device mapping can fill
    Images,         \* the contents a disk may start with: [place -> Content]
    Tails,          \* the place of the system partition that dd creates
    None,
    MaxEvents       \* bound on what the desktop does

Place == Range(Layout)
Disk == Head(Layout)
Content == {"none", "table", "fs", "swap", "luks", "pv"}

(* What lsblk tells of a disk: contents, what is in use, nested mounts.    *)
Inspection == [content: [Place -> Content], active: [Place -> BOOLEAN],
               nested: (Place \X Place) \cup {None}]

ASSUME LayoutAssumption ==
    /\ Layout \in Seq(Place) \ {<<>>} /\ IsInjective(Layout)
    /\ None \notin Place \cup Inspection /\ Mapped \subseteq Place \ {Disk}
    /\ Tails \in Place \ Mapped /\ Under[Tails] = Disk
    /\ Under \in [Place -> Place \cup {None}]
    /\ \A p \in Place : Under[p] = None <=> p = Disk
    /\ \A i, j \in DOMAIN Layout : Under[Layout[i]] = Layout[j] => j < i
    /\ Images \subseteq [Place -> Content]
    /\ \A c \in Images, p \in Place \ {Disk} :       \* no content without a place
          c[p] # "none" => c[Under[p]] \in
              IF p \in Mapped THEN {"luks", "pv"} ELSE {"table"}
    /\ \A c \in Images, p \in Place : c[p] = "luks" =>    \* one mapping each
          \E q \in Mapped : Under[q] = p /\ \A r \in Mapped : Under[r] = p => r = q
    /\ MaxEvents \in Nat

VARIABLES
    content,        \* what each place holds
    active,         \* mounted, swapping, unlocked: the content is in use
    nested,         \* <<m, n>>: the mount point of m lies in the tree of n
    system,         \* the place the running system has mounted, or None
    pc,
    todo,           \* the deactivation commands still to be run
    options,        \* post_write_options.enabled, with a boot-loader order
    scratch,        \* the mount point of the post-write step
    dd,             \* dd is running
    medium,         \* what it has put on the disk: "untouched", "part", "whole"
    result,
    events,         \* what the desktop has done so far, as a count
    \* history, for the properties only:
    stirred,        \* places the desktop touched since the inspection
    seen,           \* content, use and nesting as the inspection found them
    busy            \* places in use when dd began

vars == <<content, active, nested, system, pc, todo, options, scratch, dd, medium,
          result, events, stirred, seen, busy>>
disk == <<content, active, nested, system>>
copy == <<dd, medium>>
history == <<stirred, seen, busy>>

-----------------------------------------------------------------------------
(* What lsblk lists: partitions of a table, mappings that are open.        *)
Exists(p) ==
    p # Disk =>
        IF p \in Mapped
        THEN content[Under[p]] \in {"luks", "pv"} /\ active[Under[p]]
        ELSE content[Under[p]] = "table"

InUse(p) == Exists(p) /\ active[p]

(* Nothing inside what p holds is in use.                                  *)
Quiet(p) ==
    /\ \A q \in Place : Under[q] = p /\ Exists(q) => ~active[q]
    /\ nested # None => ~(nested[2] = p /\ active[nested[1]])

Command == [run: {"umount", "swapoff", "close"}, at: Place]
IsCrypt(p) == p \in Mapped /\ content[Under[p]] = "luks"

SwapOff(p) == {[run |-> "swapoff", at |-> p]}
Unmount(p) == IF content[p] = "fs" /\ active[p] THEN {[run |-> "umount", at |-> p]} ELSE {}
Close(p) == IF IsCrypt(p) THEN {[run |-> "close", at |-> p]} ELSE {}

(* The body of the loop of inspect_target_deactivation_commands: a swap    *)
(* area is switched off, in use or not, and the loop goes on from there.   *)
CommandsFor(p) == IF content[p] = "swap" THEN SwapOff(p) ELSE Unmount(p) \cup Close(p)

(* walk_nodes([root]), with the disk itself; and what it might have been.  *)
PartitionNodes == {p \in Place \ {Disk} : Exists(p)}
Nodes == {p \in Place : Exists(p)}

Commands == UNION {CommandsFor(p) : p \in Nodes}

(* reversed(nodes): what comes later in lsblk's order is freed earlier, and *)
(* a mapping is closed after what it holds was unmounted.                  *)
Position(p) == CHOOSE i \in DOMAIN Layout : Layout[i] = p
ParentsFirst(p, q) == Position(p) < Position(q)
ChildrenFirst(p, q) == Position(q) < Position(p)
Precedes(c, d) == IF c.at = d.at THEN c.run = "umount" ELSE ChildrenFirst(c.at, d.at)
Upcoming(c) == c \in todo /\ \A d \in todo \ {c} : Precedes(c, d)

-----------------------------------------------------------------------------
Init ==
    /\ content \in Images
    /\ active \in {a \in [Place -> BOOLEAN] :
                     \A p \in Place : a[p] =>
                        /\ content[p] \in {"fs", "swap", "luks", "pv"}
                        /\ Under[p] # None /\ p \in Mapped => a[Under[p]]
                        /\ Under[p] # None /\ p \notin Mapped =>
                              content[Under[p]] = "table"}
    /\ nested \in {None} \cup
          {n \in Place \X Place : /\ n[1] # n[2]
                                  /\ \A i \in 1..2 : content[n[i]] = "fs" /\ InUse(n[i])}
    /\ system \in {None} \cup {p \in Place : content[p] = "fs" /\ InUse(p)}
    /\ pc = "start" /\ todo = {} /\ options \in BOOLEAN /\ scratch = "none"
    /\ dd = FALSE /\ medium = "untouched" /\ result = "none" /\ events = 0
    /\ stirred = {} /\ seen = None /\ busy = {}

(***************************************************************************)
(* The desktop: automounters, the user, another tool.                      *)
(***************************************************************************)

Desktop(p) ==
    /\ events < MaxEvents /\ pc # "done"
    /\ events' = events + 1
    /\ Exists(p) /\ content[p] \in {"fs", "swap", "luks"} /\ p # system
    /\ active[p] => Quiet(p)
    /\ active' = [active EXCEPT ![p] = ~@]
    /\ nested' = IF nested # None /\ p = nested[1] THEN None ELSE nested
    /\ stirred' = IF pc = "start" THEN {} ELSE stirred \cup {p}
    /\ UNCHANGED <<content, system, pc, todo, options, scratch, copy, result, seen, busy>>

(***************************************************************************)
(* prepare_target_device                                                   *)
(***************************************************************************)

End(why) == pc' = "done" /\ result' = why

Inspect ==
    /\ pc = "start"
    /\ system = None
    /\ todo' = Commands
    /\ pc' = "preparing"
    /\ seen' = [content |-> content, active |-> active, nested |-> nested]
    /\ UNCHANGED <<disk, options, scratch, copy, result, events, stirred, busy>>

(* A system mount anywhere on the disk, no such disk, too small, read-only. *)
InspectRefuses ==
    /\ pc = "start"
    /\ End(IF system # None THEN "protected" ELSE "unsuitable")
    /\ UNCHANGED <<disk, todo, options, scratch, copy, events, history>>

(* What the command needs to succeed, and the place it takes out of use.   *)
Works(c) ==
    CASE c.run = "swapoff" -> InUse(c.at)
      [] c.run = "umount" -> InUse(c.at) /\ Quiet(c.at)
      [] c.run = "close" -> Exists(c.at) /\ ~active[c.at]
Freed(c) == IF c.run = "close" THEN Under[c.at] ELSE c.at

RunCommand(c) ==
    /\ pc = "preparing" /\ Upcoming(c)
    /\ Works(c)
    /\ active' = [active EXCEPT ![Freed(c)] = FALSE]
    /\ nested' = IF nested # None /\ Freed(c) = nested[1] THEN None ELSE nested
    /\ todo' = todo \ {c}
    /\ UNCHANGED <<content, system, pc, options, scratch, copy, result, events, history>>

CommandFails(c) ==
    /\ pc = "preparing" /\ Upcoming(c)
    /\ End(IF Works(c) THEN "cancelled" ELSE "busy")
    /\ UNCHANGED <<disk, todo, options, scratch, copy, events, history>>

(***************************************************************************)
(* dd, and the refresh of the partition table                              *)
(***************************************************************************)

BeginWrite ==
    /\ pc = "preparing" /\ todo = {}
    /\ pc' = "writing"
    /\ dd' = TRUE /\ medium' = "part"
    /\ busy' = {p \in Place : InUse(p)}
    /\ UNCHANGED <<disk, todo, options, scratch, result, events, stirred, seen>>

(* dd is a process of its own: it ends when it has written everything, or  *)
(* with an error, and nobody stops it.                                     *)
DdEnds ==
    /\ dd /\ dd' = FALSE
    /\ medium' \in {"part", "whole"}
    /\ UNCHANGED <<disk, pc, todo, options, scratch, result, events, history>>

(* Its status, or a callback that raises while it runs: that leaves it.    *)
EndWrite ==
    /\ pc = "writing"
    /\ \/ ~dd /\ medium = "whole" /\ pc' = "written" /\ UNCHANGED result
       \/ End("failed")
    /\ UNCHANGED <<disk, todo, options, scratch, copy, events, history>>

(* The kernel still lists the old partitions until it has read the table.  *)
RereadTable ==
    /\ pc = "written"
    /\ \A p \in Place : ~InUse(p)
    /\ content' = [p \in Place |-> CASE p = Disk -> "table" [] p = Tails -> "fs"
                                     [] OTHER -> "none"]
    /\ pc' = "refreshed"
    /\ UNCHANGED <<active, nested, system, todo, options, scratch, copy, result,
                   events, history>>

RereadFails ==
    /\ pc = "written"
    /\ End(IF \E p \in Place : InUse(p) THEN "refresh" ELSE "cancelled")
    /\ UNCHANGED <<disk, todo, options, scratch, copy, events, history>>

Settle ==
    /\ pc = "refreshed"
    /\ \/ pc' = "post" /\ UNCHANGED result
       \/ End("failed")
    /\ UNCHANGED <<disk, todo, options, scratch, copy, events, history>>

(***************************************************************************)
(* apply_post_write_options with a boot-loader order                       *)
(***************************************************************************)

PostRest == UNCHANGED <<disk, todo, options, copy, events, history>>

NoOptions ==
    /\ pc = "post" /\ ~options
    /\ End("ok") /\ UNCHANGED scratch /\ PostRest

MountScratch ==
    /\ pc = "post" /\ options
    /\ \/ pc' = "reorder" /\ scratch' = "mounted" /\ UNCHANGED result
       \/ End("failed") /\ UNCHANGED scratch
    /\ PostRest

(* The files are rewritten, or an error is on its way out.                 *)
Reorder ==
    /\ pc = "reorder"
    /\ pc' \in {"release", "release-error"}
    /\ UNCHANGED <<scratch, result>> /\ PostRest

(* _release_mount: a directory that could not be unmounted is kept, and    *)
(* that is an error unless another one is already on its way.              *)
AfterKept(inflight) == IF inflight THEN "failed" ELSE "unreleased"

ReleaseMount ==
    /\ pc \in {"release", "release-error"}
    /\ \/ scratch' = "none" /\ pc = "release" /\ End("ok")
       \/ scratch' = "none" /\ End("failed")      \* the error, or the audit log's
       \/ UNCHANGED scratch /\ End(AfterKept(pc = "release-error"))
    /\ PostRest

-----------------------------------------------------------------------------
Prepare ==
    Inspect \/ InspectRefuses \/ \E c \in todo : RunCommand(c) \/ CommandFails(c)
WriteImage == BeginWrite \/ DdEnds \/ EndWrite \/ RereadTable \/ RereadFails \/ Settle
PostWrite == NoOptions \/ MountScratch \/ Reorder \/ ReleaseMount

Next == Prepare \/ WriteImage \/ PostWrite \/ \E p \in Place : Desktop(p)

Spec == Init /\ [][Next]_vars

-----------------------------------------------------------------------------
TypeOK ==
    /\ content \in [Place -> Content]
    /\ active \in [Place -> BOOLEAN]
    /\ nested \in (Place \X Place) \cup {None}
    /\ system \in Place \cup {None}
    /\ pc \in {"start", "preparing", "writing", "written", "refreshed", "post",
               "reorder", "release", "release-error", "done"}
    /\ todo \subseteq Command
    /\ options \in BOOLEAN /\ scratch \in {"none", "mounted"}
    /\ result \in {"none", "protected", "unsuitable", "cancelled", "busy", "failed",
                   "refresh", "unreleased", "ok"}
    /\ events \in 0..MaxEvents
    /\ stirred \subseteq Place /\ busy \subseteq Place
    /\ seen \in Inspection \cup {None}
    /\ dd \in BOOLEAN /\ medium \in {"untouched", "part", "whole"}

(* The mappings that the commands leave open: an encrypted swap area,      *)
(* since the loop goes on before "cryptsetup close", and logical volumes.  *)
LeftOpen ==
    IF seen = None THEN {}
    ELSE {p \in Place : /\ seen.active[p]
                        /\ \/ seen.content[p] = "pv"
                           \/ \E q \in Mapped : Under[q] = p /\ seen.content[q] = "swap"}

(* dd begins on a disk that nothing uses, apart from what the desktop put  *)
(* to use after the inspection and the mappings left open: a part of       *)
(* WritesAsPromised.                                                       *)
QuietAtWrite == busy \subseteq stirred \cup LeftOpen

(* What inspect_target_deactivation_commands says of its commands: those   *)
(* "required to make a whole disk safe to overwrite".                      *)
SafeToOverwrite == busy \subseteq stirred

(* What the result says has its cause.  A command fails for the state of   *)
(* the disk only when the desktop stepped in, or a swap area was not in    *)
(* use, or a mount point was nested in one that comes later in lsblk's     *)
(* order, or a mapping to be closed holds one that was left open: the      *)
(* order of the commands is right.  A complete write is turned into an     *)
(* error by the kernel's refusal to read the table only for the two causes *)
(* of QuietAtWrite.  And after a success the tool has no mount left on the *)
(* new medium.                                                             *)
EndsForCause ==
    /\ result = "busy" =>
        \/ stirred # {}
        \/ \E p \in Place : seen.content[p] = "swap" /\ ~seen.active[p]
        \/ seen.nested # None /\ Position(seen.nested[1]) < Position(seen.nested[2])
        \/ LeftOpen \cap Mapped # {}
    /\ result = "refresh" => stirred # {} \/ LeftOpen # {}
    /\ result = "ok" => scratch = "none"

(* The installation keeps what a write service promises: dd is started     *)
(* once, on a disk in use only where the desktop stepped in or a mapping   *)
(* is left open; success is reported only when it has written it all, and  *)
(* an unsuitable, protected or busy disk only when it was not started.     *)
Promised == INSTANCE MediumWrite WITH
    Part <- Place,
    writing <- dd,
    outcome <- CASE result \in {"none", "ok"} -> result
                 [] result \in {"protected", "unsuitable", "busy"} -> "refused"
                 [] OTHER -> "failed",
    inUse <- busy,
    excused <- stirred \cup LeftOpen

WritesAsPromised == Promised!Spec

=============================================================================
