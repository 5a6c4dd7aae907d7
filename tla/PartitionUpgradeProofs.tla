----------------------- MODULE PartitionUpgradeProofs -----------------------
(***************************************************************************)
(* What PartitionUpgrade guarantees for every set of mount points, every   *)
(* number of probes and of events on the target, and every set of faults.  *)
(***************************************************************************)
EXTENDS PartitionUpgrade, FiniteSetTheorems, TLAPS

\* The stretch between the two looks at Persistent Storage.
BetweenLooks == {"target", "unmounting", "copying", "flushing", "recheck"}

(***************************************************************************)
(* What went away between the two looks was there at the first and is not  *)
(* at the second, which therefore refuses; only a whole copy comes to the  *)
(* second look.                                                            *)
(***************************************************************************)
LooksInv ==
    /\ pc \in BeforeFirstLook => lost \subseteq BeforeFirstLook
    /\ pc \in BetweenLooks =>
          /\ keeps => had
          /\ lost \subseteq BeforeFirstLook \/ (had /\ ~keeps)
    /\ pc \in {"flushing", "recheck"} => system = "new" /\ ~dd
    /\ verdict = "ok" => /\ pc \in {"cleanup", "done"}
                         /\ system = "new" /\ ~dd
                         /\ lost \subseteq BeforeFirstLook \cup {"cleanup"}

\* What is mounted is still to be unmounted, or was mounted since the lookup.
MountsInv ==
    /\ pc = "unmounting" => mounts \subseteq seen \/ remounted
    /\ overMounted => remounted

LoopInv ==
    /\ pc = "start" => loop = "absent"
    /\ LoopReleased

\* TypeOK, the Booleans apart from the rest.
Flags == /\ keeps \in BOOLEAN /\ had \in BOOLEAN /\ dd \in BOOLEAN
         /\ remounted \in BOOLEAN /\ overMounted \in BOOLEAN
Data ==
    /\ from \in {"image", "device"}
    /\ loop \in {"absent", "bare", "ready"} /\ (from = "device" => loop = "absent")
    /\ tries \in 0..Attempts
    /\ system \in {"old", "torn", "new"}
    /\ mounts \subseteq MountPoint /\ seen \subseteq MountPoint
    /\ pc \in Phase /\ verdict \in {"none", "ok", "failed"}
    /\ events \in 0..MaxEvents
    /\ lost \subseteq Phase /\ left \in {"none", "detach", "warning", "announce"}

UpgradeInv == TypeOK /\ LooksInv /\ MountsInv /\ LoopInv

-----------------------------------------------------------------------------
LEMMA TypeSplit == /\ TypeOK <=> Flags /\ Data
                   /\ TypeOK' <=> Flags' /\ Data'
BY DEF TypeOK, Flags, Data

LEMMA InitUpgrade == ASSUME Init PROVE UpgradeInv
<1>1. Flags
  BY Zenon DEF Init, Flags
<1>2. Data
  BY UpgradeAssumption DEF Init, Data, Phase
<1>3. LooksInv
  BY DEF Init, LooksInv, BeforeFirstLook, BetweenLooks
<1>4. MountsInv /\ LoopInv
  BY DEF Init, MountsInv, LoopInv, LoopReleased
<1>5. QED BY <1>1, <1>2, <1>3, <1>4, TypeSplit DEF UpgradeInv

LEMMA StepFlags == ASSUME Flags, [Next]_vars PROVE Flags'
<1>1. CASE Source
  BY <1>1, Zenon
     DEF Flags, Source, UseDevice, AttachImage, Probe, TimeOut, DetachAfterTimeOut,
         Announce, FindSource, target, history
<1>2. CASE Target
  BY <1>2, Zenon
     DEF Flags, Target, ReadPersistence, FindTarget, UnmountOne, BeginCopy, EndCopy,
         Flush, Recheck, target, history
<1>3. CASE Cleanup
  BY <1>3, Zenon DEF Flags, Cleanup, target, history
<1>4. CASE Meanwhile
  BY <1>4, Zenon
     DEF Flags, Meanwhile, Automount, Unmounted, LosePersistence, Partscan, DdEnds, Event,
         MeanwhileRest, target, history
<1>5. CASE UNCHANGED vars
  BY <1>5, Zenon DEF Flags, vars
<1>6. QED BY <1>1, <1>2, <1>3, <1>4, <1>5 DEF Next, Step

LEMMA MeanwhileFrame ==
    ASSUME Meanwhile
    PROVE  /\ UNCHANGED <<from, tries, seen, pc, verdict, left>>
           /\ system' = system \/ system' = "new"
           /\ loop' = loop \/ (loop = "bare" /\ loop' = "ready")
BY DEF Meanwhile, Automount, Unmounted, LosePersistence, Partscan, DdEnds, MeanwhileRest,
       target, history

LEMMA StepData == ASSUME Data, [Next]_vars PROVE Data'
<1>1. CASE Source
  <2>1. CASE Probe
    <3>1. tries' \in 0..Attempts
      BY <2>1, UpgradeAssumption DEF Data, Probe, Exhausted, OneLess
    <3>2. QED
      BY <2>1, <3>1 DEF Data, Probe, Phase, target, history
  <2>2. CASE UseDevice \/ AttachImage \/ TimeOut
    BY <2>2 DEF Data, UseDevice, AttachImage, TimeOut, Phase, target, history
  <2>3. CASE DetachAfterTimeOut
    BY <2>3 DEF Data, DetachAfterTimeOut, DetachedOnTimeOut, Raise, Phase, target, history
  <2>4. CASE Announce
    BY <2>4 DEF Data, Announce, Raise, Phase, target, history
  <2>5. CASE FindSource
    BY <2>5 DEF Data, FindSource, Raise, Phase, target, history
  <2>6. QED BY <1>1, <2>1, <2>2, <2>3, <2>4, <2>5, Zenon DEF Source
<1>2. CASE Target
  <2>1. CASE ReadPersistence
    BY <2>1 DEF Data, ReadPersistence, Raise, target, history, Phase
  <2>2. CASE FindTarget
    BY <2>2 DEF Data, FindTarget, Raise, target, history, Phase
  <2>3. CASE UnmountOne
    BY <2>3 DEF Data, UnmountOne, Raise, target, history, Phase
  <2>4. CASE BeginCopy \/ EndCopy
    BY <2>4 DEF Data, BeginCopy, EndCopy, Raise, target, history, Phase
  <2>5. CASE Flush \/ Recheck
    BY <2>5 DEF Data, Flush, Recheck, Raise, target, history, Phase
  <2>6. QED BY <1>2, <2>1, <2>2, <2>3, <2>4, <2>5, Zenon DEF Target
<1>3. CASE Cleanup
  BY <1>3 DEF Data, Cleanup, VerdictStands, target, history, Phase
<1>4. CASE Meanwhile
  <2>1. events' \in 0..MaxEvents
    BY <1>4, UpgradeAssumption
       DEF Data, Meanwhile, Automount, Unmounted, LosePersistence, Partscan, DdEnds, Event
  <2>2. mounts' \subseteq MountPoint /\ lost' \subseteq Phase
    BY <1>4
       DEF Data, Meanwhile, Automount, Unmounted, LosePersistence, Partscan, DdEnds, Phase,
           target, history
  <2>3. /\ UNCHANGED <<from, tries, seen, pc, verdict, left>>
        /\ system' = system \/ system' = "new"
        /\ loop' = loop \/ (loop = "bare" /\ loop' = "ready")
    BY <1>4, MeanwhileFrame
  <2>4. QED BY <2>1, <2>2, <2>3 DEF Data
<1>5. CASE UNCHANGED vars
  BY <1>5 DEF Data, vars
<1>6. QED BY <1>1, <1>2, <1>3, <1>4, <1>5 DEF Next, Step

LEMMA StepType == ASSUME TypeOK, [Next]_vars PROVE TypeOK'
BY TypeSplit, StepFlags, StepData

LEMMA StepLooks == ASSUME TypeOK, LooksInv, [Next]_vars PROVE LooksInv'
<1> USE DEF LooksInv, BeforeFirstLook, BetweenLooks
<1>1. CASE Source
  BY <1>1
     DEF TypeOK, Source, UseDevice, AttachImage, Probe, TimeOut, DetachAfterTimeOut,
         Announce, FindSource, Raise, target, history
<1>2. CASE ReadPersistence \/ FindTarget \/ UnmountOne \/ BeginCopy
  BY <1>2
     DEF TypeOK, ReadPersistence, FindTarget, UnmountOne, BeginCopy, Raise, target, history
<1>3. CASE EndCopy \/ Flush \/ Recheck \/ Cleanup
  BY <1>3
     DEF TypeOK, EndCopy, Flush, Recheck, Cleanup, Disappeared, VerdictStands, Raise,
         target, history
<1>4. CASE LosePersistence
  BY <1>4 DEF TypeOK, Phase, LosePersistence, Event, MeanwhileRest
<1>5. CASE Partscan \/ DdEnds \/ \E m \in MountPoint : Automount(m) \/ Unmounted(m)
  BY <1>5 DEF Automount, Unmounted, Partscan, DdEnds, Event, MeanwhileRest, target, history
<1>6. CASE UNCHANGED vars
  BY <1>6 DEF vars
<1>7. QED BY <1>1, <1>2, <1>3, <1>4, <1>5, <1>6 DEF Next, Step, Target, Meanwhile

LEMMA StepMounts == ASSUME TypeOK, MountsInv, [Next]_vars PROVE MountsInv'
<1>1. CASE Source
  BY <1>1
     DEF MountsInv, Source, UseDevice, AttachImage, Probe, TimeOut, DetachAfterTimeOut,
         Announce, FindSource, Raise, target, history
<1>2. CASE Target
  <2>1. CASE BeginCopy
    <3>1. (mounts # {} => remounted) /\ pc' # "unmounting"
      BY <2>1 DEF MountsInv, BeginCopy
    <3>2. overMounted' => remounted'
      BY <2>1, <3>1, Zenon DEF BeginCopy
    <3>3. QED BY <3>1, <3>2 DEF MountsInv
  <2>2. CASE ~BeginCopy
    BY <1>2, <2>2
       DEF MountsInv, Target, ReadPersistence, FindTarget, UnmountOne, EndCopy, Flush,
           Recheck, Raise, target, history
  <2>3. QED BY <2>1, <2>2
<1>3. CASE Cleanup
  BY <1>3 DEF MountsInv, Cleanup, target, history
<1>4. CASE Meanwhile
  <2>1. CASE \E m \in MountPoint : Automount(m)
    <3>1. UNCHANGED <<pc, overMounted>>
      BY <2>1 DEF Automount, MeanwhileRest
    <3>2. /\ remounted => remounted'
          /\ pc = "unmounting" => remounted'
      BY <2>1, Zenon DEF Automount
    <3>3. QED BY <3>1, <3>2 DEF MountsInv
  <2>2. CASE ~ \E m \in MountPoint : Automount(m)
    BY <1>4, <2>2
       DEF MountsInv, Meanwhile, Unmounted, LosePersistence, Partscan, DdEnds,
           MeanwhileRest, target, history
  <2>3. QED BY <2>1, <2>2
<1>5. CASE UNCHANGED vars
  BY <1>5 DEF MountsInv, vars
<1>6. QED BY <1>1, <1>2, <1>3, <1>4, <1>5 DEF Next, Step

LEMMA StepLoop == ASSUME Data, LoopInv, [Next]_vars PROVE LoopInv'
<1> USE DEF LoopInv, LoopReleased
<1>1. CASE Source
  BY <1>1
     DEF Data, Source, UseDevice, AttachImage, Probe, TimeOut, DetachAfterTimeOut,
         Announce, FindSource, DetachedOnTimeOut, Raise, target, history
<1>2. CASE Target
  <2>1. UNCHANGED <<from, loop, left>> /\ pc # "start" /\ pc' # "start"
    BY <1>2
       DEF Target, ReadPersistence, FindTarget, UnmountOne, BeginCopy, EndCopy, Flush,
           Recheck, Raise, target, history
  <2>2. pc' = "done" => from = "device"
    BY <1>2
       DEF Data, Target, ReadPersistence, FindTarget, UnmountOne, BeginCopy, EndCopy,
           Flush, Recheck, Raise
  <2>3. QED BY <2>1, <2>2 DEF Data
<1>3. CASE Cleanup
  BY <1>3 DEF Data, Cleanup, target, history
<1>4. CASE Meanwhile
  BY <1>4, MeanwhileFrame
<1>5. CASE UNCHANGED vars
  BY <1>5 DEF vars
<1>6. QED BY <1>1, <1>2, <1>3, <1>4, <1>5 DEF Next, Step

LEMMA StepUpgrade == ASSUME UpgradeInv, [Next]_vars PROVE UpgradeInv'
BY TypeSplit, StepType, StepLooks, StepMounts, StepLoop DEF UpgradeInv

(* The inductive invariant that the safety properties follow from.         *)
THEOREM UpgradeInvariant == Spec => []UpgradeInv
<1>1. UpgradeInv /\ [Next]_vars => UpgradeInv'
  BY StepUpgrade
<1>2. QED BY <1>1, InitUpgrade, PTL DEF Spec

-----------------------------------------------------------------------------
(* Every variable of an upgrade has its type (upgrader.py).                *)
THEOREM UpgradeTypeCorrect == Spec => []TypeOK
<1>1. UpgradeInv => TypeOK
  BY DEF UpgradeInv
<1>2. QED BY <1>1, UpgradeInvariant, PTL

(* An upgrade that succeeds has copied the whole system, and Persistent    *)
(* Storage did not go away between the two looks at it.                    *)
THEOREM UpgradeSuccessIsWhole == Spec => []SuccessIsWhole
<1>1. UpgradeInv => SuccessIsWhole
  BY DEF UpgradeInv, LooksInv, SuccessIsWhole
<1>2. QED BY <1>1, UpgradeInvariant, PTL

(* A partition is overwritten while mounted only if somebody mounted it    *)
(* after the lookup of its mount points.                                   *)
THEOREM UpgradeCopyUnmounted == Spec => []CopyUnmounted
<1>1. UpgradeInv => CopyUnmounted
  BY DEF UpgradeInv, MountsInv, CopyUnmounted
<1>2. QED BY <1>1, UpgradeInvariant, PTL

(* Every path releases the loop device, but for a detach that fails and a  *)
(* callback that raises before the try block.                              *)
THEOREM UpgradeLoopReleased == Spec => []LoopReleased
<1>1. UpgradeInv => LoopReleased
  BY DEF UpgradeInv, LoopInv
<1>2. QED BY <1>1, UpgradeInvariant, PTL

(* A cleanup changes the result only when its warning cannot be relayed.   *)
THEOREM UpgradeCleanupNeverDecides == Spec => CleanupNeverDecides
<1>1. ASSUME [Next]_vars, pc = "cleanup", verdict' # verdict
      PROVE  left' = "warning"
  BY <1>1
     DEF Next, Step, Source, Target, Meanwhile, UseDevice, AttachImage, Probe, TimeOut,
         DetachAfterTimeOut, Announce, FindSource, ReadPersistence, FindTarget,
         UnmountOne, BeginCopy, EndCopy, Flush, Recheck, Cleanup, VerdictStands,
         Automount, Unmounted, LosePersistence, Partscan, DdEnds, MeanwhileRest, vars
<1>2. [Next]_vars => [pc = "cleanup" /\ verdict' # verdict => left' = "warning"]_vars
  BY <1>1
<1>3. QED BY <1>2, PTL DEF Spec, CleanupNeverDecides

-----------------------------------------------------------------------------
(***************************************************************************)
(* The upgrade as a write service.                                         *)
(***************************************************************************)

BeforeCopy == {"start", "probing", "timed-out", "announcing", "source", "persistence",
               "target", "unmounting"}

\* What dd has written at each step; and what waits for a cleanup is decided.
CopyInv ==
    /\ pc \in BeforeCopy => system = "old" /\ ~dd
    /\ dd => system = "torn"
    /\ pc \in {"timed-out", "cleanup", "done"} => verdict # "none"

\* The steps of the operation that leave dd alone.
Around == Source \/ Cleanup \/ (Target /\ ~BeginCopy)
\* The others but dd.
Beside == (Meanwhile /\ ~DdEnds) \/ UNCHANGED vars

LEMMA StepsOf ==
    [Next]_vars => Around \/ BeginCopy \/ DdEnds \/ Beside
BY DEF Next, Step, Around, Beside

LEMMA AroundFrame ==
    ASSUME Data, CopyInv, Around
    PROVE  /\ UNCHANGED <<system, dd, overMounted, remounted>> /\ pc # "done"
           /\ pc' \in BeforeCopy => pc \in BeforeCopy
           /\ pc' \in {"timed-out", "cleanup", "done"} => verdict' # "none"
<1>1. CASE Source
  BY <1>1 DEF Data, CopyInv, BeforeCopy, Source, UseDevice, AttachImage, Probe, TimeOut,
              DetachAfterTimeOut, Announce, FindSource, Raise, target, history
<1>2. CASE ReadPersistence \/ FindTarget \/ UnmountOne
  BY <1>2 DEF BeforeCopy, ReadPersistence, FindTarget, UnmountOne, Raise, target, history
<1>3. CASE EndCopy \/ Flush \/ Recheck
  BY <1>3 DEF BeforeCopy, EndCopy, Flush, Recheck, Raise, target, history
<1>4. CASE Cleanup
  BY <1>4 DEF Data, CopyInv, BeforeCopy, Cleanup, VerdictStands, target, history
<1> QED  BY <1>1, <1>2, <1>3, <1>4 DEF Around, Target

LEMMA BesideFrame ==
    ASSUME Beside
    PROVE  UNCHANGED <<pc, verdict, system, dd, overMounted>>
BY DEF Beside, Meanwhile, Automount, Unmounted, LosePersistence, Partscan, MeanwhileRest,
       Event, target, history, vars

LEMMA StepCopy == ASSUME Data, CopyInv, [Next]_vars PROVE CopyInv'
<1>1. CASE Around
  BY <1>1, AroundFrame DEF CopyInv
<1>2. CASE BeginCopy
  BY <1>2 DEF CopyInv, BeginCopy, BeforeCopy
<1>3. CASE DdEnds
  BY <1>3 DEF CopyInv, DdEnds
<1>4. CASE Beside
  BY <1>4, BesideFrame DEF CopyInv
<1> QED  BY <1>1, <1>2, <1>3, <1>4, StepsOf

ServiceInv == UpgradeInv /\ CopyInv

LEMMA ServiceAlways == Spec => []ServiceInv
<1>1. Init => CopyInv
  BY DEF Init, CopyInv, BeforeCopy
<1>2. ServiceInv /\ [Next]_vars => ServiceInv'
  BY StepUpgrade, StepCopy, TypeSplit DEF ServiceInv, UpgradeInv
<1> QED  BY <1>1, <1>2, InitUpgrade, PTL DEF Spec, ServiceInv

Medium == CASE system = "old" -> "untouched" [] system = "torn" -> "part"
            [] system = "new" -> "whole"
Outcome == IF pc = "done" THEN verdict ELSE "none"
Mounted == IF overMounted THEN {"partition"} ELSE {}
Excused == IF remounted THEN {"partition"} ELSE {}

\* A step is the start of dd, its end, a report, or none of the promise's.
LEMMA ServiceStep ==
    ASSUME ServiceInv, ServiceInv', [Next]_vars
    PROVE  Promised!Next
<1>0. Excused' \in SUBSET {"partition"}
  BY DEF Excused
<1>1. CASE Around
  <2>1. UNCHANGED <<Medium, dd, Mounted>> /\ pc # "done" /\ Outcome = "none"
    <3>1. UNCHANGED <<system, dd, overMounted>> /\ pc # "done"
      BY <1>1, AroundFrame, TypeSplit DEF ServiceInv, UpgradeInv
    <3> QED  BY <3>1 DEF Medium, Mounted, Outcome
  <2>2. CASE pc' = "done"
    <3>1. verdict' \in {"ok", "failed"} /\ Outcome' = verdict'
      BY <2>2, TypeSplit DEF ServiceInv, UpgradeInv, CopyInv, Data, Outcome
    <3>2. verdict' = "ok" => Medium = "whole" /\ ~dd
      <4>1. verdict' = "ok" => system' = "new" /\ ~dd'
        BY DEF ServiceInv, UpgradeInv, LooksInv
      <4> QED  BY <2>1, <4>1 DEF Medium
    <3> QED  BY <1>0, <2>1, <3>1, <3>2
             DEF Promised!Next, Promised!Report, Medium, Mounted, Outcome, Excused
  <2>3. CASE pc' # "done"
    <3>1. Outcome' = "none"
      BY <2>3 DEF Outcome
    <3> QED  BY <1>0, <2>1, <3>1
             DEF Promised!Next, Promised!Rest, Medium, Mounted, Outcome, Excused
  <2> QED  BY <2>2, <2>3
<1>2. CASE BeginCopy
  <2>1. /\ pc = "unmounting" /\ pc' = "copying" /\ system' = "torn" /\ seen = {}
        /\ dd' = TRUE /\ overMounted' = (mounts # {}) /\ UNCHANGED remounted
    BY <1>2 DEF BeginCopy
  <2>2. system = "old" /\ (mounts # {} => remounted)
    BY <2>1 DEF ServiceInv, UpgradeInv, MountsInv, CopyInv, BeforeCopy
  <2>3. Medium = "untouched" /\ Medium' = "part" /\ Outcome = "none" /\ Outcome' = "none"
    BY <2>1, <2>2 DEF Medium, Outcome
  <2>4. Mounted' \in SUBSET Excused
    BY <2>1, <2>2 DEF Mounted, Excused
  <2> QED  BY <1>0, <2>1, <2>3, <2>4
           DEF Promised!Next, Promised!Open, Medium, Mounted, Outcome, Excused
<1>3. CASE DdEnds
  <2>1. /\ dd /\ dd' = FALSE /\ UNCHANGED <<pc, verdict, overMounted>>
        /\ system' \in {system, "new"}
    BY <1>3 DEF DdEnds, history
  <2>2. system = "torn"
    BY <2>1 DEF ServiceInv, CopyInv
  <2>3. Medium' \in {"part", "whole"} /\ UNCHANGED <<Outcome, Mounted>>
    BY <2>1, <2>2 DEF Medium, Outcome, Mounted
  <2> QED  BY <1>0, <2>1, <2>3
           DEF Promised!Next, Promised!Finish, Medium, Mounted, Outcome, Excused
<1>4. CASE Beside
  <2>1. UNCHANGED <<Medium, dd, Outcome, Mounted>>
    <3>1. UNCHANGED <<pc, verdict, system, dd, overMounted>>
      BY <1>4, BesideFrame
    <3> QED  BY <3>1 DEF Medium, Outcome, Mounted
  <2> QED  BY <1>0, <2>1
           DEF Promised!Next, Promised!Rest, Medium, Mounted, Outcome, Excused
<1> QED  BY <1>1, <1>2, <1>3, <1>4, StepsOf

(* upgrade_tails_system_partition is a write service as the controller     *)
(* expects it: it starts dd once, on a partition that is mounted only if   *)
(* that was done after the lookup, and reports once, after its cleanup,    *)
(* and success only of a whole copy.                                       *)
THEOREM UpgradeIsWriteService == Spec => WritesAsPromised
<1>1. Init => Promised!Init
  <2>1. Init => /\ Medium = "untouched" /\ dd = FALSE
                /\ Outcome = "none" /\ Mounted = {}
                /\ Excused \in SUBSET {"partition"}
    BY DEF Init, Medium, Outcome, Mounted, Excused
  <2> QED  BY <2>1 DEF Promised!Init, Medium, Outcome, Mounted, Excused
<1>2. ServiceInv /\ ServiceInv' /\ [Next]_vars
      => [Promised!Next]_<<Medium, dd, Outcome, Mounted, Excused>>
  BY ServiceStep
<1> QED  BY <1>1, <1>2, ServiceAlways, PTL
         DEF Spec, WritesAsPromised, Promised!Spec, Medium, Outcome, Mounted, Excused

-----------------------------------------------------------------------------
(***************************************************************************)
(* The operation is bounded: what it has still to do, as a number.         *)
(***************************************************************************)

Places == Cardinality(MountPoint)

StepsLeft ==
    CASE pc = "start" -> 11 + Places + Attempts
      [] pc = "probing" -> 10 + Places + tries
      [] pc = "announcing" -> 9 + Places
      [] pc = "source" -> 8 + Places
      [] pc = "persistence" -> 7 + Places
      [] pc = "target" -> 6 + Places
      [] pc = "unmounting" -> 5 + Cardinality(seen)
      [] pc = "copying" -> 4
      [] pc = "flushing" -> 3
      [] pc = "recheck" -> 2
      [] pc \in {"cleanup", "timed-out"} -> 1
      [] pc = "done" -> 0

\* Each step of the operation is one less to take; nobody else adds any.
StepsCount ==
    [][/\ Step => StepsLeft' < StepsLeft
       /\ ~Step => StepsLeft' = StepsLeft]_vars

LEMMA Sizes ==
    ASSUME Data
    PROVE  /\ IsFiniteSet(seen) /\ Places \in Nat /\ Cardinality(seen) \in 0..Places
           /\ Attempts \in Nat /\ tries \in 0..Attempts
<1>1. IsFiniteSet(MountPoint) /\ Attempts \in Nat
  BY UpgradeAssumption
<1>2. seen \in SUBSET MountPoint /\ tries \in 0..Attempts
  BY DEF Data
<1>3. IsFiniteSet(seen) /\ Cardinality(seen) <= Cardinality(MountPoint)
  BY <1>1, <1>2, FS_Subset
<1>4. Cardinality(seen) \in Nat /\ Cardinality(MountPoint) \in Nat
  BY <1>1, <1>3, FS_CardinalityType
<1> QED  BY <1>1, <1>2, <1>3, <1>4 DEF Places

LEMMA StepsLeftNat == ASSUME Data PROVE StepsLeft \in 0..(11 + Places + Attempts)
<1>1. pc \in Phase
  BY DEF Data
<1>2. /\ Places \in Nat /\ Cardinality(seen) \in 0..Places
      /\ Attempts \in Nat /\ tries \in 0..Attempts
  BY Sizes
<1>3. /\ pc = "start" => StepsLeft = 11 + Places + Attempts
      /\ pc = "probing" => StepsLeft = 10 + Places + tries
      /\ pc = "announcing" => StepsLeft = 9 + Places
      /\ pc = "source" => StepsLeft = 8 + Places
      /\ pc = "persistence" => StepsLeft = 7 + Places
      /\ pc = "target" => StepsLeft = 6 + Places
      /\ pc = "unmounting" => StepsLeft = 5 + Cardinality(seen)
      /\ pc \in {"copying", "flushing", "recheck", "cleanup", "timed-out", "done"}
         => StepsLeft \in 0..4
  BY DEF StepsLeft
<1> QED  BY <1>1, <1>2, <1>3 DEF Phase

LEMMA StepTaken == ASSUME Data, Data', Step PROVE StepsLeft' < StepsLeft
<1>1. /\ Places \in Nat /\ Cardinality(seen) \in 0..Places /\ Attempts \in Nat
      /\ tries \in 0..Attempts /\ Places' = Places
  BY Sizes DEF Places
<1>2. Cardinality(seen') \in 0..Places
  <2>1. seen' \in SUBSET MountPoint /\ IsFiniteSet(MountPoint)
    BY UpgradeAssumption DEF Data
  <2>2. IsFiniteSet(seen') /\ Cardinality(seen') <= Cardinality(MountPoint)
    BY <2>1, FS_Subset
  <2> QED  BY <2>1, <2>2, FS_CardinalityType DEF Places
<1>3. CASE Probe
  <2>1. /\ pc = "probing" /\ tries # 0
        /\ pc' = "announcing" \/ (pc' = "probing" /\ tries' = tries - 1)
    BY <1>3 DEF Probe, Exhausted, OneLess
  <2> QED  BY <1>1, <2>1 DEF StepsLeft
<1>4. CASE UnmountOne
  <2>1. pc = "unmounting" /\ seen # {}
    BY <1>4 DEF UnmountOne
  <2>2. CASE pc' \in {"cleanup", "done"}
    BY <1>1, <2>1, <2>2 DEF StepsLeft
  <2>3. CASE pc' \notin {"cleanup", "done"}
    <3>1. PICK m \in seen : seen' = seen \ {m} /\ pc' = pc
      BY <1>4, <2>3 DEF UnmountOne, Raise
    <3>2. Cardinality(seen') = Cardinality(seen) - 1
      BY <3>1, Sizes, FS_RemoveElement
    <3> QED  BY <1>1, <1>2, <2>1, <3>1, <3>2 DEF StepsLeft
  <2> QED  BY <2>2, <2>3
<1>5. CASE UseDevice \/ AttachImage \/ TimeOut \/ DetachAfterTimeOut
  BY <1>1, <1>5 DEF UseDevice, AttachImage, TimeOut, Exhausted, DetachAfterTimeOut, StepsLeft
<1>6. CASE Announce \/ FindSource \/ ReadPersistence
  BY <1>1, <1>6 DEF Announce, FindSource, ReadPersistence, Raise, StepsLeft
<1>7. CASE FindTarget \/ BeginCopy
  BY <1>1, <1>2, <1>7 DEF FindTarget, BeginCopy, Raise, StepsLeft
<1>8. CASE EndCopy \/ Flush \/ Recheck \/ Cleanup
  BY <1>8 DEF EndCopy, Flush, Recheck, Cleanup, Raise, StepsLeft
<1> QED  BY <1>3, <1>4, <1>5, <1>6, <1>7, <1>8 DEF Step, Source, Target

(* The upgrade takes at most as many steps as the partitions of the loop   *)
(* device are probed and the target is mounted, and eleven more, whatever  *)
(* the kernel, the desktop and the operator do meanwhile: what Ends adds   *)
(* to it is only that a next step is taken.                                *)
THEOREM UpgradeIsBounded ==
    Spec => StepsCount /\ [](StepsLeft \in 0..(11 + Places + Attempts))
<1>1. Data /\ Data' /\ [Next]_vars
      => [/\ Step => StepsLeft' < StepsLeft
          /\ ~Step => StepsLeft' = StepsLeft]_vars
  <2> SUFFICES ASSUME Data, Data', Next, ~Step PROVE StepsLeft' = StepsLeft
    BY StepTaken
  <2>1. UNCHANGED <<pc, tries, seen>>
    BY MeanwhileFrame DEF Next
  <2> QED  BY <2>1 DEF StepsLeft, Places
<1>2. UpgradeInv => Data
  BY TypeSplit DEF UpgradeInv
<1>3. Data => StepsLeft \in 0..(11 + Places + Attempts)
  BY StepsLeftNat
<1> QED  BY <1>1, <1>2, <1>3, UpgradeInvariant, PTL DEF Spec, StepsCount
=============================================================================
