------------------------ MODULE WriteBoundaryProofs ------------------------
(***************************************************************************)
(* What WriteBoundary guarantees for every set of nodes, drives and        *)
(* background scans, and for any number of hot-swaps.  Both front ends     *)
(* share the controller's steps, so each step is treated once, as a step   *)
(* of GuiNext \/ CliNext.                                                  *)
(***************************************************************************)
EXTENDS WriteBoundary, TLAPS

Next == GuiNext \/ CliNext

Background == SyncDevices \/ \E r \in Refresher : RefreshStep(r)
Choices == GuiChoices \/ CliChoices
FrontEnd == \/ \E k \in Kind, n \in Node : AskPlan(k, n)
            \/ ShowDialog \/ NoDialog \/ Confirm \/ Decline
            \/ \E k \in Kind, p \in Path : CliScan(k, p)
            \/ CliDiscover \/ CliAcknowledge \/ CliRefuse
Finish == GuiFinish \/ CliExit

LEMMA NextSplit ==
    ASSUME [Next]_vars
    PROVE  \/ Hardware \/ Background \/ Choices \/ FrontEnd \/ Controller
           \/ Services \/ Finish \/ UNCHANGED vars
BY DEF Next, GuiNext, CliNext, Background, Choices, FrontEnd, Finish

-----------------------------------------------------------------------------
(* The list operators stay within the type of a device list.               *)

LEMMA StableOfType ==
    ASSUME TypeOK, NEW n \in Node
    PROVE  StableOf(n) \in HasById \cup {None}
BY DEF StableOf

LEMMA SnapshotType == ASSUME TypeOK PROVE Snapshot \in SUBSET Device
<1>1. ASSUME NEW n \in Node, plugged[n] # None
      PROVE  [node |-> n, drive |-> plugged[n], stable |-> None,
              flagged |-> FALSE] \in Device
  <2>1. plugged[n] \in Drive
    BY <1>1 DEF TypeOK
  <2>2. QED BY <2>1 DEF Device
<1>2. QED BY <1>1 DEF Snapshot

LEMMA WithStablePathsType ==
    ASSUME TypeOK, NEW l \in SUBSET Device
    PROVE  WithStablePaths(l) \in SUBSET Device
BY StableOfType DEF WithStablePaths, Device

LEMMA AnnotatedType ==
    ASSUME NEW l \in SUBSET Device
    PROVE  Annotated(l) \in SUBSET Device
<1>1. ASSUME NEW d \in l
      PROVE  [d EXCEPT !.flagged = IsLiveSource(d.node)] \in Device
  <2>1. IsLiveSource(d.node) \in BOOLEAN
    BY DEF IsLiveSource
  <2>2. d \in Device
    OBVIOUS
  <2>3. QED BY <2>1, <2>2 DEF Device
<1>2. QED BY <1>1 DEF Annotated

LEMMA CurrentListType == ASSUME TypeOK PROVE CurrentList \in SUBSET Device
BY SnapshotType, WithStablePathsType DEF CurrentList, TypeOK

LEMMA IdentityType ==
    ASSUME NEW d \in Device PROVE Identity(d) \in Identities
BY DEF Identities

LEMMA SourceIdentityType ==
    ASSUME NEW l \in SUBSET Device PROVE SourceIdentity(l) \in Identities
<1>1. CASE SourcePath = None \/ Found(l, SourcePath) = {}
  BY <1>1 DEF SourceIdentity, Identities
<1>2. CASE ~(SourcePath = None \/ Found(l, SourcePath) = {})
  <2>1. (CHOOSE s \in Found(l, SourcePath) : TRUE) \in Device
    BY <1>2 DEF Found
  <2>2. QED BY <1>2, <2>1, IdentityType DEF SourceIdentity
<1>3. QED BY <1>1, <1>2

LEMMA WritePathType ==
    ASSUME NEW d \in Device PROVE WritePath(d) \in Path
BY DEF WritePath, Device, Path
-----------------------------------------------------------------------------
(* Type correctness, for the steps of either front end.                    *)

LEMMA InitType == Init => TypeOK
<1> SUFFICES ASSUME Init PROVE TypeOK
  OBVIOUS
<1>1. running \in PathOrNone
  BY DEF Init, PathOrNone, Path
<1>2. mode \in Mode
  BY DEF Init, Mode
<1>3. refresh \in [Refresher -> [at: {"idle", "queued", "listed", "resolved",
                                      "assigned"}, list: SUBSET Device]]
  BY DEF Init
<1>4. swaps \in 0..MaxSwaps
  BY EnvironmentAssumption DEF Init
<1>5. QED
  BY <1>1, <1>2, <1>3, <1>4
  DEF Init, TypeOK, PathOrNone, Phase, ServicePhase, Kind, Identities, Result

LEMMA HardwareType == ASSUME TypeOK, Hardware PROVE TypeOK'
<1>1. PICK n \in Node, d \in Drive \cup {None} : Swap(n, d)
  BY DEF Hardware, Unplug, Plug
<1>2. plugged' \in [Node -> Drive \cup {None}]
  BY <1>1 DEF Swap, TypeOK
<1>3. swaps' \in 0..MaxSwaps
  BY <1>1, EnvironmentAssumption DEF Swap, TypeOK
<1>4. touched' \subseteq Phase
  BY <1>1 DEF Swap, TypeOK
<1>5. moved' \in BOOLEAN
  BY <1>1 DEF Swap, TypeOK
<1>6. QED
  BY <1>1, <1>2, <1>3, <1>4, <1>5 DEF Swap, TypeOK, choice, request, services

LEMMA BackgroundType == ASSUME TypeOK, Background PROVE TypeOK'
<1> USE DEF RefreshRest, hardware, choice, request, services
<1>0. CASE SyncDevices
  BY <1>0, AnnotatedType DEF SyncDevices, TypeOK
<1> SUFFICES ASSUME NEW r \in Refresher, RefreshStep(r) PROVE TypeOK'
  BY <1>0 DEF Background
<1>1. CASE RefreshSubmit(r)
  BY <1>1 DEF RefreshSubmit, TypeOK
<1>2. CASE RefreshList(r)
  BY <1>2, SnapshotType DEF RefreshList, TypeOK
<1>3. CASE RefreshResolve(r)
  <2>1. refresh[r].list \in SUBSET Device
    BY DEF TypeOK
  <2>2. WithStablePaths(refresh[r].list) \in SUBSET Device
    BY <2>1, WithStablePathsType
  <2>3. QED BY <1>3, <2>2 DEF RefreshResolve, TypeOK
<1>4. CASE RefreshAssign(r)
  BY <1>4 DEF RefreshAssign, TypeOK
<1>5. CASE RefreshAnnotate(r)
  BY <1>5, AnnotatedType DEF RefreshAnnotate, TypeOK
<1>6. QED BY <1>1, <1>2, <1>3, <1>4, <1>5 DEF RefreshStep

LEMMA ChoicesType == ASSUME TypeOK, Choices PROVE TypeOK'
<1> USE DEF ChoiceRest, hardware, request, services
<1>1. ASSUME NEW m \in Mode, SetSourceMode(m) PROVE TypeOK'
  BY <1>1 DEF SetSourceMode, TypeOK
<1>2. ASSUME NEW p \in SourcePaths, SetAttachedLiveSource(p) PROVE TypeOK'
  <2>1. p \in Path
    BY EnvironmentAssumption
  <2>2. validated' \in Drive \cup {None}
    BY <1>2 DEF SetAttachedLiveSource, TypeOK
  <2>3. attached' \in PathOrNone /\ mode' \in Mode /\ moved' \in BOOLEAN
    BY <1>2, <2>1 DEF SetAttachedLiveSource, PathOrNone, Mode
  <2>4. UNCHANGED running /\ ChoiceRest
    BY <1>2, Zenon DEF SetAttachedLiveSource
  <2>5. QED BY <2>2, <2>3, <2>4, Zenon DEF TypeOK
<1>3. QED BY <1>1, <1>2 DEF Choices, GuiChoices, CliChoices, Mode

(* Every refusal and every failure ends the operation the same way.        *)
LEMMA RefuseType ==
    ASSUME TypeOK, NEW from, NEW why \in Result, Refuse(from, why),
           UNCHANGED devices
    PROVE  TypeOK'
BY DEF Refuse, Go, OperationRest, hardware, choice, request, TypeOK,
       Phase, ServicePhase, PathOrNone

LEMMA FrontEndType == ASSUME TypeOK, FrontEnd PROVE TypeOK'
<1> USE DEF OperationRest, Go, hardware, choice, request, services
<1>1. ASSUME NEW k \in Kind, NEW n \in Node, AskPlan(k, n) PROVE TypeOK'
  <2>1. devices' \in SUBSET Device
    BY <1>1, CurrentListType, AnnotatedType DEF AskPlan
  <2>2. path' \in PathOrNone
    BY <1>1 DEF AskPlan, PathOrNone, Path
  <2>3. QED BY <1>1, <2>1, <2>2 DEF AskPlan, TypeOK, Phase, ServicePhase
<1>2. CASE ShowDialog
  <2>1. acked' \in Identities
    <3>1. PICK d \in Found(devices, path) : acked' = Identity(d)
      BY <1>2 DEF ShowDialog
    <3>2. d \in Device
      BY DEF Found, TypeOK
    <3>3. QED BY <3>1, <3>2, IdentityType
  <2>2. QED BY <1>2, <2>1 DEF ShowDialog, TypeOK, Phase, ServicePhase
<1>3. CASE NoDialog
  BY <1>3 DEF NoDialog, TypeOK, Phase, ServicePhase, PathOrNone, Kind
<1>4. CASE Confirm
  BY <1>4 DEF Confirm, TypeOK, Phase, ServicePhase
<1>5. CASE Decline
  BY <1>5 DEF Decline, TypeOK, Phase, ServicePhase, PathOrNone, Kind, Identities
<1>6. ASSUME NEW k \in Kind, NEW p \in Path, CliScan(k, p) PROVE TypeOK'
  BY <1>6, SnapshotType DEF CliScan, TypeOK, Phase, ServicePhase, PathOrNone
<1>7. CASE CliDiscover
  <2>1. devices' \in SUBSET Device
    BY <1>7, WithStablePathsType, AnnotatedType DEF CliDiscover, TypeOK
  <2>2. QED BY <1>7, <2>1 DEF CliDiscover, TypeOK, Phase, ServicePhase
<1>8. CASE CliAcknowledge
  <2>1. acked' \in Identities
    <3>1. PICK d \in Found(devices, path) : acked' = Identity(d)
      BY <1>8 DEF CliAcknowledge
    <3>2. d \in Device
      BY DEF Found, TypeOK
    <3>3. QED BY <3>1, <3>2, IdentityType
  <2>2. QED BY <1>8, <2>1 DEF CliAcknowledge, TypeOK, Phase, ServicePhase
<1>9. CASE CliRefuse
  BY <1>9, RefuseType DEF CliRefuse, Result
<1>10. QED
  BY <1>1, <1>2, <1>3, <1>4, <1>5, <1>6, <1>7, <1>8, <1>9
     DEF FrontEnd

LEMMA ControllerType == ASSUME TypeOK, Controller PROVE TypeOK'
<1> USE DEF OperationRest, Go, hardware, choice, request, services
<1>1. CASE Rehash
  <2>1. CASE Refuse("submitted", "integrity") /\ UNCHANGED devices
    BY <2>1, RefuseType DEF Result
  <2>2. CASE /\ Go("submitted", "verified")
             /\ UNCHANGED <<list, initial, target, services, result, devices>>
    BY <2>2 DEF TypeOK, Phase, ServicePhase
  <2>3. QED BY <1>1, <2>1, <2>2, Zenon DEF Rehash
<1>2. CASE PlanAnnotate
  <2>1. devices' \in SUBSET Device
    BY <1>2, CurrentListType, AnnotatedType DEF PlanAnnotate
  <2>2. QED BY <1>2, <2>1 DEF PlanAnnotate, TypeOK, Phase, ServicePhase
<1>3. CASE PlanInitial
  <2>1. PICK d \in Found(devices, path) :
           initial' = [target |-> Identity(d), source |-> SourceIdentity(devices)]
    BY <1>3 DEF PlanInitial
  <2>2. Identity(d) \in Identities /\ SourceIdentity(devices) \in Identities
    BY IdentityType, SourceIdentityType DEF Found, TypeOK
  <2>3. initial' \in [target: Identities, source: Identities] \cup {None}
    BY <2>1, <2>2
  <2>4. QED BY <1>3, <2>3 DEF PlanInitial, TypeOK, Phase, ServicePhase
<1>4. CASE PlanRefused
  BY <1>4, RefuseType DEF PlanRefused, Result
<1>5. CASE FreshList
  <2>1. CASE Refuse("planned", "rescan") /\ UNCHANGED devices
    BY <2>1, RefuseType DEF Result
  <2>2. CASE /\ Go("planned", "listed") /\ list' = Snapshot
             /\ UNCHANGED <<initial, target, services, result, devices>>
    BY <2>2, SnapshotType DEF TypeOK, Phase, ServicePhase
  <2>3. QED BY <1>5, <2>1, <2>2, Zenon DEF FreshList
<1>6. CASE FreshResolve
  BY <1>6, WithStablePathsType DEF FreshResolve, TypeOK, Phase, ServicePhase
<1>7. CASE FreshAssign
  BY <1>7 DEF FreshAssign, TypeOK, Phase, ServicePhase
<1>8. CASE FreshAnnotate
  BY <1>8, AnnotatedType DEF FreshAnnotate, TypeOK, Phase, ServicePhase
<1>9. CASE Revalidate
  <2>1. target' \in Device
    BY <1>9 DEF Revalidate, Found, TypeOK
  <2>2. source' \in PathOrNone
    <3>1. CASE SourcePath = None
      BY <1>9, <3>1 DEF Revalidate, PathOrNone
    <3>2. CASE SourcePath # None
      <4>1. PICK s \in Found(devices, SourcePath) : source' = WritePath(s)
        BY <1>9, <3>2 DEF Revalidate
      <4>2. s \in Device
        BY DEF Found, TypeOK
      <4>3. QED BY <4>1, <4>2, WritePathType DEF PathOrNone
    <3>3. QED BY <3>1, <3>2
  <2>3. QED BY <1>9, <2>1, <2>2 DEF Revalidate, TypeOK, Phase, ServicePhase
<1>10. CASE RevalidateRefused
  BY <1>10, RefuseType DEF RevalidateRefused, Result
<1>11. QED
  BY <1>1, <1>2, <1>3, <1>4, <1>5, <1>6, <1>7, <1>8, <1>9, <1>10 DEF Controller

LEMMA ServicesType == ASSUME TypeOK, Services PROVE TypeOK'
<1> USE DEF OperationRest, Go, hardware, choice, request, services
<1>1. CASE PrepareTarget
  BY <1>1 DEF PrepareTarget, TypeOK, Phase, ServicePhase
<1>2. CASE WriteDisk
  <2>1. written' \in Drive
    BY <1>2 DEF WriteDisk, Denotes, TypeOK
  <2>2. QED BY <1>2, <2>1 DEF WriteDisk, TypeOK, Phase, ServicePhase, Result
<1>3. CASE CompareDevices
  BY <1>3 DEF CompareDevices, TypeOK, Phase, ServicePhase
<1>4. CASE AttachImage
  BY <1>4 DEF AttachImage, TypeOK, Phase, ServicePhase
<1>5. CASE FindSourcePartition
  BY <1>5 DEF FindSourcePartition, Denotes, TypeOK, Phase, ServicePhase
<1>6. CASE FindTargetPartition
  BY <1>6 DEF FindTargetPartition, Denotes, TypeOK, Phase, ServicePhase
<1>7. CASE CopyPartition
  <2>1. written' \in Drive \cup {None} /\ readFrom' \in Drive \cup {None}
    <3>1. plugged[node] \in Drive \cup {None}
      BY <1>7 DEF CopyPartition, TypeOK
    <3>2. snode # None => plugged[snode] \in Drive \cup {None}
      BY DEF TypeOK
    <3>3. QED BY <1>7, <3>1, <3>2 DEF CopyPartition
  <2>2. QED BY <1>7, <2>1 DEF CopyPartition, TypeOK, Phase, ServicePhase, Result
<1>8. ASSUME NEW from, ServiceFails(from) PROVE TypeOK'
  BY <1>8, RefuseType DEF ServiceFails, Result
<1>9. QED
  BY <1>1, <1>2, <1>3, <1>4, <1>5, <1>6, <1>7, <1>8 DEF Services

LEMMA FinishType == ASSUME TypeOK, Finish PROVE TypeOK'
BY DEF Finish, GuiFinish, CliExit, Clear, hardware, choice, TypeOK, Phase, ServicePhase, Kind, Mode,
       PathOrNone, Identities, Result

LEMMA StepType == ASSUME TypeOK, [Next]_vars PROVE TypeOK'
<1>1. CASE UNCHANGED vars
  BY <1>1 DEF vars, TypeOK
<1>2. QED
  BY <1>1, NextSplit, HardwareType, BackgroundType, ChoicesType, FrontEndType,
     ControllerType, ServicesType, FinishType

(* Type correctness of both programs, for any hardware.                    *)
THEOREM CliTypeCorrect == CliSpec => []TypeOK
<1>1. TypeOK /\ [CliNext]_vars => TypeOK'
  BY StepType DEF Next
<1>2. QED BY <1>1, InitType, PTL DEF CliSpec

THEOREM GuiTypeCorrect == GuiSpec => []TypeOK
<1>1. TypeOK /\ [GuiNext]_vars => TypeOK'
  BY StepType DEF Next
<1>2. QED BY <1>1, InitType, PTL DEF GuiSpec

-----------------------------------------------------------------------------
(***************************************************************************)
(* Two things no interleaving, stale list or hot-swap can bring about: a   *)
(* live upgrade that writes the drive it reads, and a write to a drive the *)
(* running system uses that was already in place when creator.py or        *)
(* upgrader.py made its own check.                                         *)
(***************************************************************************)

(* What the groups of steps leave alone.                                   *)

LEMMA HardwareFrame ==
    ASSUME Hardware
    PROVE  /\ UNCHANGED <<devices, refresh, pc, kind, path, list, initial, target,
                          source, snode, node, result, acked, written, readFrom,
                          raced, mode, running, attached>>
           /\ touched' = IF pc \in Watched THEN touched \cup {pc} ELSE touched
BY DEF Hardware, Unplug, Plug, Swap, choice, request, services

LEMMA BackgroundFrame ==
    ASSUME Background
    PROVE  UNCHANGED <<plugged, pc, kind, path, list, initial, target, source,
                       snode, node, result, acked, written, readFrom, touched,
                       mode, running, attached>>
BY DEF Background, SyncDevices, RefreshStep, RefreshSubmit, RefreshList, RefreshResolve,
       RefreshAssign, RefreshAnnotate, RefreshRest, hardware, choice, request,
       services

LEMMA ChoicesFrame ==
    ASSUME Choices
    PROVE  /\ pc = "idle"
           /\ UNCHANGED <<plugged, devices, refresh, pc, kind, path, list, initial,
                          target, source, snode, node, result, acked, written,
                          readFrom, touched, raced>>
BY DEF Choices, GuiChoices, CliChoices, SetSourceMode, SetAttachedLiveSource,
       ChoiceRest, hardware, request, services

LEMMA FrontEndFrame ==
    ASSUME FrontEnd
    PROVE  /\ UNCHANGED <<plugged, refresh, written, readFrom>>
           /\ pc \in {"idle", "asked", "dialog", "scanned", "named"}
           /\ pc' \in {"idle", "asked", "dialog", "scanned", "named", "submitted",
                       "done"}
BY DEF FrontEnd, AskPlan, ShowDialog, NoDialog, Confirm, Decline, CliScan,
       CliDiscover, CliAcknowledge, CliRefuse, Refuse, Go, OperationRest,
       hardware, services

LEMMA ControllerFrame ==
    ASSUME Controller
    PROVE  /\ UNCHANGED <<plugged, refresh, written, readFrom, touched, raced,
                          acked, path, kind, mode, running, attached>>
           /\ pc \in {"submitted", "verified", "planning", "planned", "listed",
                      "resolved", "assigned", "annotated"}
           /\ pc' \in {"verified", "planning", "planned", "listed", "resolved",
                       "assigned", "annotated", "validated", "done"}
BY DEF Controller, Rehash, PlanAnnotate, PlanInitial, PlanRefused, FreshList,
       FreshResolve, FreshAssign, FreshAnnotate, Revalidate, RevalidateRefused,
       Refuse, Go, OperationRest, hardware, choice, request, services

LEMMA ServicesFrame ==
    ASSUME Services
    PROVE  /\ UNCHANGED <<plugged, devices, refresh, touched, raced, acked, path,
                          mode, running, attached>>
           /\ pc \in ServicePhase
           /\ pc' \in ServicePhase \cup {"done"}
BY DEF Services, PrepareTarget, WriteDisk, CompareDevices, AttachImage,
       FindSourcePartition, FindTargetPartition, CopyPartition, ServiceFails,
       Refuse, Go, OperationRest, hardware, choice, request, services,
       ServicePhase

LEMMA FinishFrame ==
    ASSUME Finish
    PROVE  /\ UNCHANGED <<plugged, refresh>>
           /\ pc' = "idle" /\ written' = None /\ readFrom' = None
           /\ list' = {} /\ devices' \in {devices, {}}
BY DEF Finish, GuiFinish, CliExit, Clear, hardware

-----------------------------------------------------------------------------
(* One drive sits behind one node, whatever is plugged and unplugged.      *)

LEMMA InjectiveStep ==
    ASSUME TypeOK, Injective, [Next]_vars PROVE Injective'
<1>1. CASE Hardware
  <2>1. CASE \E n \in Node : Unplug(n)
    BY <2>1 DEF Unplug, Swap, Injective, TypeOK
  <2>2. CASE \E n \in Node, d \in Drive : Plug(n, d)
    BY <2>2 DEF Plug, Swap, Injective, TypeOK
  <2>3. QED BY <1>1, <2>1, <2>2 DEF Hardware
<1>2. CASE ~Hardware
  <2>1. UNCHANGED plugged
    BY <1>2, NextSplit, BackgroundFrame, ChoicesFrame, FrontEndFrame,
       ControllerFrame, ServicesFrame, FinishFrame DEF vars
  <2>2. QED BY <2>1 DEF Injective
<1>3. QED BY <1>1, <1>2

-----------------------------------------------------------------------------
(* A live upgrade never reads the drive it writes.                         *)

DistinctInv == Injective /\ NothingWrittenYet /\ PairDiffers /\ NeverOntoItself

LEMMA InitDistinct == Init => DistinctInv
BY DEF Init, DistinctInv, Injective, NothingWrittenYet, PairDiffers, NeverOntoItself

LEMMA NothingWrittenStep ==
    ASSUME TypeOK, NothingWrittenYet, [Next]_vars PROVE NothingWrittenYet'
<1> USE DEF NothingWrittenYet
<1>1. CASE Services
  <2>1. pc # "done"
    BY <1>1, ServicesFrame DEF ServicePhase
  <2>2. pc' = "done" \/ UNCHANGED <<written, readFrom>>
    BY <1>1 DEF Services, PrepareTarget, WriteDisk, CompareDevices, AttachImage,
       FindSourcePartition, FindTargetPartition, CopyPartition, ServiceFails,
       Refuse, Go, services
  <2>3. QED BY <2>1, <2>2
<1>2. CASE Finish
  BY <1>2, FinishFrame
<1>3. CASE ~Services /\ ~Finish
  <2>1. UNCHANGED <<written, readFrom>>
    BY <1>3, NextSplit, HardwareFrame, BackgroundFrame, ChoicesFrame,
       FrontEndFrame, ControllerFrame DEF vars
  <2>2. pc # "done" \/ pc' = "done"
    BY <1>3, NextSplit, HardwareFrame, BackgroundFrame, ChoicesFrame,
       FrontEndFrame, ControllerFrame DEF vars
  <2>3. QED BY <2>1, <2>2
<1>4. QED BY <1>1, <1>2, <1>3

LEMMA PairDiffersStep ==
    ASSUME TypeOK, PairDiffers, [Next]_vars PROVE PairDiffers'
<1> USE DEF PairDiffers
<1>1. CASE Services
  <2>1. CASE FindTargetPartition
    BY <2>1 DEF FindTargetPartition, ValidPair
  <2>2. CASE ~FindTargetPartition
    <3>1. pc' # "located"
      BY <1>1, <2>2 DEF Services, PrepareTarget, WriteDisk, CompareDevices,
         AttachImage, FindSourcePartition, CopyPartition, ServiceFails, Refuse, Go
    <3>2. QED BY <3>1
  <2>3. QED BY <2>1, <2>2
<1>2. CASE ~Services
  <2>1. pc' # "located" \/ UNCHANGED <<pc, node, snode>>
    BY <1>2, NextSplit, HardwareFrame, BackgroundFrame, ChoicesFrame,
       FrontEndFrame, ControllerFrame, FinishFrame DEF vars
  <2>2. QED BY <2>1
<1>3. QED BY <1>1, <1>2

LEMMA NeverOntoItselfStep ==
    ASSUME TypeOK, DistinctInv, [Next]_vars PROVE NeverOntoItself'
<1> USE DEF DistinctInv, NeverOntoItself
<1>1. CASE Services
  <2>1. CASE CopyPartition
    <3>1. CASE snode = None
      BY <2>1, <3>1 DEF CopyPartition
    <3>2. CASE snode # None
      <4>1. /\ node # snode /\ pc = "located"
            /\ written' = plugged[node] /\ readFrom' = plugged[snode]
            /\ plugged[node] # None
        BY <2>1, <3>2 DEF CopyPartition, Go, PairDiffers
      <4>2. node \in Node /\ snode \in Node
        BY <4>1, <3>2 DEF TypeOK
      <4>3. QED BY <4>1, <4>2 DEF Injective
    <3>3. QED BY <3>1, <3>2
  <2>2. CASE ~CopyPartition
    <3>1. readFrom' = readFrom
      BY <1>1, <2>2 DEF Services, PrepareTarget, WriteDisk, CompareDevices,
         AttachImage, FindSourcePartition, FindTargetPartition, ServiceFails,
         Refuse, Go, services
    <3>2. readFrom = None
      BY <1>1, ServicesFrame DEF NothingWrittenYet, ServicePhase
    <3>3. QED BY <3>1, <3>2
  <2>3. QED BY <2>1, <2>2
<1>2. CASE Finish
  BY <1>2, FinishFrame
<1>3. CASE ~Services /\ ~Finish
  BY <1>3, NextSplit, HardwareFrame, BackgroundFrame, ChoicesFrame,
     FrontEndFrame, ControllerFrame DEF vars
<1>4. QED BY <1>1, <1>2, <1>3

LEMMA DistinctStep ==
    ASSUME TypeOK, DistinctInv, [Next]_vars PROVE DistinctInv'
BY InjectiveStep, NothingWrittenStep, PairDiffersStep, NeverOntoItselfStep
   DEF DistinctInv

(* No live upgrade of the command line reads the drive it writes, whatever *)
(* is swapped between the lookups: _validate_partition_pair in upgrader.py. *)
THEOREM CliNeverOntoItself == CliSpec => []NeverOntoItself
<1>1. TypeOK /\ DistinctInv /\ [CliNext]_vars => DistinctInv'
  BY DistinctStep DEF Next
<1>2. DistinctInv => NeverOntoItself
  BY DEF DistinctInv
<1>3. QED BY <1>1, <1>2, InitDistinct, CliTypeCorrect, PTL DEF CliSpec

(* Nor does a live upgrade of the GUI, whatever its background scans do.   *)
THEOREM GuiNeverOntoItself == GuiSpec => []NeverOntoItself
<1>1. TypeOK /\ DistinctInv /\ [GuiNext]_vars => DistinctInv'
  BY DistinctStep DEF Next
<1>2. DistinctInv => NeverOntoItself
  BY DEF DistinctInv
<1>3. QED BY <1>1, <1>2, InitDistinct, GuiTypeCorrect, PTL DEF GuiSpec

-----------------------------------------------------------------------------
(* A drive the running system uses is written only if it took the target's *)
(* place after the last check.                                             *)

(* A write path names at most one node.                                    *)
LEMMA WritePathUnique ==
    ASSUME TypeOK, Injective, NEW d \in Device,
           NEW m \in Denotes(WritePath(d)), NEW n \in Denotes(WritePath(d))
    PROVE  m = n
<1>1. m \in Node /\ n \in Node /\ plugged[m] # None /\ plugged[n] # None
  BY DEF Denotes
<1>2. CASE d.stable = None
  <2>1. WritePath(d) = <<"disk", d.node>>
    BY <1>2 DEF WritePath
  <2>2. QED BY <2>1, <1>1 DEF Denotes
<1>3. CASE d.stable # None
  <2>1. WritePath(d) = <<"byid", d.stable>>
    BY <1>3 DEF WritePath
  <2>2. d.stable \in Drive
    BY <1>3, DrivesAssumption DEF Device
  <2>3. d.stable \notin Node
    BY <2>2, NamesAssumption
  <2>4. plugged[m] = d.stable /\ plugged[n] = d.stable
    BY <2>1, <2>3, <1>1 DEF Denotes
  <2>5. QED BY <2>4, <1>1 DEF Injective
<1>4. QED BY <1>2, <1>3

ProtectedInv == Injective /\ NothingWrittenYet /\ GuardHolds /\ ProtectedSpared

LEMMA InitProtected == Init => ProtectedInv
<1>1. None \notin Protected
  BY NamesAssumption, DrivesAssumption
<1>2. QED
  BY <1>1 DEF Init, ProtectedInv, Injective, NothingWrittenYet, GuardHolds,
     ProtectedSpared

LEMMA GuardHoldsStep ==
    ASSUME TypeOK, Injective, GuardHolds, [Next]_vars PROVE GuardHolds'
<1>1. CASE PrepareTarget
  <2>1. /\ UNCHANGED <<plugged, target>> /\ pc' = "prepared"
        /\ target \in Device
    BY <1>1 DEF PrepareTarget, Go, OperationRest, hardware, TypeOK, ServicePhase
  <2>2. PICK n \in Denotes(WritePath(target)) : plugged[n] \notin Protected
    BY <1>1 DEF PrepareTarget, SafeToOverwrite
  <2>3. \A m \in Denotes(WritePath(target)) : m = n
    BY <2>1, WritePathUnique
  <2>4. Denotes(WritePath(target))' = Denotes(WritePath(target))
    BY <2>1 DEF Denotes, WritePath
  <2>5. QED BY <2>1, <2>2, <2>3, <2>4 DEF GuardHolds
<1>2. CASE FindTargetPartition
  <2>1. plugged[node'] \notin Protected /\ plugged' = plugged /\ pc' = "located"
    BY <1>2 DEF FindTargetPartition, ValidPair, Go, OperationRest, hardware
  <2>2. QED BY <2>1 DEF GuardHolds
<1>3. CASE Hardware
  BY <1>3, HardwareFrame DEF GuardHolds, Watched, Phase
<1>4. CASE ~PrepareTarget /\ ~FindTargetPartition /\ ~Hardware
  <2>1. pc' \in {"prepared", "located"} =>
           UNCHANGED <<pc, plugged, touched, target, node>>
    <3>1. CASE Services
      BY <3>1, <1>4 DEF Services, WriteDisk, CompareDevices, AttachImage,
         FindSourcePartition, CopyPartition, ServiceFails, Refuse, Go
    <3>2. CASE ~Services
      BY <1>4, <3>2, NextSplit, BackgroundFrame, ChoicesFrame, FrontEndFrame,
         ControllerFrame, FinishFrame DEF vars
    <3>3. QED BY <3>1, <3>2
  <2>2. CASE pc' \in {"prepared", "located"}
    <3>1. Denotes(WritePath(target))' = Denotes(WritePath(target))
      BY <2>1, <2>2 DEF Denotes, WritePath
    <3>2. QED BY <2>1, <2>2, <3>1 DEF GuardHolds
  <2>3. CASE pc' \notin {"prepared", "located"}
    BY <2>3 DEF GuardHolds
  <2>4. QED BY <2>2, <2>3
<1>5. QED BY <1>1, <1>2, <1>3, <1>4

LEMMA ProtectedSparedStep ==
    ASSUME TypeOK, ProtectedInv, [Next]_vars PROVE ProtectedSpared'
<1> USE DEF ProtectedInv, ProtectedSpared
<1>0. None \notin Protected
  BY NamesAssumption, DrivesAssumption
<1>1. CASE WriteDisk
  BY <1>1 DEF WriteDisk, Go, OperationRest, GuardHolds
<1>2. CASE CopyPartition
  BY <1>2 DEF CopyPartition, Go, OperationRest, GuardHolds
<1>3. CASE ~WriteDisk /\ ~CopyPartition
  <2>1. CASE pc # "done"
    <3>1. written' = None
      <4>1. CASE Services
        BY <2>1, <4>1, <1>3 DEF NothingWrittenYet, Services, PrepareTarget,
           CompareDevices, AttachImage, FindSourcePartition, FindTargetPartition,
           ServiceFails, Refuse, Go, services
      <4>2. CASE Finish
        BY <4>2, FinishFrame
      <4>3. CASE ~Services /\ ~Finish
        BY <2>1, <4>3, NextSplit, HardwareFrame, BackgroundFrame, ChoicesFrame,
           FrontEndFrame, ControllerFrame DEF vars, NothingWrittenYet
      <4>4. QED BY <4>1, <4>2, <4>3
    <3>2. QED BY <3>1, <1>0
  <2>2. CASE pc = "done"
    <3>1. CASE Finish
      BY <3>1, FinishFrame, <1>0
    <3>2. CASE ~Finish
      <4>1. UNCHANGED <<written, touched>>
        BY <2>2, <3>2, NextSplit, HardwareFrame, BackgroundFrame, ChoicesFrame,
           FrontEndFrame, ControllerFrame, ServicesFrame
           DEF vars, ServicePhase, Watched
      <4>2. QED BY <4>1
    <3>3. QED BY <3>1, <3>2
  <2>3. QED BY <2>1, <2>2
<1>4. QED BY <1>1, <1>2, <1>3

LEMMA ProtectedStep ==
    ASSUME TypeOK, ProtectedInv, [Next]_vars PROVE ProtectedInv'
BY InjectiveStep, NothingWrittenStep, GuardHoldsStep, ProtectedSparedStep
   DEF ProtectedInv

(* No list, stale or not, makes the command line overwrite a disk with a   *)
(* filesystem the running system uses: creator.py and upgrader.py look at  *)
(* the disk itself, last.                                                  *)
THEOREM CliProtectedSpared == CliSpec => []ProtectedSpared
<1>1. TypeOK /\ ProtectedInv /\ [CliNext]_vars => ProtectedInv'
  BY ProtectedStep DEF Next
<1>2. ProtectedInv => ProtectedSpared
  BY DEF ProtectedInv
<1>3. QED BY <1>1, <1>2, InitProtected, CliTypeCorrect, PTL DEF CliSpec

(* The same for the GUI with any number of background scans.               *)
THEOREM GuiProtectedSpared == GuiSpec => []ProtectedSpared
<1>1. TypeOK /\ ProtectedInv /\ [GuiNext]_vars => ProtectedInv'
  BY ProtectedStep DEF Next
<1>2. ProtectedInv => ProtectedSpared
  BY DEF ProtectedInv
<1>3. QED BY <1>1, <1>2, InitProtected, GuiTypeCorrect, PTL DEF GuiSpec

-----------------------------------------------------------------------------
(***************************************************************************)
(* The hardware that is written is the hardware the operator acknowledged. *)
(* The argument follows the operation: the shared list shows the           *)
(* acknowledged identity at the target path, so the initial plan has it;   *)
(* the final scan is faithful to the hardware until a swap; the target     *)
(* taken from it has the initial plan's identity; and the path the write   *)
(* services are given denotes the drive that scan saw.                     *)
(***************************************************************************)

(* Lists.                                                                  *)

(* _find_device_in finds at most one entry.                                *)
LEMMA FoundUnique ==
    ASSUME NEW l \in SUBSET Device, UniqueEntries(l), NEW p \in PathOrNone,
           NEW d \in Found(l, p), NEW e \in Found(l, p)
    PROVE  d = e
<1>1. d \in l /\ e \in l /\ Matches(d, p) /\ Matches(e, p)
  BY DEF Found
<1>2. d \in Device /\ e \in Device
  BY <1>1
<1>3. <<"disk", d.node>> \in Path /\ <<"disk", e.node>> \in Path
  BY <1>2 DEF Device, Path
<1>4. CASE p \in {"disk", "part"} \X Node
  <2>1. d.node = p[2] /\ e.node = p[2]
    BY <1>1, <1>4 DEF Matches, Parent
  <2>2. QED BY <2>1, <1>1 DEF UniqueEntries
<1>5. CASE p \in {"byid", "byid-part"} \X HasById
  <2>1. d.stable = p[2] /\ e.stable = p[2] /\ d.stable # None
    BY <1>1, <1>5 DEF Matches, Parent
  <2>2. QED BY <2>1, <1>1 DEF UniqueEntries
<1>6. CASE p = None
  <2>1. None \notin Path
    BY NamesAssumption
  <2>2. Parent(p) = None
    BY <1>6, <2>1 DEF Parent, Path
  <2>3. p # <<"disk", d.node>>
    BY <1>3, <1>6, <2>1
  <2>4. d.stable # None => <<"byid", d.stable>> \in Path
    BY <1>2 DEF Device, Path
  <2>5. ~Matches(d, p)
    BY <2>1, <2>2, <2>3, <2>4, <1>6 DEF Matches
  <2>6. QED BY <2>5, <1>1
<1>7. QED BY <1>4, <1>5, <1>6 DEF PathOrNone, Path

LEMMA SnapshotEntry ==
    ASSUME NEW e \in Snapshot
    PROVE  /\ e.node \in Node /\ plugged[e.node] = e.drive /\ e.stable = None
           /\ e = [node |-> e.node, drive |-> plugged[e.node], stable |-> None,
                   flagged |-> FALSE]
BY DEF Snapshot

LEMMA SnapshotUnique == UniqueEntries(Snapshot)
<1> SUFFICES ASSUME NEW d \in Snapshot, NEW e \in Snapshot,
                    d.node = e.node \/ (d.stable # None /\ d.stable = e.stable)
             PROVE  d = e
  BY DEF UniqueEntries
<1>1. d.node = e.node
  BY SnapshotEntry
<1>2. QED BY <1>1, SnapshotEntry

(* An entry that was annotated or resolved is the entry it was.            *)
LEMMA AnnotatedEntry ==
    ASSUME NEW l \in SUBSET Device, NEW e \in Annotated(l)
    PROVE  \E d \in l : /\ e = [d EXCEPT !.flagged = IsLiveSource(d.node)]
                        /\ e.node = d.node /\ e.drive = d.drive
                        /\ e.stable = d.stable
BY DEF Annotated, Device

LEMMA ResolvedEntry ==
    ASSUME NEW l \in SUBSET Device, NEW e \in WithStablePaths(l)
    PROVE  \E d \in l : /\ e = [d EXCEPT !.stable = StableOf(d.node)]
                        /\ e.node = d.node /\ e.drive = d.drive
                        /\ e.stable = StableOf(d.node)
BY DEF WithStablePaths, Device

LEMMA AnnotatedUnique ==
    ASSUME NEW l \in SUBSET Device, UniqueEntries(l)
    PROVE  UniqueEntries(Annotated(l))
<1> SUFFICES ASSUME NEW e \in Annotated(l), NEW f \in Annotated(l),
                    e.node = f.node \/ (e.stable # None /\ e.stable = f.stable)
             PROVE  e = f
  BY DEF UniqueEntries
<1>1. PICK d \in l : /\ e = [d EXCEPT !.flagged = IsLiveSource(d.node)]
                     /\ e.node = d.node /\ e.stable = d.stable
  BY AnnotatedEntry
<1>2. PICK c \in l : /\ f = [c EXCEPT !.flagged = IsLiveSource(c.node)]
                     /\ f.node = c.node /\ f.stable = c.stable
  BY AnnotatedEntry
<1>3. d = c
  BY <1>1, <1>2 DEF UniqueEntries
<1>4. QED BY <1>1, <1>2, <1>3

LEMMA ResolvedUnique ==
    ASSUME TypeOK, Injective, NEW l \in SUBSET Device, UniqueEntries(l)
    PROVE  UniqueEntries(WithStablePaths(l))
<1> SUFFICES ASSUME NEW e \in WithStablePaths(l), NEW f \in WithStablePaths(l),
                    e.node = f.node \/ (e.stable # None /\ e.stable = f.stable)
             PROVE  e = f
  BY DEF UniqueEntries
<1>1. PICK d \in l : /\ e = [d EXCEPT !.stable = StableOf(d.node)]
                     /\ e.node = d.node /\ e.stable = StableOf(d.node)
  BY ResolvedEntry
<1>2. PICK c \in l : /\ f = [c EXCEPT !.stable = StableOf(c.node)]
                     /\ f.node = c.node /\ f.stable = StableOf(c.node)
  BY ResolvedEntry
<1>3. d.node \in Node /\ c.node \in Node
  BY DEF Device
<1>4. d.node = c.node
  <2>1. CASE e.node = f.node
    BY <2>1, <1>1, <1>2
  <2>2. CASE e.stable # None /\ e.stable = f.stable
    <3>1. StableOf(d.node) = StableOf(c.node) /\ StableOf(d.node) # None
      BY <2>2, <1>1, <1>2
    <3>2. plugged[d.node] = plugged[c.node] /\ plugged[d.node] # None
      BY <3>1, NamesAssumption, DrivesAssumption DEF StableOf
    <3>3. QED BY <3>2, <1>3 DEF Injective
  <2>3. QED BY <2>1, <2>2
<1>5. d = c
  BY <1>4 DEF UniqueEntries
<1>6. QED BY <1>1, <1>2, <1>5

LEMMA CurrentListUnique ==
    ASSUME TypeOK, Injective, EntriesUnique PROVE UniqueEntries(CurrentList)
BY SnapshotUnique, SnapshotType, ResolvedUnique DEF CurrentList, EntriesUnique

LEMMA AnnotatedFound ==
    ASSUME NEW l \in SUBSET Device, NEW p, NEW e \in Found(Annotated(l), p)
    PROVE  \E d \in Found(l, p) : Identity(d) = Identity(e)
<1>1. PICK d \in l : e.node = d.node /\ e.drive = d.drive /\ e.stable = d.stable
  BY AnnotatedEntry DEF Found
<1>2. Identity(d) = Identity(e)
  BY <1>1 DEF Identity
<1>3. d \in Found(l, p)
  BY <1>1 DEF Found, Matches
<1>4. QED BY <1>2, <1>3

-----------------------------------------------------------------------------
(* The parts of the inductive invariant, one by one.                       *)

LEMMA EntriesUniqueStep ==
    ASSUME TypeOK, Injective, EntriesUnique, [Next]_vars PROVE EntriesUnique'
<1> USE DEF EntriesUnique
<1>e. UniqueEntries({})
  BY DEF UniqueEntries
<1>1. CASE Hardware
  BY <1>1, HardwareFrame DEF UniqueEntries
<1>2. CASE Background
  <2>s. CASE SyncDevices
    <3>1. UniqueEntries(Annotated(devices))
      BY AnnotatedUnique DEF TypeOK
    <3>2. UNCHANGED <<list, refresh>> /\ devices' = Annotated(devices)
      BY <2>s, <1>2, BackgroundFrame DEF SyncDevices
    <3>3. QED BY <3>1, <3>2 DEF UniqueEntries
  <2> SUFFICES ASSUME NEW r \in Refresher, RefreshStep(r) PROVE EntriesUnique'
    BY <1>2, <2>s DEF Background
  <2>0. list' = list
    BY <1>2, BackgroundFrame
  <2>t. refresh[r].list \in SUBSET Device /\ devices \in SUBSET Device
    BY DEF TypeOK
  <2>1. UniqueEntries(devices')
    <3>1. CASE RefreshAssign(r)
      BY <3>1 DEF RefreshAssign
    <3>2. CASE RefreshAnnotate(r)
      BY <3>2, <2>t, AnnotatedUnique DEF RefreshAnnotate
    <3>3. QED BY <3>1, <3>2 DEF RefreshStep, RefreshSubmit, RefreshList, RefreshResolve
  <2>2. ASSUME NEW q \in Refresher PROVE UniqueEntries(refresh'[q].list)
    <3>1. CASE q # r
      <4>1. refresh'[q] = refresh[q]
        BY <3>1 DEF TypeOK, RefreshStep, RefreshSubmit, RefreshList, RefreshResolve,
           RefreshAssign, RefreshAnnotate
      <4>2. QED BY <4>1
    <3>2. CASE q = r
      <4>1. refresh'[r].list \in {refresh[r].list, Snapshot, {},
                                  WithStablePaths(refresh[r].list)}
        BY DEF TypeOK, RefreshStep, RefreshSubmit, RefreshList, RefreshResolve,
           RefreshAssign, RefreshAnnotate
      <4>2. UniqueEntries(WithStablePaths(refresh[r].list))
        BY <2>t, ResolvedUnique
      <4>3. QED BY <3>2, <4>1, <4>2, SnapshotUnique, <1>e
    <3>3. QED BY <3>1, <3>2
  <2>3. QED BY <2>0, <2>1, <2>2 DEF UniqueEntries
<1>3. CASE FrontEnd
  <2>1. /\ devices' \in {devices, Annotated(CurrentList),
                         Annotated(WithStablePaths(list))}
        /\ list' \in {list, {}, Snapshot}
        /\ refresh' = refresh
    BY <1>3 DEF FrontEnd, AskPlan, ShowDialog, NoDialog, Confirm, Decline, CliScan,
       CliDiscover, CliAcknowledge, CliRefuse, Refuse, Go, OperationRest
  <2>2. UniqueEntries(Annotated(CurrentList))
    BY CurrentListUnique, CurrentListType, AnnotatedUnique
  <2>3. UniqueEntries(Annotated(WithStablePaths(list)))
    BY ResolvedUnique, WithStablePathsType, AnnotatedUnique DEF TypeOK
  <2>4. UniqueEntries(devices') /\ UniqueEntries(list')
    BY <2>1, <2>2, <2>3, SnapshotUnique, <1>e
  <2>5. QED BY <2>1, <2>4 DEF UniqueEntries
<1>4. CASE Controller
  <2>1. /\ devices' \in {devices, list, Annotated(CurrentList), Annotated(devices)}
        /\ list' \in {list, {}, Snapshot, WithStablePaths(list)}
        /\ refresh' = refresh
    BY <1>4 DEF Controller, Rehash, PlanAnnotate, PlanInitial, PlanRefused, FreshList,
       FreshResolve, FreshAssign, FreshAnnotate, Revalidate, RevalidateRefused,
       Refuse, Go, OperationRest
  <2>2. UniqueEntries(Annotated(CurrentList)) /\ UniqueEntries(Annotated(devices))
    BY CurrentListUnique, CurrentListType, AnnotatedUnique DEF TypeOK
  <2>3. UniqueEntries(WithStablePaths(list))
    BY ResolvedUnique DEF TypeOK
  <2>4. UniqueEntries(devices') /\ UniqueEntries(list')
    BY <2>1, <2>2, <2>3, SnapshotUnique, <1>e
  <2>5. QED BY <2>1, <2>4 DEF UniqueEntries
<1>5. CASE Services
  <2>1. list' \in {list, {}}
    BY <1>5 DEF Services, PrepareTarget, WriteDisk, CompareDevices, AttachImage,
       FindSourcePartition, FindTargetPartition, CopyPartition, ServiceFails,
       Refuse, Go
  <2>2. UniqueEntries(list')
    BY <2>1, <1>e
  <2>3. devices' = devices /\ refresh' = refresh
    BY <1>5, ServicesFrame
  <2>4. QED BY <2>2, <2>3 DEF UniqueEntries
<1>6. CASE Finish
  <2>1. UniqueEntries(devices') /\ UniqueEntries(list')
    BY <1>6, FinishFrame, <1>e
  <2>2. QED BY <1>6, <2>1, FinishFrame DEF UniqueEntries
<1>7. CASE Choices \/ UNCHANGED vars
  BY <1>7, ChoicesFrame DEF vars, UniqueEntries
<1>8. QED BY NextSplit, <1>1, <1>2, <1>3, <1>4, <1>5, <1>6, <1>7

(* A background list that replaces one the operation relies on is recorded. *)
LEMMA BackgroundRaces ==
    ASSUME TypeOK, Background
    PROVE  /\ raced => raced'
           /\ ~raced' /\ pc \in Exposed => devices' \in {devices, Annotated(devices)}
<1>0. CASE SyncDevices
  BY <1>0 DEF SyncDevices
<1>1. ASSUME ~SyncDevices PROVE \E r \in Refresher : RefreshStep(r)
  BY <1>1 DEF Background
<1> SUFFICES ASSUME NEW r \in Refresher, RefreshStep(r)
             PROVE  /\ raced => raced'
                    /\ ~raced' /\ pc \in Exposed =>
                          devices' \in {devices, Annotated(devices)}
  BY <1>0, <1>1
<1>2. CASE RefreshAssign(r)
  <2>1. raced' = (raced \/ pc \in Exposed)
    BY <1>2 DEF RefreshAssign
  <2>2. QED BY <2>1
<1>3. CASE ~RefreshAssign(r)
  <2>1. raced' = raced
    BY <1>3 DEF RefreshStep, RefreshSubmit, RefreshList, RefreshResolve,
       RefreshAnnotate
  <2>2. devices' \in {devices, Annotated(devices)}
    BY <1>3 DEF RefreshStep, RefreshSubmit, RefreshList, RefreshResolve,
       RefreshAnnotate
  <2>3. QED BY <2>1, <2>2
<1>4. QED BY <1>2, <1>3

(* What the target path finds is one entry, so an identity that one entry  *)
(* has is the identity of all.                                             *)
LEMMA PathIsTyped == ASSUME TypeOK PROVE path \in PathOrNone
BY DEF TypeOK

LEMMA ListShowsAckedStep ==
    ASSUME TypeOK, EntriesUnique, ListShowsAcked, [Next]_vars
    PROVE  ListShowsAcked'
<1> DEFINE Showing == {"dialog", "submitted", "verified", "planning"}
<1> DEFINE Shown(l) == l # {} /\ \A d \in Found(l, path) : Identity(d) = acked
<1>t. devices \in SUBSET Device
  BY DEF TypeOK
<1>a. Shown(devices) => Shown(Annotated(devices))
  <2>1. devices # {} => Annotated(devices) # {}
    BY DEF Annotated
  <2>2. QED BY <2>1, <1>t, AnnotatedFound
<1>1. CASE ShowDialog \/ CliAcknowledge
  <2>1. /\ UNCHANGED <<devices, path>>
        /\ \E d \in Found(devices, path) : acked' = Identity(d)
    BY <1>1 DEF ShowDialog, CliAcknowledge, request
  <2>2. PICK d \in Found(devices, path) : acked' = Identity(d)
    BY <2>1
  <2>3. \A e \in Found(devices, path) : e = d
    BY <1>t, PathIsTyped, FoundUnique DEF EntriesUnique
  <2>4. devices # {}
    BY <2>2 DEF Found
  <2>5. QED BY <2>1, <2>2, <2>3, <2>4 DEF ListShowsAcked, Found, Matches, Identity
<1>2. CASE Confirm \/ Rehash \/ PlanAnnotate
  <2>1. UNCHANGED <<path, acked, raced>> /\ pc \in Showing
    BY <1>2 DEF Confirm, Rehash, PlanAnnotate, Refuse, Go, OperationRest, request
  <2>2. CASE raced
    BY <2>1, <2>2 DEF ListShowsAcked
  <2>3. CASE ~raced
    <3>1. Shown(devices)
      BY <2>1, <2>3 DEF ListShowsAcked
    <3>2. devices' \in {devices, Annotated(devices)}
      BY <1>2, <3>1 DEF Confirm, Rehash, PlanAnnotate, CurrentList
    <3>3. Shown(devices')
      BY <3>1, <3>2, <1>a
    <3>4. QED BY <2>1, <3>3 DEF ListShowsAcked, Found, Matches, Identity
  <2>4. QED BY <2>2, <2>3
<1>3. CASE Background
  <2>1. UNCHANGED <<pc, path, acked>>
    BY <1>3, BackgroundFrame
  <2>2. CASE raced' \/ pc \notin Showing
    BY <2>1, <2>2 DEF ListShowsAcked
  <2>3. CASE ~raced' /\ pc \in Showing
    <3>1. ~raced /\ devices' \in {devices, Annotated(devices)}
      BY <1>3, <2>3, BackgroundRaces DEF Exposed
    <3>2. Shown(devices)
      BY <3>1, <2>3 DEF ListShowsAcked
    <3>3. Shown(devices')
      BY <3>1, <3>2, <1>a
    <3>4. QED BY <2>1, <3>3 DEF ListShowsAcked, Found, Matches, Identity
  <2>4. QED BY <2>2, <2>3
<1>4. CASE Hardware \/ Choices \/ UNCHANGED vars
  <2>1. UNCHANGED <<devices, path, acked, raced, pc>>
    BY <1>4, HardwareFrame, ChoicesFrame DEF vars
  <2>2. QED BY <2>1 DEF ListShowsAcked, Found, Matches, Identity
<1>5. CASE \/ Services \/ Finish
           \/ FrontEnd /\ ~ShowDialog /\ ~CliAcknowledge /\ ~Confirm
           \/ Controller /\ ~Rehash /\ ~PlanAnnotate
  <2>1. pc' \notin Showing
    <3>1. CASE Services \/ Finish
      BY <3>1, ServicesFrame, FinishFrame DEF ServicePhase
    <3>2. CASE FrontEnd /\ ~ShowDialog /\ ~CliAcknowledge /\ ~Confirm
      BY <3>2 DEF FrontEnd, AskPlan, NoDialog, Decline, CliScan, CliDiscover,
         CliRefuse, Refuse, Go
    <3>3. CASE Controller /\ ~Rehash /\ ~PlanAnnotate
      BY <3>3 DEF Controller, PlanInitial, PlanRefused, FreshList, FreshResolve,
         FreshAssign, FreshAnnotate, Revalidate, RevalidateRefused, Refuse, Go
    <3>4. QED BY <1>5, <3>1, <3>2, <3>3
  <2>2. QED BY <2>1 DEF ListShowsAcked
<1>6. QED BY NextSplit, <1>1, <1>2, <1>3, <1>4, <1>5

LEMMA InitialIsAckedStep ==
    ASSUME TypeOK, ListShowsAcked, InitialIsAcked, [Next]_vars
    PROVE  InitialIsAcked'
<1> DEFINE Planned == {"planned", "listed", "resolved", "assigned", "annotated"}
<1>1. CASE PlanInitial
  <2>1. UNCHANGED <<acked, raced>> /\ pc = "planning"
    BY <1>1 DEF PlanInitial, Go, OperationRest
  <2>2. PICK d \in Found(devices, path) :
           initial' = [target |-> Identity(d), source |-> SourceIdentity(devices)]
    BY <1>1 DEF PlanInitial
  <2>3. ~raced => Identity(d) = acked
    BY <2>1 DEF ListShowsAcked
  <2>4. initial'.target = Identity(d)
    BY <2>2
  <2>5. QED BY <2>1, <2>3, <2>4 DEF InitialIsAcked
<1>2. CASE FreshList \/ FreshResolve \/ FreshAssign \/ FreshAnnotate
  <2>1. /\ UNCHANGED <<acked, raced>> /\ pc \in Planned
        /\ pc' \in Planned => initial' = initial
    BY <1>2 DEF FreshList, FreshResolve, FreshAssign, FreshAnnotate, Refuse, Go,
       OperationRest
  <2>2. QED BY <2>1 DEF InitialIsAcked
<1>3. CASE Hardware \/ Background \/ Choices \/ UNCHANGED vars
  <2>1. UNCHANGED <<acked, initial, pc>> /\ (raced => raced')
    BY <1>3, HardwareFrame, BackgroundFrame, BackgroundRaces, ChoicesFrame DEF vars
  <2>2. QED BY <2>1 DEF InitialIsAcked
<1>4. CASE \/ FrontEnd \/ Services \/ Finish
           \/ Controller /\ ~PlanInitial /\ ~FreshList /\ ~FreshResolve
                         /\ ~FreshAssign /\ ~FreshAnnotate
  <2>1. pc' \notin Planned
    <3>1. CASE FrontEnd \/ Services \/ Finish
      BY <3>1, FrontEndFrame, ServicesFrame, FinishFrame DEF ServicePhase
    <3>2. CASE Controller /\ ~PlanInitial /\ ~FreshList /\ ~FreshResolve
                          /\ ~FreshAssign /\ ~FreshAnnotate
      BY <3>2 DEF Controller, Rehash, PlanAnnotate, PlanRefused, Revalidate,
         RevalidateRefused, Refuse, Go
    <3>3. QED BY <1>4, <3>1, <3>2
  <2>2. QED BY <2>1 DEF InitialIsAcked
<1>5. QED BY NextSplit, <1>1, <1>2, <1>3, <1>4

(* Annotation changes neither the drive, nor the link, nor the node.       *)
LEMMA AnnotatedFaithful ==
    ASSUME NEW l \in SUBSET Device, \A d \in l : Faithful(d)
    PROVE  \A e \in Annotated(l) : Faithful(e)
BY AnnotatedEntry DEF Faithful

(* A swap is recorded, which is all it can do to a list.                   *)
LEMMA HardwareFaithful ==
    ASSUME Hardware, pc \in PostScan, NEW d, Faithful(d)
    PROVE  Faithful(d)'
<1>1. touched' = touched \cup {pc}
  BY HardwareFrame DEF Watched, Phase, PostScan
<1>2. QED BY <1>1 DEF Faithful

LEMMA ScanFaithfulStep ==
    ASSUME TypeOK, ScanFaithful, [Next]_vars PROVE ScanFaithful'
<1>t. devices \in SUBSET Device /\ list \in SUBSET Device
  BY DEF TypeOK
<1>1. CASE FreshList
  <2>1. CASE pc' = "listed"
    <3>1. list' = Snapshot /\ plugged' = plugged
      BY <1>1, <2>1 DEF FreshList, Refuse, Go, OperationRest, hardware
    <3>2. QED BY <2>1, <3>1, SnapshotEntry DEF ScanFaithful
  <2>2. CASE pc' = "done"
    BY <2>2 DEF ScanFaithful
  <2>3. QED BY <1>1, <2>1, <2>2 DEF FreshList, Refuse, Go
<1>2. CASE FreshResolve
  <2>1. /\ pc = "listed" /\ pc' = "resolved"
        /\ list' = WithStablePaths(list) /\ UNCHANGED <<plugged, touched>>
    BY <1>2 DEF FreshResolve, Go, OperationRest, hardware
  <2>2. ASSUME NEW e \in WithStablePaths(list) PROVE Faithful(e)
    <3>1. PICK d \in list : /\ e.node = d.node /\ e.drive = d.drive
                            /\ e.stable = StableOf(d.node)
      BY <1>t, ResolvedEntry
    <3>2. "listed" \notin touched => plugged[e.node] = e.drive
      BY <2>1, <3>1 DEF ScanFaithful
    <3>3. "listed" \notin touched => e.stable = OwnLink(e.drive)
      BY <3>1, <3>2 DEF StableOf, OwnLink
    <3>4. touched \cap PostScan = {} => "listed" \notin touched
      BY DEF PostScan
    <3>5. QED BY <3>2, <3>3, <3>4 DEF Faithful
  <2>3. QED BY <2>1, <2>2 DEF ScanFaithful, Faithful
<1>3. CASE FreshAssign
  <2>1. /\ pc = "resolved" /\ pc' = "assigned"
        /\ devices' = list /\ UNCHANGED <<plugged, touched>>
    BY <1>3 DEF FreshAssign, Go, OperationRest, hardware
  <2>2. QED BY <2>1 DEF ScanFaithful, Faithful
<1>4. CASE FreshAnnotate
  <2>1. /\ pc = "assigned" /\ pc' = "annotated"
        /\ devices' = Annotated(devices) /\ UNCHANGED <<plugged, touched, raced>>
    BY <1>4 DEF FreshAnnotate, Go, OperationRest, hardware
  <2>2. CASE raced
    BY <2>1, <2>2 DEF ScanFaithful
  <2>3. CASE ~raced
    <3>1. \A e \in Annotated(devices) : Faithful(e)
      BY <2>1, <2>3, <1>t, AnnotatedFaithful DEF ScanFaithful
    <3>2. QED BY <2>1, <3>1 DEF ScanFaithful, Faithful
  <2>4. QED BY <2>2, <2>3
<1>5. CASE Background
  <2>1. UNCHANGED <<plugged, touched, list, pc>>
    BY <1>5, BackgroundFrame
  <2>2. CASE raced' \/ pc \notin {"assigned", "annotated"}
    BY <2>1, <2>2 DEF ScanFaithful, Faithful
  <2>3. CASE ~raced' /\ pc \in {"assigned", "annotated"}
    <3>1. ~raced /\ devices' \in {devices, Annotated(devices)}
      BY <1>5, <2>3, BackgroundRaces DEF Exposed
    <3>2. \A d \in devices : Faithful(d)
      BY <3>1, <2>3 DEF ScanFaithful
    <3>3. \A d \in devices' : Faithful(d)
      BY <3>1, <3>2, <1>t, AnnotatedFaithful
    <3>4. QED BY <2>1, <2>3, <3>3 DEF ScanFaithful, Faithful
  <2>4. QED BY <2>2, <2>3
<1>6. CASE Hardware
  <2>1. UNCHANGED <<devices, list, pc, raced>>
    BY <1>6, HardwareFrame
  <2>2. CASE pc \in {"listed", "resolved", "assigned", "annotated"}
    <3>1. touched' = touched \cup {pc}
      BY <1>6, <2>2, HardwareFrame DEF Watched, Phase
    <3>2. pc = "resolved" => \A d \in list : Faithful(d)'
      BY <1>6, HardwareFaithful DEF ScanFaithful, PostScan
    <3>3. pc \in {"assigned", "annotated"} /\ ~raced => \A d \in devices : Faithful(d)'
      BY <1>6, HardwareFaithful DEF ScanFaithful, PostScan
    <3>4. QED BY <2>1, <3>1, <3>2, <3>3 DEF ScanFaithful, Faithful
  <2>3. CASE pc \notin {"listed", "resolved", "assigned", "annotated"}
    BY <2>1, <2>3 DEF ScanFaithful
  <2>4. QED BY <2>2, <2>3
<1>7. CASE \/ Choices \/ FrontEnd \/ Services \/ Finish \/ UNCHANGED vars
           \/ Controller /\ ~FreshList /\ ~FreshResolve /\ ~FreshAssign
                         /\ ~FreshAnnotate
  <2>1. CASE Choices \/ UNCHANGED vars
    BY <2>1, ChoicesFrame DEF vars, ScanFaithful, Faithful
  <2>2. CASE FrontEnd \/ Services \/ Finish
    BY <2>2, FrontEndFrame, ServicesFrame, FinishFrame DEF ServicePhase, ScanFaithful
  <2>3. CASE Controller /\ ~FreshList /\ ~FreshResolve /\ ~FreshAssign /\ ~FreshAnnotate
    <3>1. pc' \notin {"listed", "resolved", "assigned", "annotated"}
      BY <2>3 DEF Controller, Rehash, PlanAnnotate, PlanInitial, PlanRefused,
         Revalidate, RevalidateRefused, Refuse, Go
    <3>2. QED BY <3>1 DEF ScanFaithful
  <2>4. QED BY <1>7, <2>1, <2>2, <2>3
<1>8. QED BY NextSplit, <1>1, <1>2, <1>3, <1>4, <1>5, <1>6, <1>7

(* Before it is done, a service step changes neither the target nor what   *)
(* the history knows.                                                      *)
LEMMA ServicesKeepTarget ==
    ASSUME Services, pc' # "done" PROVE target' = target
BY DEF Services, PrepareTarget, WriteDisk, CompareDevices, AttachImage,
   FindSourcePartition, FindTargetPartition, CopyPartition, ServiceFails, Refuse, Go

LEMMA TargetIsAckedStep ==
    ASSUME TypeOK, InitialIsAcked, ScanFaithful, TargetIsAcked, [Next]_vars
    PROVE  TargetIsAcked'
<1>1. CASE Revalidate
  <2>1. UNCHANGED <<plugged, touched, raced, acked>> /\ pc = "annotated"
    BY <1>1 DEF Revalidate, Go, OperationRest, hardware
  <2>2. PICK d \in Found(devices, path) :
           initial.target = Identity(d) /\ target' = d
    BY <1>1 DEF Revalidate, SameIdentity
  <2>3. CASE raced
    BY <2>1, <2>3 DEF TargetIsAcked
  <2>4. CASE ~raced
    <3>1. Faithful(d)
      BY <2>1, <2>4 DEF ScanFaithful, Found
    <3>2. Identity(d) = acked
      BY <2>1, <2>2, <2>4 DEF InitialIsAcked
    <3>3. QED BY <2>1, <2>2, <3>1, <3>2 DEF TargetIsAcked, Faithful, Identity
  <2>5. QED BY <2>3, <2>4
<1>2. CASE Services
  <2>1. CASE pc' = "done"
    BY <2>1 DEF TargetIsAcked, ServicePhase
  <2>2. CASE pc' # "done"
    <3>1. UNCHANGED <<target, plugged, touched, raced, acked>> /\ pc \in ServicePhase
      BY <1>2, <2>2, ServicesFrame, ServicesKeepTarget
    <3>2. QED BY <3>1 DEF TargetIsAcked, Faithful, Identity
  <2>3. QED BY <2>1, <2>2
<1>3. CASE Hardware
  <2>1. UNCHANGED <<target, raced, acked, pc>>
    BY <1>3, HardwareFrame
  <2>2. pc \in ServicePhase /\ Faithful(target) => Faithful(target)'
    <3>1. pc \in ServicePhase => touched' = touched \cup {pc} /\ pc \in PostScan
      BY <1>3, HardwareFrame DEF ServicePhase, Watched, Phase, PostScan
    <3>2. QED BY <2>1, <3>1 DEF Faithful
  <2>3. QED BY <2>1, <2>2 DEF TargetIsAcked, Identity
<1>4. CASE Background \/ Choices \/ UNCHANGED vars
  <2>1. UNCHANGED <<target, acked, pc, plugged, touched>> /\ (raced => raced')
    BY <1>4, BackgroundFrame, BackgroundRaces, ChoicesFrame DEF vars
  <2>2. QED BY <2>1 DEF TargetIsAcked, Faithful, Identity
<1>5. CASE FrontEnd \/ Finish \/ (Controller /\ ~Revalidate)
  <2>1. pc' \notin ServicePhase
    <3>1. CASE FrontEnd \/ Finish
      BY <3>1, FrontEndFrame, FinishFrame DEF ServicePhase
    <3>2. CASE Controller /\ ~Revalidate
      BY <3>2 DEF Controller, Rehash, PlanAnnotate, PlanInitial, PlanRefused,
         FreshList, FreshResolve, FreshAssign, FreshAnnotate, RevalidateRefused,
         Refuse, Go, ServicePhase
    <3>3. QED BY <1>5, <3>1, <3>2
  <2>2. QED BY <2>1 DEF TargetIsAcked
<1>6. QED BY NextSplit, <1>1, <1>2, <1>3, <1>4, <1>5

(* The path given to the write services denotes the drive that the final   *)
(* scan saw behind it, which is acknowledged hardware.                     *)
LEMMA TargetDenotesDrive ==
    ASSUME TypeOK, TargetIsAcked, pc \in ServicePhase, ~raced,
           touched \cap OpenWindow = {}, NEW n \in Denotes(WritePath(target))
    PROVE  plugged[n] = target.drive /\ TrueIdentity(target.drive) = acked
<1>1. Faithful(target) /\ Identity(target) = acked /\ target \in Device
  BY DEF TargetIsAcked, TypeOK
<1>2. "listed" \notin touched
  BY DEF OpenWindow, PostScan
<1>3. target.stable = OwnLink(target.drive)
  BY <1>1, <1>2 DEF Faithful
<1>4. Identity(target) = TrueIdentity(target.drive)
  BY <1>3 DEF Identity, TrueIdentity
<1>5. CASE target.stable = None
  <2>1. plugged[target.node] = target.drive
    BY <1>5, <1>1 DEF Faithful, OpenWindow
  <2>2. n = target.node
    BY <1>5 DEF WritePath, Denotes
  <2>3. QED BY <2>1, <2>2, <1>1, <1>4
<1>6. CASE target.stable # None
  <2>1. target.stable = target.drive
    BY <1>6, <1>3 DEF OwnLink
  <2>2. target.stable \notin Node
    BY <1>1, <1>6, NamesAssumption, DrivesAssumption DEF Device
  <2>3. QED BY <1>6, <2>1, <2>2, <1>1, <1>4 DEF WritePath, Denotes
<1>7. QED BY <1>5, <1>6

LEMMA LocatedIsAckedStep ==
    ASSUME TypeOK, TargetIsAcked, LocatedIsAcked, [Next]_vars PROVE LocatedIsAcked'
<1>1. CASE FindTargetPartition
  <2>1. /\ pc \in ServicePhase /\ node' \in Denotes(WritePath(target))
        /\ UNCHANGED <<plugged, target, touched, raced, acked>>
    BY <1>1 DEF FindTargetPartition, Go, OperationRest, hardware, ServicePhase
  <2>2. ~raced /\ touched \cap OpenWindow = {} => TrueIdentity(plugged[node']) = acked
    BY <2>1, TargetDenotesDrive
  <2>3. OpenWindow' = OpenWindow
    BY <2>1 DEF OpenWindow
  <2>4. QED BY <2>1, <2>2, <2>3 DEF LocatedIsAcked, TrueIdentity, OwnLink
<1>2. CASE Hardware
  <2>1. pc = "located" => "located" \in touched' \cap OpenWindow'
    BY <1>2, HardwareFrame DEF Watched, Phase, OpenWindow, PostScan
  <2>2. pc' = pc
    BY <1>2, HardwareFrame
  <2>3. QED BY <2>1, <2>2 DEF LocatedIsAcked
<1>3. CASE Background \/ Choices \/ UNCHANGED vars
  <2>1. /\ UNCHANGED <<target, acked, pc, plugged, touched, node>>
        /\ raced => raced'
    BY <1>3, BackgroundFrame, BackgroundRaces, ChoicesFrame DEF vars
  <2>2. OpenWindow' = OpenWindow
    BY <2>1 DEF OpenWindow
  <2>3. QED BY <2>1, <2>2 DEF LocatedIsAcked, TrueIdentity, OwnLink
<1>4. CASE \/ FrontEnd \/ Finish \/ Controller
           \/ Services /\ ~FindTargetPartition
  <2>1. pc' # "located"
    <3>1. CASE FrontEnd \/ Finish \/ Controller
      BY <3>1, FrontEndFrame, FinishFrame, ControllerFrame
    <3>2. CASE Services /\ ~FindTargetPartition
      BY <3>2 DEF Services, PrepareTarget, WriteDisk, CompareDevices, AttachImage,
         FindSourcePartition, CopyPartition, ServiceFails, Refuse, Go
    <3>3. QED BY <1>4, <3>1, <3>2
  <2>2. QED BY <2>1 DEF LocatedIsAcked
<1>5. QED BY NextSplit, <1>1, <1>2, <1>3, <1>4

LEMMA ConfirmedOrRacedStep ==
    ASSUME TypeOK, NothingWrittenYet, TargetIsAcked, LocatedIsAcked,
           ConfirmedOrRaced, [Next]_vars
    PROVE  ConfirmedOrRaced'
<1>1. CASE WriteDisk
  <2>1. /\ pc \in ServicePhase
        /\ UNCHANGED <<plugged, target, touched, raced, acked>>
        /\ \E n \in Denotes(WritePath(target)) : written' = plugged[n]
    BY <1>1 DEF WriteDisk, Go, OperationRest, hardware, ServicePhase
  <2>2. ~raced /\ touched \cap OpenWindow = {} => TrueIdentity(written') = acked
    BY <2>1, TargetDenotesDrive
  <2>3. OpenWindow' = OpenWindow
    BY <2>1 DEF OpenWindow
  <2>4. QED
    BY <2>1, <2>2, <2>3 DEF ConfirmedOrRaced, WroteOther, TrueIdentity, OwnLink
<1>2. CASE CopyPartition
  <2>1. /\ pc = "located" /\ written' = plugged[node]
        /\ UNCHANGED <<target, touched, raced, acked>>
    BY <1>2 DEF CopyPartition, Go, OperationRest
  <2>2. ~raced /\ touched \cap OpenWindow = {} => TrueIdentity(written') = acked
    BY <2>1 DEF LocatedIsAcked
  <2>3. OpenWindow' = OpenWindow
    BY <2>1 DEF OpenWindow
  <2>4. QED
    BY <2>1, <2>2, <2>3 DEF ConfirmedOrRaced, WroteOther, TrueIdentity, OwnLink
<1>3. CASE ~WriteDisk /\ ~CopyPartition
  <2>1. CASE written' = None
    BY <2>1 DEF ConfirmedOrRaced, WroteOther
  <2>2. CASE written' # None
    <3>1. pc = "done" /\ ~Services
      <4>1. CASE Services
        <5>1. written = None
          BY <4>1, ServicesFrame DEF NothingWrittenYet, ServicePhase
        <5>2. written' = written
          BY <4>1, <1>3 DEF Services, PrepareTarget, CompareDevices, AttachImage,
             FindSourcePartition, FindTargetPartition, ServiceFails, Refuse, Go,
             services
        <5>3. QED BY <5>1, <5>2, <2>2
      <4>2. CASE ~Services
        <5>1. written' \in {written, None}
          BY <4>2, NextSplit, HardwareFrame, BackgroundFrame, ChoicesFrame,
             FrontEndFrame, ControllerFrame, FinishFrame DEF vars
        <5>2. QED BY <5>1, <2>2, <4>2 DEF NothingWrittenYet
      <4>3. QED BY <4>1, <4>2
    <3>2. ~Finish
      BY <2>2, FinishFrame
    <3>3. UNCHANGED <<written, touched, target, acked>> /\ (raced => raced')
      BY <3>1, <3>2, NextSplit, HardwareFrame, BackgroundFrame, BackgroundRaces,
         ChoicesFrame, FrontEndFrame, ControllerFrame DEF vars, Watched
    <3>4. OpenWindow' = OpenWindow
      BY <3>3 DEF OpenWindow
    <3>5. QED BY <3>3, <3>4 DEF ConfirmedOrRaced, WroteOther, TrueIdentity, OwnLink
  <2>3. QED BY <2>1, <2>2
<1>4. QED BY <1>1, <1>2, <1>3

-----------------------------------------------------------------------------
AckInv == /\ Injective /\ NothingWrittenYet /\ EntriesUnique /\ ListShowsAcked
          /\ InitialIsAcked /\ ScanFaithful /\ TargetIsAcked /\ LocatedIsAcked
          /\ ConfirmedOrRaced

LEMMA InitAck == Init => AckInv
<1> SUFFICES ASSUME Init PROVE AckInv
  OBVIOUS
<1>1. UniqueEntries({}) /\ \A r \in Refresher : refresh[r].list = {}
  BY DEF UniqueEntries, Init
<1>2. EntriesUnique
  BY <1>1 DEF Init, EntriesUnique
<1>3. QED
  BY <1>2 DEF Init, AckInv, Injective, NothingWrittenYet, ListShowsAcked,
     InitialIsAcked, ScanFaithful, TargetIsAcked, ServicePhase, LocatedIsAcked,
     ConfirmedOrRaced, WroteOther

LEMMA AckStep == ASSUME TypeOK, AckInv, [Next]_vars PROVE AckInv'
BY InjectiveStep, NothingWrittenStep, EntriesUniqueStep, ListShowsAckedStep,
   InitialIsAckedStep, ScanFaithfulStep, TargetIsAckedStep, LocatedIsAckedStep,
   ConfirmedOrRacedStep
   DEF AckInv

(* The GUI writes the hardware of the confirmation dialog unless a swap    *)
(* falls into the open window or a background scan replaced the list the   *)
(* operation relied on: for any number of scans, drives and swaps.         *)
THEOREM GuiConfirmedOrRaced == GuiSpec => []ConfirmedOrRaced
<1>1. TypeOK /\ AckInv /\ [GuiNext]_vars => AckInv'
  BY AckStep DEF Next
<1>2. AckInv => ConfirmedOrRaced
  BY DEF AckInv
<1>3. QED BY <1>1, <1>2, InitAck, GuiTypeCorrect, PTL DEF GuiSpec

(* The command line has no background scans.                               *)
LEMMA CliNotRaced == CliSpec => []~raced
<1>1. Init => ~raced
  BY DEF Init
<1>2. ASSUME ~raced, [CliNext]_vars PROVE ~raced'
  <2>1. CASE Hardware
    BY <1>2, <2>1, HardwareFrame
  <2>2. CASE ~Hardware
    BY <1>2, <2>2 DEF CliNext, CliChoices, SetSourceMode, SetAttachedLiveSource,
       ChoiceRest, Controller, Rehash, PlanAnnotate, PlanInitial, PlanRefused,
       FreshList, FreshResolve, FreshAssign, FreshAnnotate, Revalidate,
       RevalidateRefused, Services, PrepareTarget, WriteDisk, CompareDevices,
       AttachImage, FindSourcePartition, FindTargetPartition, CopyPartition,
       ServiceFails, CliScan, CliDiscover, CliAcknowledge, CliRefuse, CliExit,
       Clear, Refuse, Go, OperationRest, vars
  <2>3. QED BY <2>1, <2>2
<1>3. QED BY <1>1, <1>2, PTL DEF CliSpec

(* The command line writes the hardware whose token the operator typed     *)
(* unless a swap falls into the open window.                               *)
THEOREM CliSameHardwareAsConfirmed == CliSpec => []SameHardwareAsConfirmed
<1>1. TypeOK /\ AckInv /\ [CliNext]_vars => AckInv'
  BY AckStep DEF Next
<1>2. AckInv /\ ~raced => SameHardwareAsConfirmed
  BY DEF AckInv, ConfirmedOrRaced, SameHardwareAsConfirmed
<1>3. QED BY <1>1, <1>2, InitAck, CliTypeCorrect, CliNotRaced, PTL DEF CliSpec

-----------------------------------------------------------------------------
(***************************************************************************)
(* The attached live source is not written when it was named by its kernel *)
(* node.  Its drive stays behind that node, so the final scan lists it     *)
(* there and nowhere else; the annotation of that scan flags the node, so  *)
(* the plan accepts another drive; and the services write that one.  Of a  *)
(* by-id name only the last step would hold.                               *)
(***************************************************************************)

\* The live source was named by the kernel node n, which was not replugged.
SourceAt(n) == ~moved /\ attached \in {"disk", "part"} \X {n}

Spared(d) == \A n \in Node : SourceAt(n) => d # validated

\* In a list the source is at its node, and there it is flagged.
Placed(d) == \A n \in Node : SourceAt(n) /\ d.drive = validated => d.node = n
Marked(d) == \A n \in Node : SourceAt(n) /\ d.node = n => d.flagged

SourceInPlace ==
    /\ attached = None => validated = None
    /\ \A n \in Node : SourceAt(n) => plugged[n] = validated /\ validated \in Drive

ScanPlaced ==
    /\ pc \in {"listed", "resolved"} => \A d \in list : Placed(d)
    /\ pc \in {"assigned", "annotated"} /\ ~raced => \A d \in devices : Placed(d)
    /\ pc = "annotated" /\ ~raced => \A d \in devices : Marked(d)

TargetSpared == pc \in ServicePhase /\ ~raced => Spared(target.drive)

LocatedSpared ==
    pc = "located" /\ ~raced /\ touched \cap OpenWindow = {} => Spared(plugged[node])

SourceInv == SourceInPlace /\ ScanPlaced /\ TargetSpared /\ LocatedSpared
             /\ KernelNamedSourceSpared

LEMMA NotAPlace ==
    ASSUME NEW n \in Node PROVE None \notin {"disk", "part"} \X {n}
<1>1. {"disk", "part"} \X {n} \subseteq Path
  BY DEF Path
<1> QED  BY <1>1, NamesAssumption

LEMMA InitSource == Init => SourceInv
<1> SUFFICES ASSUME Init PROVE SourceInv
  OBVIOUS
<1>1. SourceInPlace
  BY NotAPlace DEF Init, SourceInPlace, SourceAt
<1> QED
  BY <1>1 DEF Init, SourceInv, ScanPlaced, TargetSpared, LocatedSpared, ServicePhase,
     KernelNamedSourceSpared

\* Where the source is named changes only between operations, and its node
\* being replugged is not forgotten during one.
LEMMA SourceFrame ==
    ASSUME [Next]_vars, ~Choices, ~Finish
    PROVE  /\ UNCHANGED <<attached, validated, running>> /\ (moved => moved')
           /\ \A n \in Node : SourceAt(n)' => SourceAt(n)
<1>1. UNCHANGED <<attached, validated, running>> /\ (moved => moved')
  <2>1. CASE Hardware
    BY <2>1 DEF Hardware, Unplug, Plug, Swap, choice
  <2>2. CASE Background
    BY <2>2 DEF Background, SyncDevices, RefreshStep, RefreshSubmit, RefreshList,
       RefreshResolve, RefreshAssign, RefreshAnnotate, RefreshRest, choice
  <2>3. CASE FrontEnd
    BY <2>3 DEF FrontEnd, AskPlan, ShowDialog, NoDialog, Confirm, Decline, CliScan,
       CliDiscover, CliAcknowledge, CliRefuse, Refuse, Go, OperationRest, choice
  <2>4. CASE Controller
    BY <2>4 DEF Controller, Rehash, PlanAnnotate, PlanInitial, PlanRefused, FreshList,
       FreshResolve, FreshAssign, FreshAnnotate, Revalidate, RevalidateRefused,
       Refuse, Go, OperationRest, choice
  <2>5. CASE Services
    BY <2>5 DEF Services, PrepareTarget, WriteDisk, CompareDevices, AttachImage,
       FindSourcePartition, FindTargetPartition, CopyPartition, ServiceFails,
       Refuse, Go, OperationRest, choice
  <2>6. CASE UNCHANGED vars
    BY <2>6 DEF vars
  <2> QED  BY <2>1, <2>2, <2>3, <2>4, <2>5, <2>6, NextSplit
<1> QED  BY <1>1 DEF SourceAt

\* Nothing that holds of a drive or of an entry is lost while the source
\* stays where it was named.
LEMMA SourceKept ==
    ASSUME [Next]_vars, ~Choices, ~Finish
    PROVE  /\ \A d : Spared(d) => (\A n \in Node : SourceAt(n)' => d # validated')
           /\ \A d : Placed(d) =>
                 (\A n \in Node : SourceAt(n)' /\ d.drive = validated' => d.node = n)
           /\ \A d : Marked(d) =>
                 (\A n \in Node : SourceAt(n)' /\ d.node = n => d.flagged)
BY SourceFrame DEF Spared, Placed, Marked

LEMMA SourceInPlaceStep ==
    ASSUME TypeOK, SourceInPlace, [Next]_vars PROVE SourceInPlace'
<1>1. CASE Hardware
  <2>1. PICK m \in Node, d \in Drive \cup {None} : Swap(m, d)
    BY <1>1 DEF Hardware, Unplug, Plug
  <2>2. /\ plugged' = [plugged EXCEPT ![m] = d] /\ UNCHANGED <<attached, validated>>
        /\ moved' = (moved \/ attached \in {"disk", "part"} \X {m})
    BY <2>1 DEF Swap, choice
  <2>3. ASSUME NEW n \in Node, SourceAt(n)'
        PROVE  SourceAt(n) /\ plugged'[n] = plugged[n]
    BY <2>2, <2>3 DEF SourceAt, TypeOK
  <2> QED  BY <2>2, <2>3 DEF SourceInPlace
<1>2. CASE Choices
  <2>1. plugged' = plugged
    BY <1>2, ChoicesFrame
  <2>2. CASE \E m \in Mode : SetSourceMode(m)
    BY <2>1, <2>2 DEF SetSourceMode, SourceInPlace, SourceAt
  <2>3. CASE \E p \in SourcePaths : SetAttachedLiveSource(p)
    <3>1. PICK p \in SourcePaths, m \in Node :
             /\ plugged[m] \in Tails /\ p[2] \in {m, plugged[m]}
             /\ validated' = plugged[m] /\ attached' = p
      BY <2>3 DEF SetAttachedLiveSource
    <3>2. p # None /\ plugged[m] \in Drive
      BY <3>1, NamesAssumption, DrivesAssumption, EnvironmentAssumption
    <3>3. ASSUME NEW n \in Node, SourceAt(n)' PROVE n = m
      <4>1. p[2] = n
        BY <3>1, <3>3 DEF SourceAt
      <4> QED  BY <4>1, <3>1, <3>2, NamesAssumption
    <3> QED  BY <2>1, <3>1, <3>2, <3>3 DEF SourceInPlace
  <2>4. (\E m \in Mode : SetSourceMode(m)) \/ \E p \in SourcePaths : SetAttachedLiveSource(p)
    BY <1>2 DEF Choices, GuiChoices, CliChoices, Mode
  <2> QED  BY <2>2, <2>3, <2>4
<1>3. CASE Finish
  <2>1. CASE GuiFinish
    BY <2>1 DEF GuiFinish, Clear, hardware, choice, SourceInPlace, SourceAt
  <2>2. CASE CliExit
    BY <2>2, NotAPlace DEF CliExit, SourceInPlace, SourceAt
  <2> QED  BY <1>3, <2>1, <2>2 DEF Finish
<1>4. CASE ~Hardware /\ ~Choices /\ ~Finish
  <2>1. UNCHANGED plugged
    BY <1>4, NextSplit, BackgroundFrame, FrontEndFrame, ControllerFrame, ServicesFrame
       DEF vars
  <2> QED  BY <2>1, <1>4, SourceFrame DEF SourceInPlace
<1> QED  BY <1>1, <1>2, <1>3, <1>4

\* The final scan lists the source at its node, and the annotation flags it.
LEMMA SnapshotPlaced ==
    ASSUME Injective, SourceInPlace, NEW e \in Snapshot PROVE Placed(e)
<1> SUFFICES ASSUME NEW n \in Node, SourceAt(n), e.drive = validated PROVE e.node = n
  BY DEF Placed
<1>1. plugged[n] = validated /\ validated # None
  BY NamesAssumption DEF SourceInPlace
<1>2. e.node \in Node /\ plugged[e.node] = e.drive
  BY SnapshotEntry
<1> QED  BY <1>1, <1>2 DEF Injective

LEMMA AnnotatedPlaced ==
    ASSUME NEW l \in SUBSET Device, \A d \in l : Placed(d)
    PROVE  \A e \in Annotated(l) : Placed(e)
BY AnnotatedEntry DEF Placed

LEMMA AnnotatedMarked ==
    ASSUME NEW l \in SUBSET Device PROVE \A e \in Annotated(l) : Marked(e)
<1> SUFFICES ASSUME NEW e \in Annotated(l), NEW n \in Node, SourceAt(n), e.node = n
             PROVE  e.flagged
  BY DEF Marked
<1>1. PICK d \in l : e = [d EXCEPT !.flagged = IsLiveSource(d.node)] /\ e.node = d.node
  BY AnnotatedEntry
<1>2. d \in Device
  OBVIOUS
<1>3. e.flagged = IsLiveSource(d.node)
  BY <1>1, <1>2 DEF Device
<1>4. attached = <<"disk", n>> \/ attached = <<"part", n>>
  BY DEF SourceAt
<1>5. Parent(attached) = <<"disk", n>>
  <2>1. CASE attached = <<"disk", n>>
    BY <2>1 DEF Parent
  <2>2. CASE attached = <<"part", n>>
    BY <2>2 DEF Parent
  <2> QED  BY <1>4, <2>1, <2>2
<1> QED  BY <1>1, <1>3, <1>5 DEF IsLiveSource

LEMMA ScanPlacedStep ==
    ASSUME TypeOK, Injective, SourceInPlace, ScanPlaced, [Next]_vars PROVE ScanPlaced'
<1>t. devices \in SUBSET Device /\ list \in SUBSET Device
  BY DEF TypeOK
<1>1. CASE Choices \/ FrontEnd \/ Services \/ Finish
  <2>1. pc' \notin {"listed", "resolved", "assigned", "annotated"}
    BY <1>1, ChoicesFrame, FrontEndFrame, ServicesFrame, FinishFrame DEF ServicePhase
  <2> QED  BY <2>1 DEF ScanPlaced
<1>2. CASE ~(Choices \/ FrontEnd \/ Services \/ Finish)
  <2>k. /\ \A d : Placed(d) => Placed(d)'
        /\ \A d : Marked(d) => Marked(d)'
    BY <1>2, SourceKept DEF Placed, Marked
  <2>1. CASE FreshList
    <3>1. CASE pc' = "listed"
      <4>1. list' = Snapshot
        BY <2>1, <3>1 DEF FreshList, Refuse, Go
      <4>2. \A d \in Snapshot : Placed(d)
        BY SnapshotPlaced
      <4> QED  BY <3>1, <4>1, <4>2, <2>k DEF ScanPlaced
    <3>2. CASE pc' = "done"
      BY <3>2 DEF ScanPlaced
    <3> QED  BY <2>1, <3>1, <3>2 DEF FreshList, Refuse, Go
  <2>2. CASE FreshResolve
    <3>1. /\ pc = "listed" /\ pc' = "resolved" /\ list' = WithStablePaths(list)
      BY <2>2 DEF FreshResolve, Go
    <3>2. \A e \in WithStablePaths(list) : Placed(e)
      BY <1>t, <3>1, ResolvedEntry DEF ScanPlaced, Placed
    <3> QED  BY <3>1, <3>2, <2>k DEF ScanPlaced
  <2>3. CASE FreshAssign
    <3>1. pc = "resolved" /\ pc' = "assigned" /\ devices' = list
      BY <2>3 DEF FreshAssign, Go
    <3> QED  BY <3>1, <2>k DEF ScanPlaced
  <2>4. CASE FreshAnnotate
    <3>1. /\ pc = "assigned" /\ pc' = "annotated"
          /\ devices' = Annotated(devices) /\ raced' = raced
      BY <2>4 DEF FreshAnnotate, Go, OperationRest
    <3>2. \A e \in Annotated(devices) : Marked(e)
      BY <1>t, AnnotatedMarked
    <3>3. ~raced => \A e \in Annotated(devices) : Placed(e)
      BY <1>t, <3>1, AnnotatedPlaced DEF ScanPlaced
    <3> QED  BY <3>1, <3>2, <3>3, <2>k DEF ScanPlaced
  <2>5. CASE Controller /\ ~FreshList /\ ~FreshResolve /\ ~FreshAssign /\ ~FreshAnnotate
    <3>1. pc' \notin {"listed", "resolved", "assigned", "annotated"}
      BY <2>5 DEF Controller, Rehash, PlanAnnotate, PlanInitial, PlanRefused,
         Revalidate, RevalidateRefused, Refuse, Go
    <3> QED  BY <3>1 DEF ScanPlaced
  <2>6. CASE Background
    <3>1. UNCHANGED <<list, pc>>
      BY <2>6, BackgroundFrame
    <3>2. CASE ~raced' /\ pc \in {"assigned", "annotated"}
      <4>1. ~raced /\ devices' \in {devices, Annotated(devices)}
        BY <2>6, <3>2, BackgroundRaces DEF Exposed
      <4>2. \A e \in devices' : Placed(e)
        BY <1>t, <3>2, <4>1, AnnotatedPlaced DEF ScanPlaced
      <4>3. pc = "annotated" => \A e \in devices' : Marked(e)
        BY <1>t, <4>1, AnnotatedMarked DEF ScanPlaced
      <4> QED  BY <3>1, <3>2, <4>2, <4>3, <2>k DEF ScanPlaced
    <3>3. CASE raced' \/ pc \notin {"assigned", "annotated"}
      BY <3>1, <3>3, <2>k DEF ScanPlaced
    <3> QED  BY <3>2, <3>3
  <2>7. CASE Hardware \/ UNCHANGED vars
    <3>1. UNCHANGED <<list, devices, pc, raced>>
      BY <2>7, HardwareFrame DEF vars
    <3> QED  BY <3>1, <2>k DEF ScanPlaced
  <2> QED  BY <1>2, NextSplit, <2>1, <2>2, <2>3, <2>4, <2>5, <2>6, <2>7
<1> QED  BY <1>1, <1>2

\* The fresh plan accepts no flagged target, so it is another drive.
LEMMA TargetSparedStep ==
    ASSUME TypeOK, SourceInPlace, ScanPlaced, TargetSpared, [Next]_vars
    PROVE  TargetSpared'
<1>1. CASE Revalidate
  <2>1. /\ pc = "annotated" /\ raced' = raced
        /\ \E d \in Found(devices, path) : ~Blocked(d) /\ target' = d
    BY <1>1 DEF Revalidate, Go, OperationRest
  <2>2. PICK d \in devices : ~d.flagged /\ target' = d
    BY <2>1 DEF Blocked, Found
  <2>3. ~raced => Spared(d.drive)
    BY <2>1, <2>2 DEF ScanPlaced, Placed, Marked, Spared
  <2>4. ~Choices /\ ~Finish
    BY <2>1, ChoicesFrame DEF Finish, GuiFinish, CliExit, Clear
  <2>5. Spared(d.drive) => Spared(d.drive)'
    BY <2>4, SourceKept DEF Spared
  <2> QED  BY <2>1, <2>2, <2>3, <2>5 DEF TargetSpared, Spared
<1>2. CASE FrontEnd \/ Finish \/ Choices \/ (Controller /\ ~Revalidate) \/ pc' = "done"
  <2>1. pc' \notin ServicePhase
    <3>1. CASE FrontEnd \/ Finish \/ Choices \/ pc' = "done"
      BY <3>1, FrontEndFrame, FinishFrame, ChoicesFrame DEF ServicePhase
    <3>2. CASE Controller /\ ~Revalidate
      BY <3>2 DEF Controller, Rehash, PlanAnnotate, PlanInitial, PlanRefused,
         FreshList, FreshResolve, FreshAssign, FreshAnnotate, RevalidateRefused,
         Refuse, Go, ServicePhase
    <3> QED  BY <1>2, <3>1, <3>2
  <2> QED  BY <2>1 DEF TargetSpared
<1>3. CASE /\ Hardware \/ Background \/ Services \/ UNCHANGED vars
           /\ ~Choices /\ ~Finish /\ pc' # "done"
  <2>1. target' = target /\ (pc' \in ServicePhase => pc \in ServicePhase)
    BY <1>3, HardwareFrame, BackgroundFrame, ServicesFrame, ServicesKeepTarget DEF vars
  <2>2. raced => raced'
    BY <1>3, HardwareFrame, BackgroundRaces, ServicesFrame DEF vars
  <2>3. Spared(target.drive) => (\A n \in Node : SourceAt(n)' => target.drive # validated')
    BY <1>3, SourceKept
  <2> QED  BY <2>1, <2>2, <2>3 DEF TargetSpared, Spared
<1> QED  BY <1>1, <1>2, <1>3, NextSplit

LEMMA LocatedSparedStep ==
    ASSUME TypeOK, TargetIsAcked, TargetSpared, LocatedSpared, [Next]_vars
    PROVE  LocatedSpared'
<1>1. CASE FindTargetPartition
  <2>1. /\ pc \in ServicePhase /\ node' \in Denotes(WritePath(target))
        /\ UNCHANGED <<plugged, target, touched, raced>> /\ ~Choices /\ ~Finish
    BY <1>1, ChoicesFrame DEF FindTargetPartition, Go, OperationRest, hardware,
       ServicePhase, Finish, GuiFinish, CliExit, Clear
  <2>2. ~raced /\ touched \cap OpenWindow = {} => plugged[node'] = target.drive
    BY <2>1, TargetDenotesDrive
  <2>3. OpenWindow' = OpenWindow
    BY <2>1 DEF OpenWindow
  <2>4. Spared(target.drive) => (\A n \in Node : SourceAt(n)' => target.drive # validated')
    BY <2>1, SourceKept
  <2> QED  BY <2>1, <2>2, <2>3, <2>4 DEF LocatedSpared, TargetSpared, Spared
<1>2. CASE Hardware
  <2>1. pc = "located" => "located" \in touched' \cap OpenWindow'
    BY <1>2, HardwareFrame DEF Watched, Phase, OpenWindow, PostScan
  <2>2. pc' = pc
    BY <1>2, HardwareFrame
  <2> QED  BY <2>1, <2>2 DEF LocatedSpared
<1>3. CASE /\ Background \/ UNCHANGED vars
           /\ ~Choices /\ ~Finish
  <2>1. /\ UNCHANGED <<target, pc, plugged, touched, node>>
        /\ raced => raced'
    BY <1>3, BackgroundFrame, BackgroundRaces DEF vars
  <2>2. OpenWindow' = OpenWindow
    BY <2>1 DEF OpenWindow
  <2>3. Spared(plugged[node]) =>
           (\A n \in Node : SourceAt(n)' => plugged[node] # validated')
    BY <1>3, SourceKept
  <2> QED  BY <2>1, <2>2, <2>3 DEF LocatedSpared, Spared
<1>4. CASE \/ FrontEnd \/ Finish \/ Controller \/ Choices
           \/ Services /\ ~FindTargetPartition
  <2>1. pc' # "located"
    <3>1. CASE FrontEnd \/ Finish \/ Controller \/ Choices
      BY <3>1, FrontEndFrame, FinishFrame, ControllerFrame, ChoicesFrame
    <3>2. CASE Services /\ ~FindTargetPartition
      BY <3>2 DEF Services, PrepareTarget, WriteDisk, CompareDevices, AttachImage,
         FindSourcePartition, CopyPartition, ServiceFails, Refuse, Go
    <3> QED  BY <1>4, <3>1, <3>2
  <2> QED  BY <2>1 DEF LocatedSpared
<1> QED  BY NextSplit, <1>1, <1>2, <1>3, <1>4

LEMMA KernelNamedStep ==
    ASSUME TypeOK, NothingWrittenYet, TargetIsAcked, SourceInv, [Next]_vars
    PROVE  KernelNamedSourceSpared'
<1> DEFINE Free == ~raced /\ touched \cap OpenWindow = {}
<1>0. SourceInPlace /\ TargetSpared /\ LocatedSpared /\ KernelNamedSourceSpared
  BY DEF SourceInv
\* A source that is not named by its node is not attached, or by a link.
<1>n. ~(\E n \in Node : SourceAt(n)) =>
         moved \/ validated = None \/ attached \in {"byid", "byid-part"} \X Drive
  <2>1. attached \in Path \cup {None}
    BY DEF TypeOK, PathOrNone
  <2>2. HasById \subseteq Drive
    BY DrivesAssumption
  <2> QED  BY <2>1, <2>2, <1>0 DEF SourceInPlace, SourceAt, Path
<1>1. CASE WriteDisk \/ CopyPartition
  <2>1. /\ pc \in ServicePhase /\ pc' = "done"
        /\ UNCHANGED <<target, touched, raced, attached, validated, moved>>
    BY <1>1 DEF WriteDisk, CopyPartition, Go, OperationRest, choice, ServicePhase
  <2>2. Free => Spared(written')
    <3>1. CASE WriteDisk
      <4>1. \E n \in Denotes(WritePath(target)) : written' = plugged[n]
        BY <3>1 DEF WriteDisk
      <4>2. Free => written' = target.drive
        BY <2>1, <4>1, TargetDenotesDrive
      <4> QED  BY <4>2, <1>0, <2>1 DEF TargetSpared
    <3>2. CASE CopyPartition
      BY <3>2, <1>0 DEF CopyPartition, Go, LocatedSpared
    <3> QED  BY <1>1, <3>1, <3>2
  <2>3. OpenWindow' = OpenWindow
    BY <2>1 DEF OpenWindow
  <2>4. Free /\ written' # None /\ written' = validated =>
           moved \/ attached \in {"byid", "byid-part"} \X Drive
    BY <2>2, <1>n DEF Spared
  <2> QED  BY <2>1, <2>3, <2>4 DEF KernelNamedSourceSpared, SourceDisturbed
<1>2. CASE ~WriteDisk /\ ~CopyPartition
  <2>1. CASE written' = None
    BY <2>1 DEF KernelNamedSourceSpared
  <2>2. CASE written' # None
    <3>1. pc = "done" /\ ~Services
      <4>1. CASE Services
        <5>1. written = None
          BY <4>1, ServicesFrame DEF NothingWrittenYet, ServicePhase
        <5>2. written' = written
          BY <4>1, <1>2 DEF Services, PrepareTarget, CompareDevices, AttachImage,
             FindSourcePartition, FindTargetPartition, ServiceFails, Refuse, Go,
             services
        <5> QED  BY <5>1, <5>2, <2>2
      <4>2. CASE ~Services
        <5>1. written' \in {written, None}
          BY <4>2, NextSplit, HardwareFrame, BackgroundFrame, ChoicesFrame,
             FrontEndFrame, ControllerFrame, FinishFrame DEF vars
        <5> QED  BY <5>1, <2>2, <4>2 DEF NothingWrittenYet
      <4> QED  BY <4>1, <4>2
    <3>2. ~Finish /\ ~Choices
      BY <2>2, <3>1, FinishFrame, ChoicesFrame
    <3>3. UNCHANGED <<written, touched, target>> /\ (raced => raced')
      BY <3>1, <3>2, NextSplit, HardwareFrame, BackgroundFrame, BackgroundRaces,
         FrontEndFrame, ControllerFrame DEF vars, Watched
    <3>4. OpenWindow' = OpenWindow
      BY <3>3 DEF OpenWindow
    <3>5. UNCHANGED <<attached, validated>> /\ (moved => moved')
      BY <3>2, SourceFrame
    <3> QED  BY <1>0, <3>3, <3>4, <3>5 DEF KernelNamedSourceSpared, SourceDisturbed
  <2> QED  BY <2>1, <2>2
<1> QED  BY <1>1, <1>2

LEMMA SourceStep ==
    ASSUME TypeOK, AckInv, SourceInv, [Next]_vars PROVE SourceInv'
<1>1. Injective /\ TargetIsAcked /\ NothingWrittenYet
  BY DEF AckInv
<1> QED
  BY <1>1, SourceInPlaceStep, ScanPlacedStep, TargetSparedStep, LocatedSparedStep,
     KernelNamedStep DEF SourceInv

(* The annotation by get_parent_disk_path keeps an attached live source    *)
(* that was given by its kernel name from being written, in the GUI with   *)
(* any number of background scans, of drives and of swaps, unless its node *)
(* was replugged, a scan came between two steps of the operation, or a     *)
(* swap fell into the open window.                                         *)
THEOREM GuiKernelNamedSourceSpared == GuiSpec => []KernelNamedSourceSpared
<1>1. TypeOK /\ AckInv /\ [GuiNext]_vars => AckInv'
  BY AckStep DEF Next
<1>2. TypeOK /\ AckInv /\ SourceInv /\ [GuiNext]_vars => SourceInv'
  BY SourceStep DEF Next
<1>3. SourceInv => KernelNamedSourceSpared
  BY DEF SourceInv
<1>4. QED BY <1>1, <1>2, <1>3, InitAck, InitSource, GuiTypeCorrect, PTL DEF GuiSpec

(* The same for the command line.                                          *)
THEOREM CliKernelNamedSourceSpared == CliSpec => []KernelNamedSourceSpared
<1>1. TypeOK /\ AckInv /\ [CliNext]_vars => AckInv'
  BY AckStep DEF Next
<1>2. TypeOK /\ AckInv /\ SourceInv /\ [CliNext]_vars => SourceInv'
  BY SourceStep DEF Next
<1>3. SourceInv => KernelNamedSourceSpared
  BY DEF SourceInv
<1>4. QED BY <1>1, <1>2, <1>3, InitAck, InitSource, CliTypeCorrect, PTL DEF CliSpec

-----------------------------------------------------------------------------
(***************************************************************************)
(* WriteBoundary implements ConfirmedWrite: every step of a front end, of  *)
(* the controller, of the write services and of the hardware is a step of  *)
(* the abstract operation, or leaves it alone.                             *)
(***************************************************************************)

(* Nothing is acknowledged before the operator was asked.                  *)
NotYetAcked == pc \in {"idle", "asked", "scanned", "named"} => acked = None

LEMMA NotYetAckedStep ==
    ASSUME TypeOK, NotYetAcked, [Next]_vars PROVE NotYetAcked'
<1> USE DEF NotYetAcked
<1>1. CASE FrontEnd
  BY <1>1 DEF FrontEnd, AskPlan, ShowDialog, NoDialog, Confirm, Decline, CliScan,
     CliDiscover, CliAcknowledge, CliRefuse, Refuse, Go
<1>2. CASE Finish
  BY <1>2 DEF Finish, GuiFinish, CliExit, Clear
<1>3. CASE Controller \/ Services
  BY <1>3, ControllerFrame, ServicesFrame DEF ServicePhase
<1>4. CASE Hardware \/ Background \/ Choices \/ UNCHANGED vars
  BY <1>4, HardwareFrame, BackgroundFrame, ChoicesFrame DEF vars
<1>5. QED BY NextSplit, <1>1, <1>2, <1>3, <1>4

-----------------------------------------------------------------------------
(* The hardware is the environment's: whatever it does is allowed.         *)
LEMMA AnyMoves == Diverted' \in BOOLEAN /\ Overtaken' \in BOOLEAN
BY DEF Diverted, Overtaken

LEMMA InitRefines == Init => Promised!Init
BY DEF Init, Promised!Init, Stage, Agreed, Diverted, Overtaken

(* The one step that writes: by then the checks have done their work, and  *)
(* the invariants of the state it leads to say so.                         *)
LEMMA WriteRefines ==
    ASSUME TypeOK, ConfirmedOrRaced', ProtectedSpared', WriteDisk \/ CopyPartition
    PROVE  Promised!Write
<1>1. /\ pc \in {"prepared", "located"} /\ pc' = "done"
      /\ UNCHANGED <<target, touched, raced, acked>>
  BY DEF WriteDisk, CopyPartition, Go, OperationRest
<1>2. Stage = "agreed" /\ Stage' = "over" /\ Agreed = acked /\ Agreed' = acked
  BY <1>1 DEF Stage, Agreed
<1>3. written' \in Drive
  <2>1. CASE WriteDisk
    BY <2>1 DEF WriteDisk, Denotes, TypeOK
  <2>2. CASE CopyPartition
    BY <2>2, <1>1 DEF CopyPartition, Go, TypeOK
  <2>3. QED BY <2>1, <2>2
<1>4. written' # None
  BY <1>3, NamesAssumption
<1>5. TrueIdentity(written') = acked \/ Diverted
  <2>1. OpenWindow' = OpenWindow
    BY <1>1 DEF OpenWindow
  <2>2. TrueIdentity(written)' = TrueIdentity(written')
    BY DEF TrueIdentity, OwnLink
  <2>3. QED
    BY <1>1, <1>4, <2>1, <2>2 DEF ConfirmedOrRaced, WroteOther, Diverted, ServicePhase
<1>6. written' \notin Protected \/ Overtaken
  BY <1>1 DEF ProtectedSpared, Overtaken
<1>7. QED
  BY <1>2, <1>3, <1>5, <1>6 DEF Promised!Write

LEMMA StepRefines ==
    ASSUME TypeOK, TypeOK', NotYetAcked, NothingWrittenYet, ConfirmedOrRaced',
           ProtectedSpared', [Next]_vars
    PROVE  Promised!Next
<1> USE DEF Stage, Agreed
<1>1. CASE WriteDisk \/ CopyPartition
  BY <1>1, WriteRefines, AnyMoves DEF Promised!Next
<1>2. CASE Services /\ ~WriteDisk /\ ~CopyPartition
  <2>1. /\ pc \in ServicePhase /\ pc' \in ServicePhase \cup {"done"}
        /\ acked' = acked
    BY <1>2, ServicesFrame
  <2>2. written' = written
    BY <1>2 DEF Services, PrepareTarget, CompareDevices, AttachImage,
       FindSourcePartition, FindTargetPartition, ServiceFails, Refuse, Go, services
  <2>3. CASE pc' = "done"
    BY <2>1, <2>2, <2>3, AnyMoves DEF ServicePhase, Promised!Next, Promised!Refuse
  <2>4. CASE pc' # "done"
    BY <2>1, <2>2, <2>4, AnyMoves DEF ServicePhase, Promised!Next, Promised!Rest
  <2>5. QED BY <2>3, <2>4
<1>3. CASE Controller
  <2>1. CASE pc' = "done"
    BY <1>3, <2>1, ControllerFrame, AnyMoves DEF Promised!Next, Promised!Refuse
  <2>2. CASE pc' # "done"
    BY <1>3, <2>2, ControllerFrame, AnyMoves DEF Promised!Next, Promised!Rest
  <2>3. QED BY <2>1, <2>2
<1>4. CASE FrontEnd
  <2>1. CASE pc' = "submitted"
    <3>1. acked' \in Identities
      BY DEF TypeOK, Identities, Identity
    <3>2. QED
      BY <1>4, <2>1, <3>1, FrontEndFrame, AnyMoves DEF Promised!Next, Promised!Agree
  <2>2. CASE pc' = "done"
    <3>1. pc = "named" /\ acked' = acked
      BY <1>4, <2>2 DEF FrontEnd, AskPlan, ShowDialog, NoDialog, Confirm, Decline,
         CliScan, CliDiscover, CliAcknowledge, CliRefuse, Refuse, Go
    <3>2. QED
      BY <1>4, <2>2, <3>1, FrontEndFrame, AnyMoves
         DEF NotYetAcked, Promised!Next, Promised!Refuse
  <2>3. CASE pc' \notin {"submitted", "done"}
    BY <1>4, <2>3, FrontEndFrame, AnyMoves DEF Promised!Next, Promised!Rest
  <2>4. QED BY <2>1, <2>2, <2>3
<1>5. CASE Finish
  <2>1. pc = "done"
    BY <1>5 DEF Finish, GuiFinish, CliExit, Clear
  <2>2. QED
    BY <1>5, <2>1, FinishFrame, AnyMoves DEF Promised!Next, Promised!Return
<1>6. CASE Hardware \/ Background \/ Choices \/ UNCHANGED vars
  <2>1. UNCHANGED <<pc, acked, written>>
    BY <1>6, HardwareFrame, BackgroundFrame, ChoicesFrame DEF vars, Background,
       SyncDevices, RefreshStep, RefreshSubmit, RefreshList, RefreshResolve,
       RefreshAssign, RefreshAnnotate, RefreshRest, services
  <2>2. QED BY <2>1, AnyMoves DEF Promised!Next, Promised!Rest
<1>7. QED BY NextSplit, <1>1, <1>2, <1>3, <1>4, <1>5, <1>6 DEF Services

-----------------------------------------------------------------------------
RefineInv == AckInv /\ ProtectedInv /\ NotYetAcked

LEMMA RefineInit == Init => RefineInv
BY InitAck, InitProtected DEF RefineInv, Init, NotYetAcked

LEMMA RefineStep == ASSUME TypeOK, RefineInv, [Next]_vars PROVE RefineInv'
BY AckStep, ProtectedStep, NotYetAckedStep DEF RefineInv

LEMMA InvariantRefines ==
    ASSUME TypeOK, TypeOK', RefineInv, RefineInv', [Next]_vars PROVE Promised!Next
BY StepRefines DEF RefineInv, AckInv, ProtectedInv

(* The command line keeps the promise: one write for one acknowledgement,  *)
(* to what was acknowledged, but for hardware that moves in the window.    *)
THEOREM CliWritesAsConfirmed == CliSpec => WritesAsConfirmed
<1>1. TypeOK /\ RefineInv /\ [CliNext]_vars => RefineInv'
  BY RefineStep DEF Next
<1>2. TypeOK /\ TypeOK' /\ RefineInv /\ RefineInv' /\ [CliNext]_vars => Promised!Next
  BY InvariantRefines DEF Next
<1>3. QED
  BY <1>1, <1>2, RefineInit, InitRefines, CliTypeCorrect, PTL
     DEF CliSpec, WritesAsConfirmed, Promised!Spec

(* The window keeps it too, but for what background scans bring in.        *)
THEOREM GuiWritesAsConfirmed == GuiSpec => WritesAsConfirmed
<1>1. TypeOK /\ RefineInv /\ [GuiNext]_vars => RefineInv'
  BY RefineStep DEF Next
<1>2. TypeOK /\ TypeOK' /\ RefineInv /\ RefineInv' /\ [GuiNext]_vars => Promised!Next
  BY InvariantRefines DEF Next
<1>3. QED
  BY <1>1, <1>2, RefineInit, InitRefines, GuiTypeCorrect, PTL
     DEF GuiSpec, WritesAsConfirmed, Promised!Spec
=============================================================================
