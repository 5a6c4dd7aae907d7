----------------------- MODULE WholeDiskInstallProofs -----------------------
(***************************************************************************)
(* What clone_image_to_device guarantees for every layout of a disk, every *)
(* use of it and any number of interventions of the desktop: dd begins on  *)
(* a disk out of use, and an error has its cause.  Then what boot_loader   *)
(* makes of the menus of the written drive, whatever they hold and         *)
(* whatever order is configured.                                           *)
(***************************************************************************)
EXTENDS WholeDiskInstall, BootOrder, FiniteSetTheorems, SequenceTheorems, TLAPS

Holds == {"fs", "swap", "luks", "pv"}
BeforeTable == {"start", "preparing", "writing", "written"}

\* What is in use is there, and of a kind that can be used.
ActiveInv ==
    /\ pc \in BeforeTable => content \in Images
    /\ \A p \in Place : active[p] => Exists(p) /\ content[p] \in Holds
    /\ nested # None =>
          active[nested[1]] /\ content[nested[1]] = "fs" /\ nested[1] # nested[2]

\* The commands are those of the inspection, and nothing else has moved.
TodoInv ==
    pc = "preparing" =>
        /\ seen # None /\ seen.content = content
        /\ nested # None => nested = seen.nested
        /\ \A c \in todo :
              /\ c.run = "swapoff" => content[c.at] = "swap"
              /\ c.run = "umount" => content[c.at] = "fs"
              /\ c.run = "close" => IsCrypt(c.at) /\ content[c.at] # "swap"

\* What is still in use has its command ahead, was stirred, or stays open.
CoverInv ==
    pc = "preparing" => \A p \in Place : active[p] =>
        p \in stirred \cup LeftOpen \/ \E c \in todo : Freed(c) = p

\* Without the desktop, what a command ahead takes out of use is in use.
AheadInv ==
    pc = "preparing" /\ stirred = {} => \A c \in todo :
        IF c.run = "swapoff" THEN seen.active[c.at] => active[c.at] ELSE active[Freed(c)]

\* Of the later phases, and of the end.
AfterInv ==
    /\ pc = "start" => stirred = {} /\ seen = None
    /\ pc \in {"writing", "written"} => \A p \in Place : active[p] => p \in stirred \cup LeftOpen
    /\ pc # "done" => result = "none"
    /\ pc \notin {"reorder", "release", "release-error", "done"} => scratch = "none"
    /\ QuietAtWrite /\ EndsForCause

DiskInv == TypeOK /\ ActiveInv /\ TodoInv /\ CoverInv /\ AheadInv /\ AfterInv

-----------------------------------------------------------------------------
(***************************************************************************)
(* The layout of a disk.                                                   *)
(***************************************************************************)

LEMMA Mappings ==
    ASSUME NEW q \in Mapped
    PROVE  q \in Place /\ q # Disk /\ Under[q] \in Place
  BY LayoutAssumption

LEMMA OneMapping ==
    ASSUME content \in Images, NEW q \in Mapped, NEW r \in Mapped, Under[q] = Under[r],
           content[Under[q]] = "luks"
    PROVE  q = r
<1>1. Under[q] \in Place
  BY Mappings
<1> QED  BY <1>1, LayoutAssumption

LEMMA Positions ==
    ASSUME NEW p \in Place
    PROVE  /\ Position(p) \in DOMAIN Layout /\ Position(p) \in Nat
           /\ Layout[Position(p)] = p
<1>1. \E i \in DOMAIN Layout : Layout[i] = p
  BY DEF Place, Range
<1>2. DOMAIN Layout \subseteq Nat
  BY LayoutAssumption
<1> QED  BY <1>1, <1>2 DEF Position

LEMMA InsideLater ==
    ASSUME NEW p \in Place, NEW q \in Place, Under[q] = p
    PROVE  ~ChildrenFirst(p, q)
<1>1. Position(p) < Position(q)
  BY Positions, LayoutAssumption
<1> QED  BY <1>1, Positions DEF ChildrenFirst

\* Only a container, or a table, has something inside.
LEMMA ContainerOf ==
    ASSUME NEW q \in Place, q # Disk, Exists(q)
    PROVE  /\ Under[q] \in Place
           /\ q \in Mapped => content[Under[q]] \in {"luks", "pv"} /\ active[Under[q]]
           /\ q \notin Mapped => content[Under[q]] = "table"
  BY LayoutAssumption DEF Exists

LEMMA FreedPlace ==
    ASSUME NEW c \in Command, c.run = "close" => IsCrypt(c.at)
    PROVE  Freed(c) \in Place
  BY Mappings DEF Command, Freed, IsCrypt

-----------------------------------------------------------------------------
(***************************************************************************)
(* What is switched off holds nothing in use.                              *)
(***************************************************************************)

\* Nothing in use lies on p.
Bare(p) == \A q \in Place : q # Disk /\ Under[q] = p => ~active[q]

LEMMA SwitchedOff ==
    ASSUME DiskInv, NEW p \in Place, Bare(p), active' = [active EXCEPT ![p] = FALSE],
           content' = content
    PROVE  \A q \in Place : active'[q] => active[q] /\ q # p /\ Exists(q)'
<1> SUFFICES ASSUME NEW q \in Place, active'[q]
             PROVE  active[q] /\ q # p /\ Exists(q)'
  OBVIOUS
<1>1. active[q] /\ q # p
  BY DEF DiskInv, TypeOK
<1>2. Exists(q)
  BY <1>1 DEF DiskInv, ActiveInv
<1>3. CASE q = Disk
  BY <1>1, <1>3 DEF Exists
<1>4. CASE q # Disk
  <2>1. Under[q] # p
    BY <1>1, <1>4 DEF Bare
  <2>2. Under[q] \in Place
    BY <1>2, <1>4, ContainerOf
  <2>3. active'[Under[q]] = active[Under[q]]
    BY <2>1, <2>2 DEF DiskInv, TypeOK
  <2> QED  BY <1>1, <1>2, <2>3 DEF Exists
<1> QED  BY <1>3, <1>4

LEMMA BareLeaf ==
    ASSUME DiskInv, NEW p \in Place, content[p] \in {"fs", "swap"}
    PROVE  Bare(p)
  BY ContainerOf DEF Bare, DiskInv, ActiveInv

LEMMA BareClosed ==
    ASSUME DiskInv, content \in Images, NEW q \in Place, IsCrypt(q), ~active[q]
    PROVE  Bare(Under[q])
<1> SUFFICES ASSUME NEW r \in Place, r # Disk, Under[r] = Under[q], active[r]
             PROVE  FALSE
  BY DEF Bare
<1>1. content[Under[r]] = "luks" /\ q \in Mapped
  BY DEF IsCrypt
<1>2. r \in Mapped
  BY <1>1, ContainerOf DEF DiskInv, ActiveInv
<1> QED  BY <1>1, <1>2, OneMapping

LEMMA BareQuiet ==
    ASSUME DiskInv, NEW p \in Place, Quiet(p)
    PROVE  Bare(p)
  BY DEF Bare, Quiet, DiskInv, ActiveInv

-----------------------------------------------------------------------------
LEMMA InitDisk == ASSUME Init PROVE DiskInv
<1>1. /\ content \in Images /\ active \in [Place -> BOOLEAN]
      /\ \A p \in Place : active[p] =>
            /\ content[p] \in Holds
            /\ Under[p] # None /\ p \in Mapped => active[Under[p]]
            /\ Under[p] # None /\ p \notin Mapped => content[Under[p]] = "table"
      /\ pc = "start" /\ todo = {} /\ scratch = "none" /\ result = "none" /\ events = 0
      /\ stirred = {} /\ seen = None /\ busy = {}
      /\ dd = FALSE /\ medium = "untouched"
  BY DEF Init, Holds
<1>2. /\ nested \in (Place \X Place) \cup {None} /\ system \in Place \cup {None}
      /\ nested # None =>
            content[nested[1]] = "fs" /\ InUse(nested[1]) /\ nested[1] # nested[2]
      /\ options \in BOOLEAN
  BY DEF Init
<1>3. content \in [Place -> Content]
  BY <1>1, LayoutAssumption
<1>4. TypeOK
  <2>1. dd \in BOOLEAN /\ scratch \in {"none", "mounted"} /\ todo \subseteq Command
    BY <1>1
  <2>2. events \in 0..MaxEvents
    BY <1>1, LayoutAssumption
  <2> QED  BY <1>1, <1>2, <1>3, <2>1, <2>2 DEF TypeOK
<1>5. ASSUME NEW p \in Place, active[p]
      PROVE  Exists(p)
  <2>1. SUFFICES ASSUME p # Disk
                 PROVE  IF p \in Mapped
                        THEN content[Under[p]] \in {"luks", "pv"} /\ active[Under[p]]
                        ELSE content[Under[p]] = "table"
    BY DEF Exists
  <2>2. Under[p] # None /\ content[p] # "none"
    BY <1>1, <1>5, <2>1, LayoutAssumption DEF Holds
  <2> QED  BY <1>1, <1>5, <2>1, <2>2, LayoutAssumption
<1>6. ActiveInv
  BY <1>1, <1>2, <1>5 DEF ActiveInv, InUse
<1>7. TodoInv /\ CoverInv /\ AheadInv /\ AfterInv
  BY <1>1 DEF TodoInv, CoverInv, AheadInv, AfterInv, QuietAtWrite, EndsForCause
<1> QED  BY <1>4, <1>6, <1>7 DEF DiskInv

-----------------------------------------------------------------------------
(***************************************************************************)
(* The desktop.                                                            *)
(***************************************************************************)

LEMMA DesktopMoves ==
    ASSUME DiskInv, NEW p \in Place, Desktop(p)
    PROVE  DiskInv'
<1>1. /\ pc # "done" /\ Exists(p) /\ content[p] \in {"fs", "swap", "luks"}
      /\ active[p] => Quiet(p)
      /\ active' = [active EXCEPT ![p] = ~@]
      /\ nested' = IF nested # None /\ p = nested[1] THEN None ELSE nested
      /\ stirred' = IF pc = "start" THEN {} ELSE stirred \cup {p}
      /\ UNCHANGED <<content, system, pc, todo, options, scratch, dd, medium, result, seen,
                     busy>>
      /\ events < MaxEvents /\ events' = events + 1
  BY DEF Desktop, copy
<1>2. active' \in [Place -> BOOLEAN] /\ \A q \in Place : q # p => active'[q] = active[q]
  BY <1>1 DEF DiskInv, TypeOK
<1>3. TypeOK'
  <2>1. events' \in 0..MaxEvents
    BY <1>1, LayoutAssumption DEF DiskInv, TypeOK
  <2>2. nested' \in (Place \X Place) \cup {None} /\ stirred' \subseteq Place
    BY <1>1 DEF DiskInv, TypeOK
  <2> QED  BY <1>1, <1>2, <2>1, <2>2 DEF DiskInv, TypeOK
<1>4. \A q \in Place : active'[q] => Exists(q)' /\ content'[q] \in Holds
  <2>1. CASE active[p]
    <3>1. active' = [active EXCEPT ![p] = FALSE]
      BY <1>1, <2>1 DEF DiskInv, TypeOK
    <3>2. \A q \in Place : active'[q] => active[q] /\ q # p /\ Exists(q)'
      BY <1>1, <2>1, <3>1, BareQuiet, SwitchedOff
    <3> QED  BY <1>1, <3>2 DEF DiskInv, ActiveInv
  <2>2. CASE ~active[p]
    <3>1. \A q \in Place : Exists(q) => Exists(q)'
      BY <1>1, <1>2, <2>2, ContainerOf DEF Exists
    <3> QED  BY <1>1, <1>2, <3>1 DEF DiskInv, ActiveInv, Holds
  <2> QED  BY <2>1, <2>2
<1>5. ActiveInv'
  <2>1. nested' # None => /\ active'[nested'[1]] /\ content'[nested'[1]] = "fs"
                          /\ nested'[1] # nested'[2]
    BY <1>1, <1>2 DEF DiskInv, ActiveInv, TypeOK
  <2> QED  BY <1>1, <1>4, <2>1 DEF DiskInv, ActiveInv
<1>6. TodoInv'
  BY <1>1 DEF DiskInv, TodoInv, IsCrypt
<1>7. LeftOpen' = LeftOpen
  BY <1>1 DEF LeftOpen
<1>8. CoverInv' /\ AheadInv'
  BY <1>1, <1>2, <1>7 DEF DiskInv, CoverInv, AheadInv, Freed
<1>9. AfterInv'
  <2>1. QuietAtWrite'
    BY <1>1, <1>7 DEF DiskInv, AfterInv, QuietAtWrite
  <2> QED  BY <1>1, <1>2, <1>7, <2>1 DEF DiskInv, AfterInv, EndsForCause
<1> QED  BY <1>3, <1>5, <1>6, <1>8, <1>9 DEF DiskInv

-----------------------------------------------------------------------------
(***************************************************************************)
(* The inspection, and the commands one by one.                            *)
(***************************************************************************)

LEMMA CommandOf ==
    ASSUME NEW c \in Commands
    PROVE  /\ c \in Command /\ Exists(c.at)
           /\ c.run = "swapoff" => content[c.at] = "swap"
           /\ c.run = "umount" => content[c.at] = "fs" /\ active[c.at]
           /\ c.run = "close" => IsCrypt(c.at) /\ content[c.at] # "swap"
<1>1. PICK p \in Place : Exists(p) /\ c \in CommandsFor(p)
  BY DEF Commands, Nodes
<1> QED  BY <1>1 DEF CommandsFor, SwapOff, Unmount, Close, Command

LEMMA InspectCovers ==
    ASSUME DiskInv, Inspect, NEW p \in Place, active[p]
    PROVE  p \in LeftOpen' \/ \E c \in Commands : Freed(c) = p
<1>1. Exists(p) /\ content[p] \in Holds /\ content \in Images
  BY DEF DiskInv, ActiveInv, Inspect, BeforeTable
<1>2. /\ seen' = [content |-> content, active |-> active, nested |-> nested]
      /\ seen' # None
  BY LayoutAssumption DEF DiskInv, TypeOK, Inspect, Inspection
<1>3. LeftOpen' = {q \in Place : /\ active[q]
                                 /\ \/ content[q] = "pv"
                                    \/ \E r \in Mapped : Under[r] = q /\ content[r] = "swap"}
  BY <1>2 DEF LeftOpen
<1>4. CASE content[p] = "pv"
  BY <1>3, <1>4
<1>5. CASE content[p] = "swap"
  <2>1. [run |-> "swapoff", at |-> p] \in Commands
    BY <1>1, <1>5 DEF Commands, Nodes, CommandsFor, SwapOff
  <2> QED  BY <2>1 DEF Freed
<1>6. CASE content[p] = "fs"
  <2>1. [run |-> "umount", at |-> p] \in Commands
    BY <1>1, <1>6 DEF Commands, Nodes, CommandsFor, Unmount
  <2> QED  BY <2>1 DEF Freed
<1>7. CASE content[p] = "luks"
  <2>1. PICK q \in Mapped : Under[q] = p
    BY <1>1, <1>7, LayoutAssumption
  <2>2. CASE content[q] = "swap"
    BY <1>3, <2>1, <2>2
  <2>3. CASE content[q] # "swap"
    <3>1. q \in Nodes /\ IsCrypt(q)
      BY <1>7, <2>1, Mappings DEF Nodes, Exists, IsCrypt
    <3>2. [run |-> "close", at |-> q] \in Commands
      BY <2>3, <3>1 DEF Commands, CommandsFor, Close
    <3> QED  BY <2>1, <3>2 DEF Freed
  <2> QED  BY <2>2, <2>3
<1> QED  BY <1>1, <1>4, <1>5, <1>6, <1>7 DEF Holds

LEMMA InspectMoves ==
    ASSUME DiskInv, Inspect
    PROVE  DiskInv'
<1>1. /\ pc = "start" /\ pc' = "preparing" /\ todo' = Commands
      /\ seen' = [content |-> content, active |-> active, nested |-> nested]
      /\ UNCHANGED <<content, active, nested, system, options, scratch, result, events,
                     stirred, busy, dd, medium>>
  BY DEF Inspect, disk, copy
<1>2. seen' \in Inspection /\ seen' # None
  BY <1>1, LayoutAssumption DEF DiskInv, TypeOK, Inspection
<1>3. stirred = {} /\ busy = {} /\ result = "none" /\ scratch = "none"
  BY <1>1 DEF DiskInv, AfterInv, QuietAtWrite, LeftOpen
<1>4. todo' \subseteq Command
  BY <1>1, CommandOf
<1>5. TypeOK'
  BY <1>1, <1>2, <1>4 DEF DiskInv, TypeOK
<1>6. ActiveInv'
  BY <1>1 DEF DiskInv, ActiveInv, Exists, BeforeTable
<1>7. TodoInv'
  BY <1>1, <1>2, CommandOf DEF TodoInv, IsCrypt
<1>8. CoverInv'
  BY <1>1, InspectCovers DEF CoverInv, Freed
<1>9. AheadInv'
  <2>1. ASSUME NEW c \in Commands, c.run = "close"
        PROVE  active[Under[c.at]]
    <3>1. c.at \in Mapped /\ Exists(c.at)
      BY <2>1, CommandOf DEF IsCrypt
    <3> QED  BY <3>1, Mappings DEF Exists
  <2>2. \A c \in Commands : IF c.run = "swapoff" THEN seen'.active[c.at] => active[c.at]
                            ELSE active[Freed(c)]
    BY <1>1, <2>1, CommandOf DEF Freed, Command
  <2> QED  BY <1>1, <2>2 DEF AheadInv, Freed
<1>10. AfterInv'
  BY <1>1, <1>3 DEF AfterInv, QuietAtWrite, EndsForCause
<1> QED  BY <1>5, <1>6, <1>7, <1>8, <1>9, <1>10 DEF DiskInv

\* A command takes one place out of use, and no other command does.
LEMMA FreedOnce ==
    ASSUME DiskInv, pc = "preparing", NEW c \in todo, NEW d \in todo, Freed(d) = Freed(c)
    PROVE  d = c
<1>1. c \in Command /\ d \in Command /\ content \in Images
  BY DEF DiskInv, TypeOK, ActiveInv, BeforeTable
<1>2. \A e \in {c, d} :
        /\ e.run = "swapoff" => content[Freed(e)] = "swap" /\ Freed(e) = e.at
        /\ e.run = "umount" => content[Freed(e)] = "fs" /\ Freed(e) = e.at
        /\ e.run = "close" => content[Freed(e)] = "luks" /\ e.at \in Mapped
                              /\ Freed(e) = Under[e.at]
  BY DEF DiskInv, TodoInv, IsCrypt, Freed
<1>3. c.run = d.run
  BY <1>1, <1>2 DEF Command
<1>4. c.at = d.at
  <2>1. CASE c.run = "close"
    BY <1>1, <1>2, <1>3, <2>1, OneMapping
  <2>2. CASE c.run # "close"
    BY <1>1, <1>2, <1>3, <2>2 DEF Command
  <2> QED  BY <2>1, <2>2
<1> QED  BY <1>1, <1>3, <1>4 DEF Command

LEMMA RunCommandMoves ==
    ASSUME DiskInv, NEW c \in todo, RunCommand(c)
    PROVE  DiskInv'
<1>1. /\ pc = "preparing" /\ Works(c) /\ todo' = todo \ {c}
      /\ active' = [active EXCEPT ![Freed(c)] = FALSE]
      /\ nested' = IF nested # None /\ Freed(c) = nested[1] THEN None ELSE nested
      /\ UNCHANGED <<content, system, pc, options, scratch, result, events, stirred, seen,
                     busy, dd, medium>>
  BY DEF RunCommand, history, copy
<1>2. c \in Command /\ c.at \in Place /\ content \in Images
  BY <1>1 DEF DiskInv, TypeOK, ActiveInv, BeforeTable, Command
<1>3. /\ c.run = "swapoff" => content[c.at] = "swap"
      /\ c.run = "umount" => content[c.at] = "fs"
      /\ c.run = "close" => IsCrypt(c.at)
  BY <1>1 DEF DiskInv, TodoInv
<1>4. Freed(c) \in Place
  BY <1>2, <1>3, FreedPlace
<1>5. Bare(Freed(c))
  <2>1. CASE c.run = "close"
    BY <1>1, <1>2, <1>3, <2>1, BareClosed DEF Works, Freed
  <2>2. CASE c.run # "close"
    <3>1. content[c.at] \in {"fs", "swap"} /\ Freed(c) = c.at
      BY <1>2, <1>3, <2>2 DEF Command, Freed
    <3> QED  BY <1>2, <3>1, BareLeaf
  <2> QED  BY <2>1, <2>2
<1>6. \A q \in Place : active'[q] => active[q] /\ q # Freed(c) /\ Exists(q)'
  BY <1>1, <1>4, <1>5, SwitchedOff
<1>7. /\ active' \in [Place -> BOOLEAN]
      /\ \A q \in Place : q # Freed(c) => active'[q] = active[q]
  BY <1>1 DEF DiskInv, TypeOK
<1>8. nested' # None => nested' = nested /\ nested[1] # Freed(c)
  BY <1>1
<1>9. TypeOK'
  BY <1>1, <1>7, <1>8 DEF DiskInv, TypeOK
<1>10. ActiveInv'
  <2>1. nested' # None => nested[1] \in Place
    BY <1>8 DEF DiskInv, TypeOK
  <2> QED  BY <1>1, <1>6, <1>7, <1>8, <2>1 DEF DiskInv, ActiveInv
<1>11. TodoInv'
  BY <1>1, <1>8 DEF DiskInv, TodoInv, IsCrypt
<1>12. LeftOpen' = LeftOpen
  BY <1>1 DEF LeftOpen
<1>13. \A d \in todo : Freed(d)' = Freed(d)
  BY DEF Freed
<1>14. CoverInv'
  <2> SUFFICES ASSUME NEW q \in Place, active'[q]
               PROVE  q \in stirred \cup LeftOpen \/ \E d \in todo' : Freed(d)' = q
    BY <1>1, <1>12 DEF CoverInv
  <2>1. q \in stirred \cup LeftOpen \/ \E d \in todo : Freed(d) = q
    BY <1>1, <1>6 DEF DiskInv, CoverInv
  <2> QED  BY <1>1, <1>6, <1>13, <2>1
<1>15. AheadInv'
  <2> SUFFICES ASSUME stirred = {}, NEW d \in todo, d # c
               PROVE  IF d.run = "swapoff" THEN seen.active[d.at] => active'[d.at]
                      ELSE active'[Freed(d)]
    BY <1>1, <1>13 DEF AheadInv
  <2>1. Freed(d) # Freed(c) /\ d \in Command
    BY <1>1, FreedOnce DEF DiskInv, TypeOK
  <2>2. Freed(d) \in Place
    BY <1>1, <2>1, FreedPlace DEF DiskInv, TodoInv
  <2>3. active'[Freed(d)] = active[Freed(d)]
    BY <1>7, <2>1, <2>2
  <2>4. d.run = "swapoff" => Freed(d) = d.at
    BY DEF Freed
  <2> QED  BY <1>1, <2>3, <2>4 DEF DiskInv, AheadInv
<1>16. AfterInv'
  BY <1>1, <1>12 DEF DiskInv, AfterInv, QuietAtWrite, EndsForCause
<1> QED  BY <1>9, <1>10, <1>11, <1>14, <1>15, <1>16 DEF DiskInv

-----------------------------------------------------------------------------
(***************************************************************************)
(* The order of the commands: without the desktop, a command that fails    *)
(* has one of three causes.                                                *)
(***************************************************************************)

NoSwapCause == \A p \in Place : seen.content[p] = "swap" => seen.active[p]
NoNestingCause == seen.nested # None =>
                     ~(Position(seen.nested[1]) < Position(seen.nested[2]))

\* A container stays open for what it holds, never a file system.
LEMMA OpenContainer ==
    ASSUME content \in Images, seen # None, seen.content = content, NEW p \in LeftOpen
    PROVE  content[p] \in {"luks", "pv"}
<1>1. content[p] = "pv" \/ \E q \in Mapped : Under[q] = p /\ content[q] = "swap"
  BY DEF LeftOpen
<1>2. CASE \E q \in Mapped : Under[q] = p /\ content[q] = "swap"
  <2>1. PICK q \in Mapped : Under[q] = p /\ content[q] = "swap"
    BY <1>2
  <2>2. q \in Place \ {Disk} /\ content[q] # "none"
    BY <2>1, Mappings
  <2> QED  BY <2>1, <2>2, LayoutAssumption
<1> QED  BY <1>1, <1>2

LEMMA OrderSuffices ==
    ASSUME DiskInv, pc = "preparing", stirred = {}, NEW c \in todo, Upcoming(c),
           NoSwapCause, NoNestingCause, LeftOpen \cap Mapped = {}
    PROVE  Works(c)
<1>1. /\ c \in Command /\ c.at \in Place /\ c.run \in {"umount", "swapoff", "close"}
      /\ content \in Images
  BY DEF DiskInv, TypeOK, ActiveInv, BeforeTable, Command
<1>2. /\ c.run = "swapoff" => content[c.at] = "swap"
      /\ c.run = "umount" => content[c.at] = "fs"
      /\ c.run = "close" => IsCrypt(c.at)
      /\ nested # None => nested = seen.nested
      /\ seen # None /\ seen.content = content
  BY DEF DiskInv, TodoInv
<1>3. \A d \in todo \ {c} : Precedes(c, d) /\ d \in Command /\ d.at \in Place
  BY DEF Upcoming, DiskInv, TypeOK, Command
<1>4. CASE c.run = "swapoff"
  <2>1. seen.active[c.at]
    <3>1. seen.content[c.at] = "swap"
      BY <1>2, <1>4
    <3> QED  BY <1>1, <3>1, Zenon DEF NoSwapCause
  <2>2. seen.active[c.at] => active[c.at]
    BY <1>4 DEF DiskInv, AheadInv
  <2> QED  BY <1>1, <1>4, <2>1, <2>2 DEF Works, InUse, DiskInv, ActiveInv
<1>5. CASE c.run = "umount"
  <2>1. active[c.at] /\ Exists(c.at)
    BY <1>1, <1>5 DEF DiskInv, AheadInv, Freed, ActiveInv
  <2>2. \A q \in Place : Under[q] = c.at /\ Exists(q) => ~active[q]
    <3>1. Bare(c.at)
      BY <1>1, <1>2, <1>5, BareLeaf
    <3> QED  BY <1>1, <3>1, LayoutAssumption DEF Bare
  <2>3. ASSUME nested # None, nested[2] = c.at
        PROVE  FALSE
    <3>1. /\ nested[1] \in Place /\ active[nested[1]] /\ content[nested[1]] = "fs"
          /\ nested[1] # c.at
      BY <2>3 DEF DiskInv, TypeOK, ActiveInv
    <3>2. ~(Position(nested[1]) < Position(c.at))
      <4>1. seen.nested # None /\ seen.nested[1] = nested[1] /\ seen.nested[2] = c.at
        BY <1>2, <2>3
      <4> QED  BY <4>1, Zenon DEF NoNestingCause
    <3>3. nested[1] \notin LeftOpen
      BY <1>1, <1>2, <3>1, OpenContainer
    <3>4. PICK d \in todo : Freed(d) = nested[1]
      BY <3>1, <3>3 DEF DiskInv, CoverInv
    <3>5. d.run = "close" => content[Freed(d)] = "luks"
      BY DEF DiskInv, TodoInv, IsCrypt, Freed
    <3>6. d.at = nested[1]
      BY <3>1, <3>4, <3>5 DEF Freed
    <3> QED  BY <1>3, <3>1, <3>2, <3>6 DEF Precedes, ChildrenFirst
  <2> QED  BY <1>1, <1>5, <2>1, <2>2, <2>3 DEF Works, InUse, Quiet
<1>6. CASE c.run = "close"
  <2>1. c.at \in Mapped /\ content[Under[c.at]] = "luks" /\ active[Under[c.at]]
    BY <1>2, <1>6 DEF IsCrypt, DiskInv, AheadInv, Freed
  <2>2. Exists(c.at)
    BY <2>1 DEF Exists
  <2>3. ASSUME active[c.at]
        PROVE  FALSE
    <3>1. c.at \notin LeftOpen
      BY <2>1
    <3>2. PICK d \in todo : Freed(d) = c.at
      BY <1>1, <2>3, <3>1 DEF DiskInv, CoverInv
    <3>3. Under[c.at] # c.at
      BY <1>1, Positions, LayoutAssumption
    <3>4. d # c
      BY <1>6, <3>2, <3>3 DEF Freed
    <3>5. d.at # c.at /\ ChildrenFirst(c.at, d.at) /\ d.at \in Place
      BY <1>3, <1>6, <3>4 DEF Precedes
    <3>6. Under[d.at] = c.at
      BY <3>2, <3>5 DEF Freed
    <3> QED  BY <1>1, <3>5, <3>6, InsideLater
  <2> QED  BY <1>6, <2>2, <2>3 DEF Works
<1> QED  BY <1>1, <1>4, <1>5, <1>6

-----------------------------------------------------------------------------
(***************************************************************************)
(* The write, and what follows it.                                         *)
(***************************************************************************)

\* A step that only moves the program on.
LEMMA ProgramMoves ==
    ASSUME DiskInv, UNCHANGED <<disk, todo, options, copy, events, stirred, seen, busy>>,
           pc' \in {"written", "post", "reorder", "release", "release-error", "done"},
           pc' = "written" => pc = "writing",
           result' \in {"none", "protected", "unsuitable", "cancelled", "busy", "failed",
                        "refresh", "unreleased", "ok"},
           scratch' \in {"none", "mounted"},
           pc' # "done" => result' = "none",
           pc' \in {"written", "post"} => scratch' = "none",
           EndsForCause'
    PROVE  DiskInv'
<1>1. UNCHANGED <<content, active, nested, system, todo, options, dd, medium, events,
                  stirred, seen, busy>>
  BY DEF disk, copy
<1>2. TypeOK'
  BY <1>1 DEF DiskInv, TypeOK
<1>3. pc' \in BeforeTable => pc \in BeforeTable
  BY DEF BeforeTable
<1>4. ActiveInv'
  BY <1>1, <1>3 DEF DiskInv, ActiveInv, Exists
<1>5. TodoInv' /\ CoverInv' /\ AheadInv'
  BY DEF TodoInv, CoverInv, AheadInv
<1>6. LeftOpen' = LeftOpen
  BY <1>1 DEF LeftOpen
<1>7. AfterInv'
  BY <1>1, <1>6 DEF DiskInv, AfterInv, QuietAtWrite
<1> QED  BY <1>2, <1>4, <1>5, <1>7 DEF DiskInv

\* The result is not one that needs a cause.
LEMMA PlainResult ==
    ASSUME result' \notin {"busy", "refresh", "ok"}
    PROVE  EndsForCause'
  BY DEF EndsForCause

LEMMA InspectRefusesMoves == ASSUME DiskInv, InspectRefuses PROVE DiskInv'
<1>1. /\ pc' = "done" /\ result' \in {"protected", "unsuitable"}
      /\ UNCHANGED <<disk, todo, options, scratch, copy, events, stirred, seen, busy>>
  BY DEF InspectRefuses, End, history
<1>2. scratch' \in {"none", "mounted"}
  BY <1>1 DEF DiskInv, TypeOK
<1> QED  BY <1>1, <1>2, PlainResult, ProgramMoves

LEMMA CommandFailsMoves ==
    ASSUME DiskInv, NEW c \in todo, CommandFails(c)
    PROVE  DiskInv'
<1>1. /\ pc = "preparing" /\ Upcoming(c) /\ pc' = "done"
      /\ result' = IF Works(c) THEN "cancelled" ELSE "busy"
      /\ UNCHANGED <<disk, todo, options, scratch, copy, events, stirred, seen, busy>>
  BY DEF CommandFails, End, history
<1>2. scratch' \in {"none", "mounted"}
  BY <1>1 DEF DiskInv, TypeOK
<1>3. EndsForCause'
  <2>1. CASE Works(c)
    BY <1>1, <2>1, PlainResult
  <2>2. CASE ~Works(c)
    <3>1. UNCHANGED <<stirred, seen>> /\ LeftOpen' = LeftOpen /\ result' = "busy"
      BY <1>1, <2>2 DEF LeftOpen
    <3>2. \/ stirred # {} \/ LeftOpen \cap Mapped # {}
          \/ ~NoSwapCause \/ ~NoNestingCause
      BY <1>1, <2>2, OrderSuffices
    <3> QED  BY <3>1, <3>2 DEF EndsForCause, NoSwapCause, NoNestingCause
  <2> QED  BY <2>1, <2>2
<1> QED  BY <1>1, <1>2, <1>3, ProgramMoves

LEMMA BeginWriteMoves == ASSUME DiskInv, BeginWrite PROVE DiskInv'
<1>1. /\ pc = "preparing" /\ todo = {} /\ pc' = "writing" /\ busy' = {p \in Place : InUse(p)}
      /\ dd' = TRUE /\ medium' = "part"
      /\ UNCHANGED <<content, active, nested, system, todo, options, scratch, result, events,
                     stirred, seen>>
  BY DEF BeginWrite, disk
<1>2. TypeOK'
  BY <1>1 DEF DiskInv, TypeOK
<1>3. ActiveInv'
  BY <1>1 DEF DiskInv, ActiveInv, Exists, BeforeTable
<1>4. TodoInv' /\ CoverInv' /\ AheadInv'
  BY <1>1 DEF TodoInv, CoverInv, AheadInv
<1>5. LeftOpen' = LeftOpen
  BY <1>1 DEF LeftOpen
<1>6. \A p \in Place : active[p] => p \in stirred \cup LeftOpen
  BY <1>1 DEF DiskInv, CoverInv
<1>7. AfterInv'
  <2>1. QuietAtWrite'
    BY <1>1, <1>5, <1>6 DEF QuietAtWrite, InUse
  <2> QED  BY <1>1, <1>5, <1>6, <2>1 DEF DiskInv, AfterInv, EndsForCause
<1> QED  BY <1>2, <1>3, <1>4, <1>7 DEF DiskInv

LEMMA DdEndsMoves == ASSUME DiskInv, DdEnds PROVE DiskInv'
<1>1. /\ dd' = FALSE /\ medium' \in {"part", "whole"}
      /\ UNCHANGED <<content, active, nested, system, pc, todo, options, scratch, result,
                     events, stirred, seen, busy>>
  BY DEF DdEnds, disk, history
<1>2. TypeOK'
  <2>1. dd' \in BOOLEAN
    BY <1>1
  <2>2. medium' \in {"untouched", "part", "whole"}
    BY <1>1
  <2>3. TypeOK
    BY DEF DiskInv
  <2> QED  BY <1>1, <2>1, <2>2, <2>3 DEF TypeOK
<1>3. ActiveInv'
  BY <1>1 DEF DiskInv, ActiveInv, Exists
<1>4. TodoInv' /\ CoverInv' /\ AheadInv'
  BY <1>1 DEF DiskInv, TodoInv, CoverInv, AheadInv, LeftOpen, Exists, IsCrypt, Freed
<1>5. AfterInv'
  BY <1>1 DEF DiskInv, AfterInv, QuietAtWrite, EndsForCause, LeftOpen
<1> QED  BY <1>2, <1>3, <1>4, <1>5 DEF DiskInv

LEMMA EndWriteMoves == ASSUME DiskInv, EndWrite PROVE DiskInv'
<1>1. /\ pc = "writing"
      /\ UNCHANGED <<disk, todo, options, scratch, copy, events, stirred, seen, busy>>
      /\ \/ pc' = "written" /\ result' = result
         \/ pc' = "done" /\ result' = "failed"
  BY DEF EndWrite, End, history
<1>2. scratch' \in {"none", "mounted"} /\ scratch = "none" /\ result = "none"
  BY <1>1 DEF DiskInv, TypeOK, AfterInv
<1> QED  BY <1>1, <1>2, PlainResult, ProgramMoves

LEMMA RereadTableMoves == ASSUME DiskInv, RereadTable PROVE DiskInv'
<1>1. /\ pc = "written" /\ pc' = "refreshed" /\ \A p \in Place : ~InUse(p)
      /\ content' = [p \in Place |-> CASE p = Disk -> "table" [] p = Tails -> "fs"
                                       [] OTHER -> "none"]
      /\ UNCHANGED <<active, nested, system, todo, options, scratch, dd, medium, result,
                     events, stirred, seen, busy>>
  BY DEF RereadTable, copy, history
<1>2. \A p \in Place : ~active[p]
  BY <1>1 DEF InUse, DiskInv, ActiveInv
<1>3. nested = None
  BY <1>2 DEF DiskInv, TypeOK, ActiveInv
<1>4. content' \in [Place -> Content]
  BY <1>1 DEF Content
<1>5. TypeOK'
  BY <1>1, <1>4 DEF DiskInv, TypeOK
<1>6. ActiveInv'
  BY <1>1, <1>2, <1>3 DEF ActiveInv, BeforeTable
<1>7. TodoInv' /\ CoverInv' /\ AheadInv'
  BY <1>1 DEF TodoInv, CoverInv, AheadInv
<1>8. LeftOpen' = LeftOpen
  BY <1>1 DEF LeftOpen
<1>9. AfterInv'
  BY <1>1, <1>8 DEF DiskInv, AfterInv, QuietAtWrite, EndsForCause
<1> QED  BY <1>5, <1>6, <1>7, <1>9 DEF DiskInv

LEMMA RereadFailsMoves == ASSUME DiskInv, RereadFails PROVE DiskInv'
<1>1. /\ pc = "written" /\ pc' = "done"
      /\ result' = IF \E p \in Place : InUse(p) THEN "refresh" ELSE "cancelled"
      /\ UNCHANGED <<disk, todo, options, scratch, copy, events, stirred, seen, busy>>
  BY DEF RereadFails, End, history
<1>2. scratch' \in {"none", "mounted"}
  BY <1>1 DEF DiskInv, TypeOK
<1>3. UNCHANGED stirred /\ LeftOpen' = LeftOpen
  BY <1>1 DEF LeftOpen
<1>4. (\E p \in Place : InUse(p)) => stirred # {} \/ LeftOpen # {}
  BY <1>1 DEF DiskInv, AfterInv, InUse
<1>5. EndsForCause'
  BY <1>1, <1>3, <1>4 DEF EndsForCause
<1> QED  BY <1>1, <1>2, <1>5, ProgramMoves

LEMMA SettleMoves == ASSUME DiskInv, Settle PROVE DiskInv'
<1>1. /\ pc = "refreshed"
      /\ UNCHANGED <<disk, todo, options, scratch, copy, events, stirred, seen, busy>>
      /\ \/ pc' = "post" /\ result' = result
         \/ pc' = "done" /\ result' = "failed"
  BY DEF Settle, End, history
<1>2. scratch' \in {"none", "mounted"} /\ scratch = "none" /\ result = "none"
  BY <1>1 DEF DiskInv, TypeOK, AfterInv
<1> QED  BY <1>1, <1>2, PlainResult, ProgramMoves

LEMMA PostWriteMoves == ASSUME DiskInv, PostWrite PROVE DiskInv'
<1>1. UNCHANGED <<disk, todo, options, copy, events, stirred, seen, busy>>
  BY DEF PostWrite, NoOptions, MountScratch, Reorder, ReleaseMount, PostRest, history
<1>2. /\ pc \in {"post", "reorder", "release", "release-error"} /\ result = "none"
      /\ scratch \in {"none", "mounted"}
      /\ pc = "post" => scratch = "none"
  BY DEF PostWrite, NoOptions, MountScratch, Reorder, ReleaseMount, DiskInv, AfterInv, TypeOK
<1>3. /\ pc' \in {"reorder", "release", "release-error"} => result' = "none"
      /\ pc' \in {"reorder", "release", "release-error", "done"}
      /\ scratch' \in {"none", "mounted"}
      /\ result' \in {"none", "failed", "unreleased", "ok"}
      /\ result' = "ok" => scratch' = "none"
  <2>1. CASE NoOptions
    BY <1>2, <2>1 DEF NoOptions, End
  <2>2. CASE MountScratch
    BY <1>2, <2>2 DEF MountScratch, End
  <2>3. CASE Reorder
    BY <1>2, <2>3 DEF Reorder
  <2>4. CASE ReleaseMount
    BY <1>2, <2>4 DEF ReleaseMount, End, AfterKept
  <2> QED  BY <2>1, <2>2, <2>3, <2>4 DEF PostWrite
<1>4. EndsForCause'
  BY <1>3 DEF EndsForCause
<1> QED  BY <1>1, <1>2, <1>3, <1>4, ProgramMoves

LEMMA DiskStep == ASSUME DiskInv, [Next]_vars PROVE DiskInv'
<1>1. CASE Prepare
  BY <1>1, InspectMoves, InspectRefusesMoves, RunCommandMoves, CommandFailsMoves DEF Prepare
<1>2. CASE WriteImage
  BY <1>2, BeginWriteMoves, DdEndsMoves, EndWriteMoves, RereadTableMoves, RereadFailsMoves,
     SettleMoves
     DEF WriteImage
<1>3. CASE PostWrite
  BY <1>3, PostWriteMoves
<1>4. CASE \E p \in Place : Desktop(p)
  BY <1>4, DesktopMoves
<1>5. CASE UNCHANGED vars
  BY <1>5 DEF vars, DiskInv, TypeOK, ActiveInv, TodoInv, CoverInv, AheadInv, AfterInv,
              QuietAtWrite, EndsForCause, LeftOpen, Exists, IsCrypt, Freed, BeforeTable
<1> QED  BY <1>1, <1>2, <1>3, <1>4, <1>5 DEF Next

LEMMA DiskAlways == Spec => []DiskInv
  BY InitDisk, DiskStep, PTL DEF Spec

\* Every variable keeps its type, and the commands those of the inspection.
THEOREM DiskTypes == Spec => []TypeOK
<1>1. DiskInv => TypeOK
  BY DEF DiskInv
<1> QED  BY <1>1, DiskAlways, PTL

\* dd begins on a disk that nothing uses, but for what the desktop put to
\* use after the inspection and for the mappings that no command closes: on
\* every layout, the commands cover every use that lsblk shows.
THEOREM WriteOnQuietDisk == Spec => []QuietAtWrite
<1>1. DiskInv => QuietAtWrite
  BY DEF DiskInv, AfterInv
<1> QED  BY <1>1, DiskAlways, PTL

\* A failed command, and a refused partition table, have one of the causes
\* named; children before parents is an order in which the commands work.
\* After a success no mount of the tool is left.
THEOREM ErrorsHaveCauses == Spec => []EndsForCause
<1>1. DiskInv => EndsForCause
  BY DEF DiskInv, AfterInv
<1> QED  BY <1>1, DiskAlways, PTL

-----------------------------------------------------------------------------
(***************************************************************************)
(* The installation as a write service.                                    *)
(***************************************************************************)

\* How much of the image is there at each step.
MediumInv ==
    /\ pc \in {"start", "preparing"} => medium = "untouched" /\ ~dd
    /\ dd => medium = "part" /\ (pc = "writing" \/ (pc = "done" /\ result = "failed"))
    /\ pc \notin {"start", "preparing", "writing", "done"} => medium = "whole" /\ ~dd

LEMMA MediumStep == ASSUME MediumInv, DiskInv, [Next]_vars PROVE MediumInv'
<1>1. CASE Inspect \/ InspectRefuses \/ \E c \in todo : RunCommand(c) \/ CommandFails(c)
  BY <1>1 DEF MediumInv, Inspect, InspectRefuses, RunCommand, CommandFails, End, copy, history
<1>2. CASE BeginWrite \/ DdEnds \/ EndWrite
  <2>2. CASE BeginWrite
    <3>1. pc' = "writing" /\ dd' = TRUE /\ medium' = "part"
      BY <2>2 DEF BeginWrite
    <3> QED  BY <3>1, Zenon DEF MediumInv
  <2>3. CASE DdEnds
    BY <2>3 DEF MediumInv, DdEnds, history
  <2>4. CASE EndWrite
    BY <2>4 DEF MediumInv, EndWrite, End, copy
  <2> QED  BY <1>2, <2>2, <2>3, <2>4
<1>3. CASE RereadTable \/ RereadFails \/ Settle
  BY <1>3 DEF MediumInv, RereadTable, RereadFails, Settle, End, copy, history
<1>4. CASE NoOptions \/ MountScratch \/ Reorder \/ ReleaseMount
  BY <1>4 DEF MediumInv, NoOptions, MountScratch, Reorder, ReleaseMount, PostRest, End, copy,
              history
<1>5. CASE \E p \in Place : Desktop(p)
  BY <1>5 DEF MediumInv, Desktop, copy
<1>6. CASE UNCHANGED vars
  BY <1>6 DEF MediumInv, vars
<1> QED  BY <1>1, <1>2, <1>3, <1>4, <1>5, <1>6 DEF Next, Prepare, WriteImage, PostWrite

ServiceInv == DiskInv /\ MediumInv

LEMMA ServiceAlways == Spec => []ServiceInv
<1>1. Init => MediumInv
  BY DEF Init, MediumInv
<1>2. ServiceInv /\ [Next]_vars => ServiceInv'
  BY DiskStep, MediumStep DEF ServiceInv
<1> QED  BY <1>1, <1>2, InitDisk, PTL DEF Spec, ServiceInv

Outcome == CASE result \in {"none", "ok"} -> result
             [] result \in {"protected", "unsuitable", "busy"} -> "refused"
             [] OTHER -> "failed"
Excused == stirred \cup LeftOpen

LEMMA ExcusedPlaces == ASSUME DiskInv PROVE Excused \in SUBSET Place
<1>1. LeftOpen \subseteq Place
  BY DEF LeftOpen
<1> QED  BY <1>1 DEF Excused, DiskInv, TypeOK

\* The steps of the program that leave dd alone.
Around == \/ Prepare \/ EndWrite \/ RereadTable \/ RereadFails \/ Settle \/ PostWrite

\* One of them leaves the result open, or reports what is so.
LEMMA AroundReports ==
    ASSUME ServiceInv, Around
    PROVE  /\ UNCHANGED <<dd, medium, busy>> /\ result = "none"
           /\ \/ result' = "none"
              \/ result' = "ok" /\ medium = "whole" /\ ~dd
              \/ result' \in {"protected", "unsuitable", "busy"} /\ medium = "untouched"
              \/ result' \in {"cancelled", "failed", "refresh", "unreleased"}
<1>1. result = "none"
  <2>1. pc # "done"
    BY DEF Around, Prepare, Inspect, InspectRefuses, RunCommand, CommandFails, EndWrite,
           RereadTable, RereadFails, Settle, PostWrite, NoOptions, MountScratch, Reorder,
           ReleaseMount
  <2> QED  BY <2>1 DEF ServiceInv, DiskInv, AfterInv
<1>2. CASE Prepare
  BY <1>1, <1>2 DEF ServiceInv, MediumInv, Prepare, Inspect, InspectRefuses, RunCommand,
                    CommandFails, End, copy, history
<1>3. CASE EndWrite \/ RereadTable \/ RereadFails \/ Settle
  BY <1>1, <1>3 DEF EndWrite, RereadTable, RereadFails, Settle, End, copy, history
<1>4. CASE PostWrite
  BY <1>1, <1>4 DEF ServiceInv, MediumInv, PostWrite, NoOptions, MountScratch, Reorder,
                    ReleaseMount, PostRest, AfterKept, End, copy, history
<1> QED  BY <1>2, <1>3, <1>4 DEF Around

\* A step is the start of dd, its end, a report, or none of the promise's.
LEMMA ServiceStep ==
    ASSUME ServiceInv, DiskInv', [Next]_vars
    PROVE  Promised!Next \/ UNCHANGED <<medium, dd, Outcome, busy, Excused>>
<1>0. Excused' \in SUBSET Place
  <2>1. LeftOpen' \subseteq Place
    BY DEF LeftOpen
  <2> QED  BY <2>1 DEF Excused, DiskInv, TypeOK
<1>1. CASE BeginWrite
  <2>1. /\ pc = "preparing" /\ dd' = TRUE /\ medium' = "part" /\ result' = result
        /\ pc' = "writing" /\ stirred' = stirred /\ seen' = seen
    BY <1>1 DEF BeginWrite
  <2>2. medium = "untouched" /\ result = "none"
    BY <2>1 DEF ServiceInv, MediumInv, DiskInv, AfterInv
  <2>3. busy' \subseteq stirred' \cup LeftOpen' /\ LeftOpen' = LeftOpen
    BY <2>1 DEF DiskInv, AfterInv, QuietAtWrite, LeftOpen
  <2>4. busy' \in SUBSET Excused
    BY <2>1, <2>3 DEF Excused
  <2> QED  BY <1>0, <2>1, <2>2, <2>4 DEF Promised!Next, Promised!Open, Outcome, Excused
<1>2. CASE DdEnds
  <2>1. dd /\ dd' = FALSE /\ medium' \in {"part", "whole"} /\ UNCHANGED <<result, busy>>
    BY <1>2 DEF DdEnds, history
  <2> QED  BY <1>0, <2>1 DEF Promised!Next, Promised!Finish, Outcome, Excused
<1>3. CASE Around
  <2>1. /\ UNCHANGED <<dd, medium, busy>> /\ Outcome = "none"
        /\ \/ Outcome' = "none"
           \/ Outcome' = "ok" /\ medium = "whole" /\ ~dd
           \/ Outcome' = "refused" /\ medium = "untouched"
           \/ Outcome' = "failed"
    BY <1>3, AroundReports DEF Outcome
  <2> QED  BY <1>0, <2>1
           DEF Promised!Next, Promised!Report, Promised!Rest, Outcome, Excused
<1>4. CASE \E p \in Place : Desktop(p)
  <2>1. UNCHANGED <<dd, medium, result, busy>>
    BY <1>4 DEF Desktop, copy
  <2> QED  BY <1>0, <2>1 DEF Promised!Next, Promised!Rest, Outcome, Excused
<1>5. CASE UNCHANGED vars
  BY <1>5 DEF vars, Outcome, Excused, LeftOpen
<1> QED  BY <1>1, <1>2, <1>3, <1>4, <1>5 DEF Next, WriteImage, Around

\* clone_image_to_device is a write service as the controller expects it: it
\* starts dd once, on a disk in use only as excused, and reports once:
\* success only of a whole copy, with dd ended, and a refusal only before dd.
THEOREM InstallIsWriteService == Spec => WritesAsPromised
<1>1. Init => Promised!Init
  <2>1. Init => /\ medium = "untouched" /\ dd = FALSE /\ result = "none" /\ busy = {}
                /\ Excused \in SUBSET Place
    BY InitDisk, ExcusedPlaces DEF Init
  <2> QED  BY <2>1 DEF Promised!Init, Outcome, Excused
<1>2. ServiceInv /\ ServiceInv' /\ [Next]_vars
      => [Promised!Next]_<<medium, dd, Outcome, busy, Excused>>
  BY ServiceStep DEF ServiceInv
<1> QED  BY <1>1, <1>2, ServiceAlways, PTL
         DEF Spec, WritesAsPromised, Promised!Spec, Outcome, Excused

-----------------------------------------------------------------------------
(***************************************************************************)
(* Positions.  Of a finite set of positions the n-th is where as many are  *)
(* found up to it.                                                         *)
(***************************************************************************)

UpTo(I, i) == {j \in I : j <= i}

LEMMA PositionCounts ==
    ASSUME NEW n \in Nat, NEW I \in SUBSET (1..n)
    PROVE  /\ IsFiniteSet(I) /\ Cardinality(I) \in Nat
           /\ \A i \in I : Cardinality(UpTo(I, i)) \in 1..Cardinality(I)
           /\ \A i, j \in I : i < j => Cardinality(UpTo(I, i)) < Cardinality(UpTo(I, j))
<1>1. IsFiniteSet(I) /\ Cardinality(I) \in Nat
  <2>1. IsFiniteSet(1..n)
    BY FS_Interval
  <2>2. IsFiniteSet(I)
    BY <2>1, FS_Subset
  <2> QED  BY <2>2, FS_CardinalityType
<1>2. \A i : UpTo(I, i) \in SUBSET I
  BY DEF UpTo
<1>3. \A i : /\ IsFiniteSet(UpTo(I, i)) /\ Cardinality(UpTo(I, i)) \in Nat
             /\ Cardinality(UpTo(I, i)) <= Cardinality(I)
  BY <1>1, <1>2, FS_Subset, FS_CardinalityType
<1>4. ASSUME NEW i \in I PROVE Cardinality(UpTo(I, i)) \in 1..Cardinality(I)
  <2>1. i \in UpTo(I, i)
    BY DEF UpTo
  <2>2. Cardinality(UpTo(I, i)) # 0
    BY <2>1, <1>3, FS_EmptySet
  <2> QED  BY <2>2, <1>1, <1>3
<1>5. ASSUME NEW i \in I, NEW j \in I, i < j
      PROVE  Cardinality(UpTo(I, i)) < Cardinality(UpTo(I, j))
  <2>0. i \in Nat /\ j \in Nat /\ \A h \in I : h \in Nat
    OBVIOUS
  <2>1. UpTo(I, i) \in SUBSET UpTo(I, j) /\ j \in UpTo(I, j) /\ j \notin UpTo(I, i)
    <3>1. \A h \in I : h <= i => h <= j
      BY <1>5, <2>0
    <3>2. j <= j /\ ~(j <= i)
      BY <1>5, <2>0
    <3> QED  BY <3>1, <3>2 DEF UpTo
  <2>2. /\ Cardinality(UpTo(I, i)) <= Cardinality(UpTo(I, j))
        /\ Cardinality(UpTo(I, i)) # Cardinality(UpTo(I, j))
    BY <2>1, <1>3, FS_Subset
  <2> QED  BY <2>2, <1>3
<1> QED  BY <1>1, <1>4, <1>5

\* Every number up to the size of the set has its position.
LEMMA NthOf ==
    ASSUME NEW n \in Nat, NEW I \in SUBSET (1..n), NEW k \in 1..Cardinality(I)
    PROVE  Nth(I, k) \in I /\ Cardinality(UpTo(I, Nth(I, k))) = k
<1> DEFINE count == [i \in I |-> Cardinality(UpTo(I, i))]
           N == 1..Cardinality(I)
<1>0. /\ IsFiniteSet(I) /\ Cardinality(I) \in Nat
      /\ \A i \in I : i \in Nat /\ Cardinality(UpTo(I, i)) \in 1..Cardinality(I)
  <2>1. \A i \in I : i \in Nat
    OBVIOUS
  <2> QED  BY PositionCounts, <2>1
<1>1. count \in [I -> N]
  BY <1>0
<1>2. \A i, j \in I : count[i] = count[j] => i = j
  <2>1. \A i, j \in I : i < j => Cardinality(UpTo(I, i)) < Cardinality(UpTo(I, j))
    BY PositionCounts
  <2> QED  BY <1>0, <2>1
<1>3. count \in Injection(I, N)
  BY <1>1, <1>2 DEF Injection, IsInjective
<1>4. IsFiniteSet(N) /\ Cardinality(N) = Cardinality(I)
  <2>1. IsFiniteSet(N)
    BY <1>0, FS_Interval
  <2>2. Cardinality(N) = Cardinality(I)
    BY <1>0, FS_Interval
  <2> QED  BY <2>1, <2>2
<1>5. count \in Surjection(I, N)
  BY <1>3, <1>4, FS_Injection
<1>6. \E i \in I : count[i] = k
  BY <1>5 DEF Surjection
<1> QED  BY <1>6 DEF Nth, UpTo

\* The positions are taken in order, and each of them.
LEMMA NthInOrder ==
    ASSUME NEW n \in Nat, NEW I \in SUBSET (1..n)
    PROVE  /\ Cardinality(I) \in Nat
           /\ \A k \in 1..Cardinality(I) : Nth(I, k) \in I
           /\ \A k, l \in 1..Cardinality(I) : k < l => Nth(I, k) < Nth(I, l)
           /\ \A i \in I : \E k \in 1..Cardinality(I) : Nth(I, k) = i
<1>1. Cardinality(I) \in Nat /\ \A k \in 1..Cardinality(I) : Nth(I, k) \in I
  BY NthOf, PositionCounts
<1>2. ASSUME NEW k \in 1..Cardinality(I), NEW l \in 1..Cardinality(I), k < l
      PROVE  Nth(I, k) < Nth(I, l)
  <2>1. /\ Nth(I, k) \in I /\ Cardinality(UpTo(I, Nth(I, k))) = k
        /\ Nth(I, l) \in I /\ Cardinality(UpTo(I, Nth(I, l))) = l
    BY NthOf
  <2>2. \A i, j \in I : i < j => Cardinality(UpTo(I, i)) < Cardinality(UpTo(I, j))
    BY PositionCounts
  <2>3. Nth(I, k) \in 1..n /\ Nth(I, l) \in 1..n
    BY <2>1
  <2> QED  BY <2>1, <2>2, <2>3, <1>2
<1>3. ASSUME NEW i \in I PROVE \E k \in 1..Cardinality(I) : Nth(I, k) = i
  <2> DEFINE k == Cardinality(UpTo(I, i))
  <2>1. k \in 1..Cardinality(I)
    BY PositionCounts
  <2>2. Nth(I, k) \in I /\ Cardinality(UpTo(I, Nth(I, k))) = k
    BY <2>1, NthOf
  <2>3. \A h, j \in I : h < j => Cardinality(UpTo(I, h)) < Cardinality(UpTo(I, j))
    BY PositionCounts
  <2>4. i \in 1..n /\ Nth(I, k) \in 1..n
    BY <2>2
  <2>5. ~(i < Nth(I, k)) /\ ~(Nth(I, k) < i)
    BY <2>1, <2>2, <2>3, <2>4
  <2> QED  BY <2>1, <2>4, <2>5
<1> QED  BY <1>1, <1>2, <1>3

\* A set of positions that is not empty has a first and a last one.
LEMMA EndPositions ==
    ASSUME NEW n \in Nat, NEW I \in SUBSET (1..n), I # {}
    PROVE  (\E i \in I : \A j \in I : i <= j) /\ \E i \in I : \A j \in I : j <= i
<1> DEFINE c == Cardinality(I)
<1>1. c \in Nat /\ c # 0
  BY PositionCounts, FS_EmptySet
<1>2. \A j \in I : \E k \in 1..c : Nth(I, k) = j
  BY NthInOrder
<1>3. \A k, l \in 1..c : k < l => Nth(I, k) < Nth(I, l)
  BY NthInOrder
<1>4. Nth(I, 1) \in I /\ Nth(I, c) \in I
  <2>1. \A k \in 1..c : Nth(I, k) \in I
    BY NthInOrder
  <2> QED  BY <1>1, <2>1
<1>5. \A j \in I : Nth(I, 1) <= j /\ j <= Nth(I, c)
  <2> SUFFICES ASSUME NEW j \in I PROVE Nth(I, 1) <= j /\ j <= Nth(I, c)
    OBVIOUS
  <2>1. PICK k \in 1..c : Nth(I, k) = j
    BY <1>2
  <2>2. (1 < k => Nth(I, 1) < j) /\ (k < c => j < Nth(I, c))
    BY <1>1, <1>3, <2>1
  <2>3. j \in 1..n /\ Nth(I, 1) \in 1..n /\ Nth(I, c) \in 1..n
    BY <1>4
  <2>4. k = 1 \/ 1 < k
    BY <1>1
  <2>5. k = c \/ k < c
    BY <1>1
  <2> QED  BY <2>1, <2>2, <2>3, <2>4, <2>5
<1> QED  BY <1>4, <1>5

-----------------------------------------------------------------------------
(***************************************************************************)
(* Sequences that are picked from others.                                  *)
(***************************************************************************)

LEMMA Picked ==
    ASSUME NEW S, NEW s \in Seq(S), NEW I \in SUBSET (1..Len(s))
    PROVE  /\ Pick(s, I) \in Seq(S) /\ Len(Pick(s, I)) = Cardinality(I)
           /\ \A k \in 1..Len(Pick(s, I)) :
                 Nth(I, k) \in I /\ Pick(s, I)[k] = s[Nth(I, k)]
           /\ \A k, l \in 1..Len(Pick(s, I)) : k < l => Nth(I, k) < Nth(I, l)
           /\ \A i \in I : \E k \in 1..Len(Pick(s, I)) : Nth(I, k) = i
<1>1. Len(s) \in Nat
  OBVIOUS
<1>2. /\ Cardinality(I) \in Nat
      /\ \A k \in 1..Cardinality(I) : Nth(I, k) \in I
  BY <1>1, NthInOrder
<1>3. Pick(s, I) \in [1..Cardinality(I) -> S]
  <2>1. \A k \in 1..Cardinality(I) : s[Nth(I, k)] \in S
    <3>1. \A i \in I : s[i] \in S
      OBVIOUS
    <3> QED  BY <1>2, <3>1
  <2> QED  BY <2>1 DEF Pick
<1>4. Pick(s, I) \in Seq(S) /\ Len(Pick(s, I)) = Cardinality(I)
  BY <1>2, <1>3
<1> QED  BY <1>1, <1>2, <1>4, NthInOrder DEF Pick

\* Where an entry comes first, in a sequence that has it.
LEMMA FirstOf ==
    ASSUME NEW S, NEW s \in Seq(S), NEW i \in 1..Len(s)
    PROVE  /\ FirstAt(s, s[i]) \in FirstsIn(s)
           /\ s[FirstAt(s, s[i])] = s[i] /\ FirstAt(s, s[i]) <= i
<1> DEFINE I == {j \in 1..Len(s) : s[j] = s[i]}
<1>1. Len(s) \in Nat /\ I \in SUBSET (1..Len(s)) /\ I # {}
  OBVIOUS
<1>2. PICK f \in I : \A j \in I : f <= j
  BY <1>1, EndPositions
<1>3. f \in 1..Len(s) /\ s[f] = s[i] /\ \A j \in 1..f - 1 : s[j] # s[i]
  <2> SUFFICES ASSUME NEW j \in 1..f - 1, s[j] = s[i] PROVE FALSE
    BY <1>2
  <2>1. f \in 1..Len(s)
    BY <1>2
  <2>2. j \in 1..Len(s) /\ j < f
    BY <1>1, <2>1
  <2>3. j \in I
    BY <2>2
  <2>4. f <= j
    BY <1>2, <2>3
  <2> QED  BY <2>1, <2>2, <2>4
<1> DEFINE F == FirstAt(s, s[i])
<1>4. F \in 1..Len(s) /\ s[F] = s[i] /\ \A j \in 1..F - 1 : s[j] # s[i]
  BY <1>3 DEF FirstAt
<1>5. F \in FirstsIn(s)
  BY <1>4 DEF FirstsIn
<1>6. F <= i
  <2> SUFFICES ASSUME i < F PROVE FALSE
    BY <1>1, <1>4
  <2>1. i \in 1..F - 1
    BY <1>1, <1>4
  <2> QED  BY <1>4, <2>1
<1> QED  BY <1>4, <1>5, <1>6

\* The first of an entry is where it comes first.
LEMMA FirstIsFirst ==
    ASSUME NEW S, NEW s \in Seq(S), NEW i \in FirstsIn(s)
    PROVE  i \in 1..Len(s) /\ FirstAt(s, s[i]) = i
<1>1. i \in 1..Len(s) /\ Len(s) \in Nat
  BY DEF FirstsIn
<1>2. /\ FirstAt(s, s[i]) \in 1..Len(s) /\ FirstAt(s, s[i]) <= i
      /\ s[FirstAt(s, s[i])] = s[i]
  BY <1>1, FirstOf DEF FirstsIn
<1>3. ~(FirstAt(s, s[i]) < i)
  <2> SUFFICES ASSUME FirstAt(s, s[i]) < i PROVE FALSE
    OBVIOUS
  <2>1. FirstAt(s, s[i]) \in 1..i - 1
    BY <1>1, <1>2
  <2> QED  BY <1>2, <2>1 DEF FirstsIn
<1> QED  BY <1>1, <1>2, <1>3

\* unique_entries keeps each entry once, in the order of their first places.
LEMMA UniqueEntries ==
    ASSUME NEW S, NEW s \in Seq(S)
    PROVE  /\ Unique(s) \in Seq(S)
           /\ \A e : Contains(Unique(s), e) <=> Contains(s, e)
           /\ \A k, l \in 1..Len(Unique(s)) :
                 k < l => FirstAt(s, Unique(s)[k]) < FirstAt(s, Unique(s)[l])
<1> DEFINE u == Unique(s)
           I == FirstsIn(s)
<1>1. I \in SUBSET (1..Len(s)) /\ Len(s) \in Nat
  BY DEF FirstsIn
<1>2. /\ u \in Seq(S)
      /\ \A k \in 1..Len(u) : Nth(I, k) \in I /\ u[k] = s[Nth(I, k)]
      /\ \A k, l \in 1..Len(u) : k < l => Nth(I, k) < Nth(I, l)
      /\ \A i \in I : \E k \in 1..Len(u) : Nth(I, k) = i
  BY <1>1, Picked DEF Unique
<1>3. \A k \in 1..Len(u) : FirstAt(s, u[k]) = Nth(I, k)
  BY <1>2, FirstIsFirst
<1>4. ASSUME NEW k \in 1..Len(u) PROVE Contains(s, u[k])
  BY <1>1, <1>2 DEF Contains
<1>5. ASSUME NEW i \in 1..Len(s) PROVE Contains(u, s[i])
  <2>1. FirstAt(s, s[i]) \in I /\ s[FirstAt(s, s[i])] = s[i]
    BY FirstOf
  <2>2. PICK k \in 1..Len(u) : Nth(I, k) = FirstAt(s, s[i])
    BY <1>2, <2>1
  <2> QED  BY <1>2, <2>1, <2>2 DEF Contains
<1>6. \A e : Contains(u, e) <=> Contains(s, e)
  BY <1>4, <1>5 DEF Contains
<1> HIDE DEF u, I
<1>7. \A k, l \in 1..Len(u) : k < l => FirstAt(s, u[k]) < FirstAt(s, u[l])
  BY <1>2, <1>3
<1> QED  BY <1>2, <1>6, <1>7 DEF u

\* Where an entry comes first in a sequence that contains it.
LEMMA FirstOfContained ==
    ASSUME NEW S, NEW s \in Seq(S), NEW e, Contains(s, e)
    PROVE  FirstAt(s, e) \in 1..Len(s) /\ s[FirstAt(s, e)] = e
<1>1. PICK i \in 1..Len(s) : s[i] = e
  BY DEF Contains
<1>2. FirstAt(s, s[i]) \in FirstsIn(s) /\ s[FirstAt(s, s[i])] = s[i]
  BY FirstOf
<1> QED  BY <1>1, <1>2 DEF FirstsIn

LEMMA PickedContains ==
    ASSUME NEW S, NEW s \in Seq(S), NEW I \in SUBSET (1..Len(s)), NEW e
    PROVE  Contains(Pick(s, I), e) <=> \E i \in I : s[i] = e
<1> DEFINE p == Pick(s, I)
<1>1. /\ \A k \in 1..Len(p) : Nth(I, k) \in I /\ p[k] = s[Nth(I, k)]
      /\ \A i \in I : \E k \in 1..Len(p) : Nth(I, k) = i
  BY Picked
<1> HIDE DEF p
<1>2. Contains(p, e) <=> \E k \in 1..Len(p) : p[k] = e
  BY DEF Contains
<1>3. ASSUME NEW i \in I, s[i] = e PROVE \E k \in 1..Len(p) : p[k] = e
  BY <1>1, <1>3
<1> QED  BY <1>1, <1>2, <1>3 DEF p

\* Where a configured order puts an entry: those it names first.
PlaceIn(entries, desired, e) ==
    IF Contains(desired, e) THEN FirstAt(desired, e)
    ELSE Len(desired) + FirstAt(entries, e)

\* reorder_entries neither loses nor adds an entry, and puts each in its
\* place.
LEMMA Reordered ==
    ASSUME NEW S, NEW entries \in Seq(S), NEW desired \in Seq(S)
    PROVE  LET ordered == ReorderEntries(Unique(entries), desired)
           IN  /\ ordered \in Seq(S)
               /\ \A e : Contains(ordered, e) <=> Contains(entries, e)
               /\ \A k, l \in 1..Len(ordered) :
                     k < l => PlaceIn(entries, desired, ordered[k])
                                 < PlaceIn(entries, desired, ordered[l])
<1> DEFINE current == Unique(entries)
           wanted == Unique(desired)
           I == Among(wanted, current)
           first == Pick(wanted, I)
           rest == Unique(current)
           J == (1..Len(rest)) \ Among(rest, first)
           tail == Pick(rest, J)
           place(e) == PlaceIn(entries, desired, e)
<1>1. /\ current \in Seq(S)
      /\ \A e : Contains(current, e) <=> Contains(entries, e)
      /\ \A k, l \in 1..Len(current) :
            k < l => FirstAt(entries, current[k]) < FirstAt(entries, current[l])
  BY UniqueEntries
<1>2. /\ wanted \in Seq(S)
      /\ \A e : Contains(wanted, e) <=> Contains(desired, e)
      /\ \A k, l \in 1..Len(wanted) :
            k < l => FirstAt(desired, wanted[k]) < FirstAt(desired, wanted[l])
  BY UniqueEntries
<1> HIDE DEF current, wanted
<1>3. /\ rest \in Seq(S)
      /\ \A e : Contains(rest, e) <=> Contains(current, e)
      /\ \A k, l \in 1..Len(rest) :
            k < l => FirstAt(current, rest[k]) < FirstAt(current, rest[l])
  BY <1>1, UniqueEntries
<1> HIDE DEF rest
<1>4. I \in SUBSET (1..Len(wanted)) /\ J \in SUBSET (1..Len(rest))
  BY DEF Among
<1> HIDE DEF I, J
<1>5. /\ first \in Seq(S)
      /\ \A k \in 1..Len(first) : Nth(I, k) \in I /\ first[k] = wanted[Nth(I, k)]
      /\ \A k, l \in 1..Len(first) : k < l => Nth(I, k) < Nth(I, l)
  BY <1>2, <1>4, Picked
<1>6. /\ tail \in Seq(S)
      /\ \A k \in 1..Len(tail) : Nth(J, k) \in J /\ tail[k] = rest[Nth(J, k)]
      /\ \A k, l \in 1..Len(tail) : k < l => Nth(J, k) < Nth(J, l)
  BY <1>3, <1>4, Picked
<1>7. \A e : Contains(first, e) <=> Contains(desired, e) /\ Contains(entries, e)
  <2> SUFFICES ASSUME NEW e
               PROVE  Contains(first, e) <=> Contains(desired, e) /\ Contains(entries, e)
    OBVIOUS
  <2>1. Contains(first, e) <=> \E i \in I : wanted[i] = e
    BY <1>2, <1>4, PickedContains
  <2>2. (\E i \in I : wanted[i] = e) <=> Contains(wanted, e) /\ Contains(current, e)
    BY DEF Among, Contains, I, J
  <2> QED  BY <2>1, <2>2, <1>1, <1>2
<1> HIDE DEF first
<1>8. \A e : Contains(tail, e) <=> Contains(entries, e) /\ ~Contains(desired, e)
  <2> SUFFICES ASSUME NEW e
               PROVE  Contains(tail, e) <=> Contains(entries, e) /\ ~Contains(desired, e)
    OBVIOUS
  <2>1. Contains(tail, e) <=> \E i \in J : rest[i] = e
    BY <1>3, <1>4, PickedContains
  <2>2. (\E i \in J : rest[i] = e) <=> Contains(rest, e) /\ ~Contains(first, e)
    BY DEF Among, Contains, I, J
  <2> QED  BY <2>1, <2>2, <1>1, <1>3, <1>7
<1>9. \A k, l \in 1..Len(first) : k < l => place(first[k]) < place(first[l])
  <2> SUFFICES ASSUME NEW k \in 1..Len(first), NEW l \in 1..Len(first), k < l
               PROVE  place(first[k]) < place(first[l])
    OBVIOUS
  <2>1. Contains(desired, first[k]) /\ Contains(desired, first[l])
    BY <1>7 DEF Contains
  <2>2. FirstAt(desired, first[k]) < FirstAt(desired, first[l])
    BY <1>2, <1>4, <1>5
  <2> QED  BY <2>1, <2>2 DEF PlaceIn
<1>10. \A k, l \in 1..Len(tail) : k < l => place(tail[k]) < place(tail[l])
  <2> SUFFICES ASSUME NEW k \in 1..Len(tail), NEW l \in 1..Len(tail), k < l
               PROVE  place(tail[k]) < place(tail[l])
    OBVIOUS
  <2> DEFINE a == tail[k]
             b == tail[l]
  <2>1. /\ ~Contains(desired, a) /\ ~Contains(desired, b)
        /\ Contains(entries, a) /\ Contains(entries, b)
    BY <1>8 DEF Contains
  <2>2. FirstAt(current, a) < FirstAt(current, b)
    BY <1>3, <1>4, <1>6
  <2>3. /\ FirstAt(current, a) \in 1..Len(current) /\ current[FirstAt(current, a)] = a
        /\ FirstAt(current, b) \in 1..Len(current) /\ current[FirstAt(current, b)] = b
    BY <1>1, <2>1, FirstOfContained
  <2>4. FirstAt(entries, a) < FirstAt(entries, b)
    BY <1>1, <2>2, <2>3
  <2>5. /\ Len(desired) \in Nat
        /\ FirstAt(entries, a) \in 1..Len(entries) /\ FirstAt(entries, b) \in 1..Len(entries)
    BY <2>1, FirstOfContained
  <2> HIDE DEF a, b
  <2>6. place(a) < place(b)
    BY <2>1, <2>4, <2>5 DEF PlaceIn
  <2> QED  BY <2>6 DEF a, b
<1>11. \A k \in 1..Len(first), l \in 1..Len(tail) : place(first[k]) < place(tail[l])
  <2> SUFFICES ASSUME NEW k \in 1..Len(first), NEW l \in 1..Len(tail)
               PROVE  place(first[k]) < place(tail[l])
    OBVIOUS
  <2> DEFINE a == first[k]
             b == tail[l]
  <2>1. Contains(desired, a) /\ ~Contains(desired, b) /\ Contains(entries, b)
    BY <1>7, <1>8 DEF Contains
  <2>2. FirstAt(desired, a) \in 1..Len(desired) /\ FirstAt(entries, b) \in 1..Len(entries)
    BY <2>1, FirstOfContained
  <2>3. Len(desired) \in Nat
    OBVIOUS
  <2> HIDE DEF a, b
  <2>4. place(a) < place(b)
    BY <2>1, <2>2, <2>3 DEF PlaceIn
  <2> QED  BY <2>4 DEF a, b
<1> HIDE DEF tail, place
<1> DEFINE ordered == first \o tail
<1>12. /\ ordered \in Seq(S) /\ Len(ordered) = Len(first) + Len(tail)
       /\ Len(first) \in Nat /\ Len(tail) \in Nat
       /\ \A k \in 1..Len(ordered) :
             ordered[k] = IF k <= Len(first) THEN first[k] ELSE tail[k - Len(first)]
  BY <1>5, <1>6, ConcatProperties
<1> HIDE DEF ordered
<1>13. \A e : Contains(ordered, e) <=> Contains(first, e) \/ Contains(tail, e)
  <2>1. ASSUME NEW k \in 1..Len(ordered)
        PROVE  Contains(first, ordered[k]) \/ Contains(tail, ordered[k])
    <3>1. CASE k <= Len(first)
      <4>1. k \in 1..Len(first) /\ ordered[k] = first[k]
        BY <3>1, <1>12
      <4> QED  BY <4>1 DEF Contains
    <3>2. CASE ~(k <= Len(first))
      <4>1. k - Len(first) \in 1..Len(tail) /\ ordered[k] = tail[k - Len(first)]
        BY <3>2, <1>12
      <4> QED  BY <4>1 DEF Contains
    <3> QED  BY <3>1, <3>2
  <2>2. ASSUME NEW k \in 1..Len(first) PROVE Contains(ordered, first[k])
    <3>1. k \in 1..Len(ordered) /\ k <= Len(first)
      BY <1>12
    <3> QED  BY <3>1, <1>12 DEF Contains
  <2>3. ASSUME NEW k \in 1..Len(tail) PROVE Contains(ordered, tail[k])
    <3>1. /\ Len(first) + k \in 1..Len(ordered) /\ ~(Len(first) + k <= Len(first))
          /\ (Len(first) + k) - Len(first) = k
      BY <1>12
    <3> QED  BY <3>1, <1>12 DEF Contains
  <2>4. ASSUME NEW e, Contains(ordered, e) PROVE Contains(first, e) \/ Contains(tail, e)
    BY <2>1, <2>4, Zenon DEF Contains
  <2>5. ASSUME NEW e, Contains(first, e) PROVE Contains(ordered, e)
    <3>1. PICK k \in 1..Len(first) : first[k] = e
      BY <2>5, Zenon DEF Contains
    <3> QED  BY <2>2, <3>1, Zenon
  <2>6. ASSUME NEW e, Contains(tail, e) PROVE Contains(ordered, e)
    <3>1. PICK k \in 1..Len(tail) : tail[k] = e
      BY <2>6, Zenon DEF Contains
    <3> QED  BY <2>3, <3>1, Zenon
  <2> QED  BY <2>4, <2>5, <2>6, Zenon
<1>14. \A e : Contains(ordered, e) <=> Contains(entries, e)
  BY <1>7, <1>8, <1>13
<1>15. ASSUME NEW k \in 1..Len(ordered), NEW l \in 1..Len(ordered), k < l
       PROVE  place(ordered[k]) < place(ordered[l])
  <2>1. CASE l <= Len(first)
    <3>1. /\ k \in 1..Len(first) /\ l \in 1..Len(first) /\ k <= Len(first)
          /\ ordered[k] = first[k] /\ ordered[l] = first[l]
      BY <2>1, <1>12, <1>15
    <3> QED  BY <3>1, <1>9, <1>15
  <2>2. CASE k <= Len(first) /\ ~(l <= Len(first))
    <3>1. /\ k \in 1..Len(first) /\ l - Len(first) \in 1..Len(tail)
          /\ ordered[k] = first[k] /\ ordered[l] = tail[l - Len(first)]
      BY <2>2, <1>12
    <3> QED  BY <3>1, <1>11
  <2>3. CASE ~(k <= Len(first)) /\ ~(l <= Len(first))
    <3>1. /\ k - Len(first) \in 1..Len(tail) /\ l - Len(first) \in 1..Len(tail)
          /\ k - Len(first) < l - Len(first)
          /\ ordered[k] = tail[k - Len(first)] /\ ordered[l] = tail[l - Len(first)]
      BY <2>3, <1>12, <1>15
    <3> QED  BY <3>1, <1>10
  <2>4. (l <= Len(first) \/ ~(l <= Len(first))) /\ (k <= Len(first) \/ ~(k <= Len(first)))
    OBVIOUS
  <2> QED  BY <2>1, <2>2, <2>3, <2>4
<1>16. ordered = ReorderEntries(Unique(entries), desired)
  BY DEF ReorderEntries, ordered, first, tail, rest, wanted, current, I, J
<1> QED  BY <1>12, <1>14, <1>15, <1>16 DEF place

-----------------------------------------------------------------------------
(***************************************************************************)
(* What a rewrite makes of a menu.                                         *)
(***************************************************************************)

LEMMA TitlesOf ==
    ASSUME NEW m \in Seq(MenuBlock)
    PROVE  /\ Titles(m) \in Seq(STRING) /\ Len(Titles(m)) = Len(m)
           /\ \A i \in 1..Len(m) : Titles(m)[i] = m[i].title
<1>1. Len(m) \in Nat /\ \A i \in 1..Len(m) : m[i] \in MenuBlock
  OBVIOUS
<1>2. Titles(m) \in [1..Len(m) -> STRING]
  BY <1>1 DEF Titles, MenuBlock
<1> QED  BY <1>1, <1>2 DEF Titles

\* The block that stands for a title has it.
LEMMA BlockHasTitle ==
    ASSUME NEW m \in Seq(MenuBlock), NEW title, Contains(Titles(m), title)
    PROVE  BlockOf(m, title) \in 1..Len(m) /\ m[BlockOf(m, title)].title = title
<1> DEFINE I == {i \in 1..Len(m) : m[i].title = title}
<1>1. Len(m) \in Nat /\ I \in SUBSET (1..Len(m)) /\ I # {}
  BY TitlesOf DEF Contains
<1>2. PICK i \in I : \A j \in I : j <= i
  BY <1>1, EndPositions
<1>3. i \in 1..Len(m) /\ m[i].title = title
  BY <1>2
<1>4. ASSUME NEW j \in i + 1..Len(m) PROVE m[j].title # title
  <2>1. j \in 1..Len(m) /\ ~(j <= i)
    BY <1>1, <1>3
  <2> QED  BY <2>1, <1>2
<1> QED  BY <1>3, <1>4 DEF BlockOf

\* What MenuAsConfigured says of a file.
Configured(now, was, desired) ==
    LET titles == Titles(now)
    IN  /\ ToSet(titles) = ToSet(Titles(was))
        /\ \A t, u \in ToSet(titles) :
             Rank(was, desired, t) < Rank(was, desired, u)
             => FirstAt(titles, t) < FirstAt(titles, u)
        /\ IsInjective(titles) \/ now = was
        /\ ToSet(now) \subseteq ToSet(was)

LEMMA InSequence ==
    ASSUME NEW S, NEW s \in Seq(S)
    PROVE  \A e : e \in ToSet(s) <=> Contains(s, e)
BY DEF ToSet, Contains

\* Entries that are each in their place come in the order of their ranks, and
\* none twice.
LEMMA PlacedInOrder ==
    ASSUME NEW m \in Seq(MenuBlock), NEW desired \in Seq(STRING), NEW ordered \in Seq(STRING),
           \A e : Contains(ordered, e) <=> Contains(Titles(m), e),
           \A k, l \in 1..Len(ordered) :
              k < l => PlaceIn(Titles(m), desired, ordered[k])
                          < PlaceIn(Titles(m), desired, ordered[l])
    PROVE  \A k, l \in 1..Len(ordered) :
              /\ ordered[k] = ordered[l] => k = l
              /\ Rank(m, desired, ordered[k]) < Rank(m, desired, ordered[l]) => k < l
<1>1. \A k \in 1..Len(ordered) : Rank(m, desired, ordered[k]) \in Nat
  <2> SUFFICES ASSUME NEW k \in 1..Len(ordered)
               PROVE  Rank(m, desired, ordered[k]) \in Nat
    OBVIOUS
  <2>1. Titles(m) \in Seq(STRING) /\ Contains(Titles(m), ordered[k])
    BY TitlesOf DEF Contains
  <2>2. FirstAt(Titles(m), ordered[k]) \in 1..Len(Titles(m)) /\ Len(desired) \in Nat
    BY <2>1, FirstOfContained
  <2>3. Contains(desired, ordered[k]) => FirstAt(desired, ordered[k]) \in 1..Len(desired)
    BY FirstOfContained
  <2> QED  BY <2>2, <2>3 DEF Rank
<1>2. \A k, l \in 1..Len(ordered) :
         k < l => Rank(m, desired, ordered[k]) < Rank(m, desired, ordered[l])
  BY DEF Rank, PlaceIn
<1>3. Len(ordered) \in Nat
  OBVIOUS
<1> QED  BY <1>1, <1>2, <1>3

LEMMA RewriteConfigures ==
    ASSUME NEW m \in Seq(MenuBlock), NEW desired \in Seq(STRING)
    PROVE  /\ Rewritten(m, desired) \in Seq(MenuBlock)
           /\ Configured(Rewritten(m, desired), m, desired)
<1> DEFINE entries == Unique(Titles(m))
           ordered == ReorderEntries(entries, desired)
           new == [i \in 1..Len(ordered) |-> m[BlockOf(m, ordered[i])]]
<1>1. /\ Titles(m) \in Seq(STRING) /\ Len(Titles(m)) = Len(m)
      /\ \A i \in 1..Len(m) : Titles(m)[i] = m[i].title
  BY TitlesOf
<1>2. /\ ordered \in Seq(STRING) /\ Len(ordered) \in Nat
      /\ \A e : Contains(ordered, e) <=> Contains(Titles(m), e)
      /\ \A k, l \in 1..Len(ordered) :
            k < l => PlaceIn(Titles(m), desired, ordered[k])
                        < PlaceIn(Titles(m), desired, ordered[l])
  BY <1>1, Reordered
<1>3. \A k, l \in 1..Len(ordered) :
         /\ ordered[k] = ordered[l] => k = l
         /\ Rank(m, desired, ordered[k]) < Rank(m, desired, ordered[l]) => k < l
  <2> HIDE DEF ordered
  <2> QED  BY <1>2, PlacedInOrder
<1>4. CASE ordered = entries
  <2>1. Rewritten(m, desired) = m
    BY <1>4 DEF Rewritten
  <2>2. \A k, l \in 1..Len(ordered) :
           k < l => FirstAt(Titles(m), ordered[k]) < FirstAt(Titles(m), ordered[l])
    BY <1>1, <1>4, UniqueEntries
  <2> HIDE DEF ordered
  <2>3. ASSUME NEW t \in ToSet(Titles(m)), NEW u \in ToSet(Titles(m)),
               Rank(m, desired, t) < Rank(m, desired, u)
        PROVE  FirstAt(Titles(m), t) < FirstAt(Titles(m), u)
    <3>1. Contains(ordered, t) /\ Contains(ordered, u)
      BY <1>1, <1>2, InSequence
    <3>2. PICK k \in 1..Len(ordered) : ordered[k] = t
      BY <3>1 DEF Contains
    <3>3. PICK l \in 1..Len(ordered) : ordered[l] = u
      BY <3>1 DEF Contains
    <3> QED  BY <1>3, <2>2, <2>3, <3>2, <3>3
  <2> QED  BY <2>1, <2>3 DEF Configured
<1>5. CASE ordered # entries
  <2>1. Rewritten(m, desired) = new
    BY <1>5 DEF Rewritten
  <2> HIDE DEF ordered
  <2>2. \A k \in 1..Len(ordered) :
           /\ BlockOf(m, ordered[k]) \in 1..Len(m)
           /\ m[BlockOf(m, ordered[k])].title = ordered[k]
    BY <1>2, BlockHasTitle DEF Contains
  <2>3. new \in [1..Len(ordered) -> MenuBlock]
    BY <2>2
  <2>4. /\ new \in Seq(MenuBlock) /\ Len(new) = Len(ordered)
        /\ \A k \in 1..Len(ordered) : new[k].title = ordered[k]
    BY <1>2, <2>2, <2>3
  <2>5. ToSet(new) \subseteq ToSet(m)
    BY <2>2, <2>3 DEF ToSet
  <2> HIDE DEF new
  <2> DEFINE titles == Titles(new)
  <2>6. /\ Len(titles) = Len(ordered) /\ titles \in Seq(STRING)
        /\ \A k \in 1..Len(ordered) : titles[k] = ordered[k]
    BY <2>4, TitlesOf
  <2> HIDE DEF titles
  <2>7. \A e : Contains(titles, e) <=> Contains(ordered, e)
    BY <2>6 DEF Contains
  <2>8. ToSet(titles) = ToSet(Titles(m))
    BY <1>1, <1>2, <2>6, <2>7, InSequence
  <2>9. IsInjective(titles)
    <3>1. DOMAIN titles = 1..Len(ordered)
      BY <2>6
    <3> QED  BY <1>3, <2>6, <3>1 DEF IsInjective
  <2>10. \A k \in 1..Len(ordered) : FirstAt(titles, ordered[k]) = k
    <3> SUFFICES ASSUME NEW k \in 1..Len(ordered) PROVE FirstAt(titles, ordered[k]) = k
      OBVIOUS
    <3>1. Contains(titles, ordered[k])
      BY <2>6 DEF Contains
    <3>2. /\ FirstAt(titles, ordered[k]) \in 1..Len(ordered)
          /\ titles[FirstAt(titles, ordered[k])] = ordered[k]
      BY <2>6, <3>1, FirstOfContained
    <3> QED  BY <1>3, <2>6, <3>2
  <2>11. ASSUME NEW t \in ToSet(titles), NEW u \in ToSet(titles),
                Rank(m, desired, t) < Rank(m, desired, u)
         PROVE  FirstAt(titles, t) < FirstAt(titles, u)
    <3>1. Contains(ordered, t) /\ Contains(ordered, u)
      BY <2>6, <2>7, InSequence
    <3>2. PICK k \in 1..Len(ordered) : ordered[k] = t
      BY <3>1 DEF Contains
    <3>3. PICK l \in 1..Len(ordered) : ordered[l] = u
      BY <3>1 DEF Contains
    <3> QED  BY <1>3, <2>10, <2>11, <3>2, <3>3
  <2> QED  BY <2>1, <2>4, <2>5, <2>8, <2>9, <2>11 DEF Configured, titles
<1> QED  BY <1>4, <1>5

\* A file without entries has no menu, and its rewrite is what it is.
LEMMA NothingUnique ==
    ASSUME NEW S, NEW s \in Seq(S), Unique(s) = <<>>
    PROVE  Len(s) = 0
<1>1. \A e : Contains(Unique(s), e) <=> Contains(s, e)
  BY UniqueEntries
<1>2. \A e : ~Contains(Unique(s), e)
  BY DEF Contains
<1>3. Len(s) \in Nat /\ \A i \in 1..Len(s) : Contains(s, s[i])
  BY DEF Contains
<1> QED  BY <1>1, <1>2, <1>3

LEMMA NoEntriesNoMenu ==
    ASSUME NEW m \in Seq(MenuBlock), Entries(m) = <<>>, NEW desired \in Seq(STRING)
    PROVE  Rewritten(m, desired) = m
<1> DEFINE labelled == {i \in 1..Len(m) : m[i].labelled}
<1>1. labelled \in SUBSET (1..Len(m)) /\ Len(m) \in Nat
  OBVIOUS
<1>2. labelled = {}
  <2> SUFFICES ASSUME labelled # {} PROVE FALSE
    OBVIOUS
  <2>1. Unique(Titles(Pick(m, labelled))) = <<>>
    BY DEF Entries
  <2>2. Pick(m, labelled) \in Seq(MenuBlock) /\ Len(Pick(m, labelled)) = Cardinality(labelled)
    BY <1>1, Picked
  <2>3. Len(Titles(Pick(m, labelled))) = 0
    BY <2>1, <2>2, TitlesOf, NothingUnique
  <2>4. Cardinality(labelled) # 0
    BY <1>1, PositionCounts, FS_EmptySet
  <2> QED  BY <2>2, <2>3, <2>4, TitlesOf
<1>3. Unique(Titles(m)) = <<>>
  BY <1>2 DEF Entries
<1> DEFINE ordered == ReorderEntries(Unique(Titles(m)), desired)
<1>4. Len(Titles(m)) = 0 /\ Titles(m) \in Seq(STRING)
  BY <1>3, TitlesOf, NothingUnique
<1>5. ordered \in Seq(STRING) /\ \A e : Contains(ordered, e) <=> Contains(Titles(m), e)
  BY <1>4, Reordered
<1> HIDE DEF ordered
<1>6. \A e : ~Contains(Titles(m), e)
  BY <1>4 DEF Contains
<1>7. Len(ordered) \in Nat /\ \A i \in 1..Len(ordered) : Contains(ordered, ordered[i])
  BY <1>5 DEF Contains
<1>8. ordered = <<>>
  <2>1. Len(ordered) = 0
    BY <1>5, <1>6, <1>7
  <2> QED  BY <1>5, <2>1
<1> QED  BY <1>3, <1>8 DEF Rewritten, ordered

-----------------------------------------------------------------------------
(***************************************************************************)
(* The files of a drive, over runs and crashes.                            *)
(***************************************************************************)

Names == ToSet(Files)

MenuTypes ==
    /\ menu \in [Names -> Seq(MenuBlock)] /\ shipped \in [Names -> Seq(MenuBlock)]
    /\ found \in [Names -> Seq(MenuBlock)]
    /\ backups \in [Names -> Seq(Seq(MenuBlock))]
    /\ before \in Seq(MenuBlock) /\ order \in Seq(STRING)
    /\ next \in 1..Len(Files) + 1
    /\ step \in {"read", "backup", "write", "verify", "restore", "failed", "released",
                 "pulled"}
    /\ next = Len(Files) + 1 => step \in {"read", "released", "pulled"}

\* A file that the run has come past is as configured, one that it has not
\* come to is as it was found; until the drive is pulled.
ProgressInv ==
    step # "pulled" =>
      \A k \in 1..Len(Files) :
        LET f == Files[k]
        IN  /\ k < next => menu[f] = Rewritten(found[f], order)
            /\ k > next => menu[f] = found[f]
            /\ k = next =>
                  /\ step \in {"read", "backup", "write"} => menu[f] = found[f]
                  /\ step \in {"backup", "write", "verify"} => before = found[f]
                  /\ step = "verify" => menu[f] = Rewritten(before, order)

\* From the backup on the menu of the file is among its backups.
BackupInv ==
    /\ ShippedMenuKept
    /\ step \in {"write", "verify", "restore"} =>
          /\ backups[File] # <<>>
          /\ File \notin lost => Contains(backups[File], shipped[File])

\* The shipped menu of a file is on the drive: as the file, where nothing waits
\* to overwrite it, or as a backup that was there when the drive was mounted.
OnDrive(f) ==
    /\ kept[f] \in 0..Len(backups[f])
    /\ menu[f] \in reached[f]
    /\ \/ f \in lost \/ WrittenOver(f)
       \/ menu[f] = shipped[f]
       \/ Contains(SubSeq(backups[f], 1, kept[f]), shipped[f])

DriveInv ==
    /\ reached \in [Names -> SUBSET Seq(MenuBlock)]
    /\ \A f \in Names : OnDrive(f)

OrderInv == MenuTypes /\ ProgressInv /\ BackupInv /\ DriveInv

LEMMA FilesAre ==
    /\ Len(Files) \in Nat
    /\ \A k \in 1..Len(Files) : Files[k] \in Names
    /\ \A f \in Names : \E k \in 1..Len(Files) : Files[k] = f
    /\ \A j, k \in 1..Len(Files) : Files[j] = Files[k] => j = k
<1>1. Files \in Seq(STRING) /\ IsInjective(Files)
  BY BootOrderAssumption
<1>2. Len(Files) \in Nat /\ DOMAIN Files = 1..Len(Files)
  BY <1>1
<1> QED  BY <1>1, <1>2 DEF Names, ToSet, IsInjective

LEMMA InitOrder == OrderInit => OrderInv
<1> SUFFICES ASSUME OrderInit PROVE OrderInv
  OBVIOUS
<1>1. \A f \in Names : menu[f] \in Seq(MenuBlock)
  BY BootOrderAssumption DEF OrderInit, Names
<1>2. menu \in [Names -> Seq(MenuBlock)]
  <2>1. menu \in [Names -> UNION {Menus[f] : f \in Names}]
    BY DEF OrderInit, Names
  <2> QED  BY <2>1, <1>1
<1>3. order \in Seq(STRING)
  BY BootOrderAssumption DEF OrderInit
<1>4. MenuTypes
  BY <1>2, <1>3, FilesAre DEF OrderInit, MenuTypes, Names
<1>5. DriveInv
  <2>1. reached \in [Names -> SUBSET Seq(MenuBlock)]
    BY <1>1 DEF OrderInit, Names
  <2> QED  BY <1>1, <2>1 DEF OrderInit, DriveInv, OnDrive, Names
<1> QED
  BY <1>4, <1>5, FilesAre
  DEF OrderInit, OrderInv, ProgressInv, BackupInv, ShippedMenuKept, ShippedIn, Names

\* The file that the run has come to, and what becomes of the others.
LEMMA AtFile ==
    ASSUME MenuTypes, next <= Len(Files)
    PROVE  /\ File \in Names /\ next \in 1..Len(Files)
           /\ \A k \in 1..Len(Files) : Files[k] = File <=> k = next
           /\ menu[File] \in Seq(MenuBlock)
           /\ Rewritten(menu[File], order) \in Seq(MenuBlock)
           /\ Rewritten(before, order) \in Seq(MenuBlock)
<1>1. next \in 1..Len(Files)
  BY FilesAre DEF MenuTypes
<1>2. File \in Names /\ \A k \in 1..Len(Files) : Files[k] = File <=> k = next
  BY <1>1, FilesAre DEF File
<1>3. menu[File] \in Seq(MenuBlock)
  BY <1>2 DEF MenuTypes
<1> QED  BY <1>1, <1>2, <1>3, RewriteConfigures DEF MenuTypes

\* What is there of a file after a cut is a menu.
LEMMA CutMenu == ASSUME NEW S, NEW m \in Seq(S) PROVE Cut(m) \subseteq Seq(S)
<1> SUFFICES ASSUME NEW n \in 0..Len(m) PROVE SubSeq(m, 1, n) \in Seq(S)
  BY DEF Cut
<1>1. Len(m) \in Nat /\ \A i \in 1..n : m[i] \in S
  OBVIOUS
<1> QED  BY <1>1, SubSeqProperties

\* A backup that is added leaves those that are there.
LEMMA Appended ==
    ASSUME NEW S, NEW s \in Seq(S), NEW x \in S
    PROVE  /\ Append(s, x) \in Seq(S) /\ Append(s, x) # <<>>
           /\ Contains(Append(s, x), x)
           /\ \A e : Contains(s, e) => Contains(Append(s, x), e)
<1>1. /\ Append(s, x) \in Seq(S) /\ Len(Append(s, x)) = Len(s) + 1 /\ Len(s) \in Nat
      /\ Append(s, x)[Len(s) + 1] = x
      /\ \A i \in 1..Len(s) : Append(s, x)[i] = s[i]
  OBVIOUS
<1>2. Len(s) + 1 \in 1..Len(Append(s, x)) /\ \A i \in 1..Len(s) : i \in 1..Len(Append(s, x))
  BY <1>1
<1> QED  BY <1>1, <1>2 DEF Contains

LEMMA DriveStays ==
    ASSUME DriveInv, UNCHANGED <<menu, backups, reached, kept, shipped, lost>>
    PROVE  DriveInv'
BY DEF DriveInv, OnDrive, WrittenOver

LEMMA ReadFileKeeps == ASSUME OrderInv, ReadFile PROVE OrderInv'
<1>1. /\ MenuTypes /\ ProgressInv /\ BackupInv /\ step = "read" /\ next <= Len(Files)
      /\ UNCHANGED <<order, runs, shipped, found, menu, backups, reached, kept, lost>>
      /\ before' = menu[File]
  BY DEF ReadFile, At, OrderInv
<1>2. /\ File \in Names /\ next \in 1..Len(Files) /\ File = Files[next]
      /\ menu[File] \in Seq(MenuBlock) /\ order \in Seq(STRING)
      /\ menu[File] = found[File]
  BY <1>1, AtFile DEF ProgressInv, MenuTypes, File
<1>6. DriveInv'
  BY <1>1, DriveStays DEF OrderInv
<1>3. CASE Entries(menu[File]) = <<>> \/ Rewritten(menu[File], order) = menu[File]
  <2>1. next' = next + 1 /\ step' = "read"
    BY <1>3 DEF ReadFile, Skip
  <2>2. Rewritten(found[File], order) = menu[File]
    BY <1>2, <1>3, NoEntriesNoMenu
  <2>3. MenuTypes'
    BY <1>1, <1>2, <2>1, FilesAre DEF MenuTypes
  <2>4. ProgressInv'
    <3> SUFFICES ASSUME NEW k \in 1..Len(Files)
                 PROVE  /\ k < next' => menu'[Files[k]] = Rewritten(found'[Files[k]], order')
                        /\ k >= next' => menu'[Files[k]] = found'[Files[k]]
      BY <1>2, <2>1, FilesAre DEF ProgressInv
    <3>1. k < next' <=> k < next \/ k = next
      BY <1>2, <2>1
    <3>2. k >= next' => k > next
      BY <1>2, <2>1
    <3> QED  BY <1>1, <1>2, <2>2, <3>1, <3>2 DEF ProgressInv
  <2>5. BackupInv'
    BY <1>1, <2>1 DEF BackupInv, ShippedMenuKept, ShippedIn
  <2> QED  BY <1>6, <2>3, <2>4, <2>5 DEF OrderInv
<1>4. CASE ~(Entries(menu[File]) = <<>> \/ Rewritten(menu[File], order) = menu[File])
  <2>1. next' = next /\ step' = "backup"
    BY <1>4 DEF ReadFile
  <2>2. MenuTypes'
    BY <1>1, <1>2, <2>1, FilesAre DEF MenuTypes
  <2>3. ProgressInv'
    BY <1>1, <1>2, <2>1 DEF ProgressInv
  <2>4. BackupInv'
    BY <1>1, <2>1 DEF BackupInv, ShippedMenuKept, ShippedIn
  <2> QED  BY <1>6, <2>2, <2>3, <2>4 DEF OrderInv
<1> QED  BY <1>3, <1>4

\* A backup is added to those of the file: a copy of what it holds, or as much
\* of it as was copied.
LEMMA BackupAdded ==
    ASSUME OrderInv, NEW taken \in Seq(MenuBlock), next <= Len(Files), step = "backup",
           backups' = [backups EXCEPT ![File] = Append(backups[File], taken)],
           UNCHANGED <<order, runs, shipped, found, menu, reached, kept, lost, next, before>>,
           \/ step' = "write" /\ taken = menu[File]
           \/ step' = "failed"
    PROVE  OrderInv'
<1>1. MenuTypes /\ ProgressInv /\ BackupInv /\ DriveInv
  BY DEF OrderInv
<1>2. /\ File \in Names /\ next \in 1..Len(Files) /\ File' = File
      /\ backups[File] \in Seq(Seq(MenuBlock)) /\ Seq(MenuBlock) # {}
  BY <1>1, AtFile DEF MenuTypes, File
<1> DEFINE now == Append(backups[File], taken)
<1>3. /\ now \in Seq(Seq(MenuBlock)) /\ now # <<>> /\ Contains(now, taken)
      /\ \A e : Contains(backups[File], e) => Contains(now, e)
  BY <1>2, Appended
<1>4. /\ kept[File] \in 0..Len(now)
      /\ SubSeq(now, 1, kept[File]) = SubSeq(backups[File], 1, kept[File])
  <2> DEFINE old == backups[File]
             k == kept[File]
  <2>1. k \in 0..Len(old) /\ old \in Seq(Seq(MenuBlock)) /\ Len(old) \in Nat
    BY <1>1, <1>2 DEF DriveInv, OnDrive
  <2>2. Len(now) = Len(old) + 1 /\ \A i \in 1..Len(old) : now[i] = old[i]
    BY <2>1, AppendProperties
  <2>3. \A i \in 1..k : now[i] = old[i] /\ old[i] \in Seq(MenuBlock)
    BY <2>1, <2>2
  <2> HIDE DEF now, old, k
  <2>4. /\ SubSeq(old, 1, k) \in Seq(Seq(MenuBlock)) /\ Len(SubSeq(old, 1, k)) = k
        /\ \A i \in 1..k : SubSeq(old, 1, k)[i] = old[i]
    <3>1. SubSeq(old, 1, k) \in Seq(Seq(MenuBlock)) /\ Len(SubSeq(old, 1, k)) = k
      BY <2>1, <2>3, SubSeqProperties
    <3>2. \A i \in 1..k : SubSeq(old, 1, k)[i] = old[i]
      BY <2>1, <2>3, SubSeqProperties
    <3> QED  BY <3>1, <3>2
  <2>5. /\ SubSeq(now, 1, k) \in Seq(Seq(MenuBlock)) /\ Len(SubSeq(now, 1, k)) = k
        /\ \A i \in 1..k : SubSeq(now, 1, k)[i] = now[i]
    <3>1. SubSeq(now, 1, k) \in Seq(Seq(MenuBlock)) /\ Len(SubSeq(now, 1, k)) = k
      BY <2>1, <2>3, SubSeqProperties
    <3>2. \A i \in 1..k : SubSeq(now, 1, k)[i] = now[i]
      BY <2>1, <2>3, SubSeqProperties
    <3> QED  BY <3>1, <3>2
  <2>6. SubSeq(now, 1, k) = SubSeq(old, 1, k)
    BY <2>3, <2>4, <2>5, SeqEqual
  <2> QED  BY <2>1, <2>2, <2>6 DEF old, k
<1> HIDE DEF now
<1>5. /\ backups'[File] = now
      /\ \A f \in Names \ {File} : backups'[f] = backups[f]
      /\ backups' \in [Names -> Seq(Seq(MenuBlock))]
  BY <1>1, <1>2, <1>3 DEF MenuTypes, now
<1>6. MenuTypes'
  BY <1>1, <1>2, <1>5 DEF MenuTypes
<1>7. ProgressInv'
  BY <1>1 DEF ProgressInv
<1>8. ASSUME File \notin lost
      PROVE  menu[File] = shipped[File] \/ Contains(backups[File], shipped[File])
  BY <1>1, <1>2, <1>8 DEF BackupInv, ShippedMenuKept, ShippedIn, Names
<1>9. ShippedMenuKept'
  BY <1>1, <1>3, <1>5, <1>8 DEF BackupInv, ShippedMenuKept, ShippedIn, Names
<1>10. BackupInv'
  BY <1>2, <1>3, <1>5, <1>8, <1>9 DEF BackupInv
<1>11. DriveInv'
  <2>1. ASSUME NEW f \in Names PROVE OnDrive(f)'
    <3>1. OnDrive(f)
      BY <1>1 DEF DriveInv
    <3> QED  BY <3>1, <1>4, <1>5 DEF OnDrive, WrittenOver
  <2> QED  BY <1>1, <2>1 DEF DriveInv
<1> QED  BY <1>6, <1>7, <1>10, <1>11 DEF OrderInv

LEMMA BackUpKeeps == ASSUME OrderInv, BackUp PROVE OrderInv'
<1>1. /\ next <= Len(Files) /\ step = "backup" /\ step' = "write"
      /\ backups' = [backups EXCEPT ![File] = Append(backups[File], menu[File])]
      /\ UNCHANGED <<order, runs, shipped, found, menu, reached, kept, lost, next, before>>
  BY DEF BackUp, At
<1>2. menu[File] \in Seq(MenuBlock)
  BY <1>1, AtFile DEF OrderInv
<1> QED  BY <1>1, <1>2, BackupAdded

\* The file is written, whole or in part, while a backup of it is there.
LEMMA FileWritten ==
    ASSUME OrderInv, NEW new \in Seq(MenuBlock), step \in {"write", "verify", "restore"},
           next <= Len(Files), Write(File, new),
           UNCHANGED <<order, runs, shipped, found, backups, kept, lost, next, before>>,
           \/ step' = "failed"
           \/ /\ step = "write" /\ step' = "verify"
              /\ new = Rewritten(before, order)
    PROVE  OrderInv'
<1>1. /\ MenuTypes /\ ProgressInv /\ BackupInv /\ DriveInv
      /\ menu' = [menu EXCEPT ![File] = new]
      /\ reached' = [reached EXCEPT ![File] = reached[File] \cup {new} \cup Cut(new)]
  BY DEF OrderInv, Write
<1>2. /\ File \in Names /\ next \in 1..Len(Files) /\ File' = File
      /\ \A k \in 1..Len(Files) : Files[k] = File <=> k = next
  BY <1>1, AtFile DEF File
<1>3. /\ menu'[File] = new /\ \A f \in Names \ {File} : menu'[f] = menu[f]
      /\ menu' \in [Names -> Seq(MenuBlock)]
  BY <1>1, <1>2 DEF MenuTypes
<1>4. MenuTypes'
  BY <1>1, <1>2, <1>3 DEF MenuTypes
<1>5. ProgressInv'
  <2> SUFFICES ASSUME NEW k \in 1..Len(Files)
               PROVE  LET f == Files[k]
                      IN  /\ k < next => menu'[f] = Rewritten(found[f], order)
                          /\ k > next => menu'[f] = found[f]
                          /\ k = next =>
                                /\ step' \in {"read", "backup", "write"} => menu'[f] = found[f]
                                /\ step' \in {"backup", "write", "verify"} => before = found[f]
                                /\ step' = "verify" => menu'[f] = Rewritten(before, order)
    BY DEF ProgressInv
  <2>1. CASE k = next
    <3>1. Files[k] = File /\ (step = "write" => before = found[File])
      BY <1>1, <1>2, <2>1 DEF ProgressInv
    <3> QED  BY <1>3, <2>1, <3>1
  <2>2. CASE k # next
    <3>1. Files[k] \in Names \ {File}
      BY <1>2, <2>2, FilesAre
    <3> QED  BY <1>1, <1>3, <2>2, <3>1 DEF ProgressInv
  <2> QED  BY <2>1, <2>2
<1>6. ShippedMenuKept'
  BY <1>1, <1>3 DEF BackupInv, ShippedMenuKept, ShippedIn, Names
<1>7. BackupInv'
  BY <1>1, <1>2, <1>6 DEF BackupInv
<1>8. DriveInv'
  <2>1. ASSUME NEW f \in Names, f # File PROVE OnDrive(f)'
    <3>1. OnDrive(f) /\ menu'[f] = menu[f] /\ reached'[f] = reached[f]
      BY <1>1, <1>3, <2>1 DEF DriveInv, OnDrive
    <3> QED  BY <3>1 DEF OnDrive, WrittenOver
  <2>2. /\ Cut(new) \subseteq Seq(MenuBlock)
        /\ reached \in [Names -> SUBSET Seq(MenuBlock)] /\ OnDrive(File)
    BY <1>1, <1>2, CutMenu DEF DriveInv
  <2>3. /\ reached'[File] = reached[File] \cup {new} \cup Cut(new)
        /\ reached' \in [Names -> SUBSET Seq(MenuBlock)]
    BY <1>1, <1>2, <2>2
  <2>4. ASSUME ~WrittenOver(File)' PROVE menu'[File] = menu[File] /\ ~WrittenOver(File)
    <3>1. /\ reached'[File] = {menu'[File]} /\ menu[File] \in reached[File]
          /\ reached[File] \subseteq reached'[File]
      BY <1>2, <2>2, <2>3, <2>4 DEF WrittenOver, OnDrive
    <3> QED  BY <3>1 DEF WrittenOver
  <2>5. OnDrive(File)'
    BY <1>2, <1>3, <2>2, <2>3, <2>4 DEF OnDrive
  <2> QED  BY <1>2, <2>1, <2>3, <2>5 DEF DriveInv
<1> QED  BY <1>4, <1>5, <1>7, <1>8 DEF OrderInv

\* What is restored is a menu.
LEMMA LastBackup ==
    ASSUME OrderInv, step = "restore", next <= Len(Files)
    PROVE  Last(backups[File]) \in Seq(MenuBlock)
<1>1. backups[File] \in Seq(Seq(MenuBlock)) /\ backups[File] # <<>>
  BY AtFile DEF OrderInv, MenuTypes, BackupInv
<1>2. Len(backups[File]) \in 1..Len(backups[File])
  BY <1>1
<1> QED  BY <1>1, <1>2 DEF Last

LEMMA VerifyKeeps == ASSUME OrderInv, Verify PROVE OrderInv'
<1>1. /\ MenuTypes /\ ProgressInv /\ BackupInv /\ step = "verify" /\ next <= Len(Files)
      /\ UNCHANGED <<order, runs, shipped, found, menu, backups, reached, kept, lost, before>>
      /\ \/ next' = next + 1 /\ step' = "read"
         \/ next' = next /\ step' = "restore"
  BY DEF Verify, At, Skip, OrderInv
<1>2. /\ File \in Names /\ next \in 1..Len(Files) /\ File = Files[next]
      /\ menu[File] = Rewritten(found[File], order)
  BY <1>1, AtFile DEF ProgressInv, File
<1>3. MenuTypes'
  BY <1>1, <1>2, FilesAre DEF MenuTypes
<1>6. DriveInv'
  BY <1>1, DriveStays DEF OrderInv
<1>4. CASE next' = next + 1 /\ step' = "read"
  <2>1. ProgressInv'
    <3> SUFFICES ASSUME NEW k \in 1..Len(Files)
                 PROVE  /\ k < next' => menu'[Files[k]] = Rewritten(found'[Files[k]], order')
                        /\ k >= next' => menu'[Files[k]] = found'[Files[k]]
      BY <1>2, <1>4, FilesAre DEF ProgressInv
    <3>1. (k < next' <=> k < next \/ k = next) /\ (k >= next' => k > next)
      BY <1>2, <1>4
    <3> QED  BY <1>1, <1>2, <3>1 DEF ProgressInv
  <2>2. BackupInv'
    BY <1>1, <1>4 DEF BackupInv, ShippedMenuKept, ShippedIn
  <2> QED  BY <1>3, <1>6, <2>1, <2>2 DEF OrderInv
<1>5. CASE next' = next /\ step' = "restore"
  <2>1. ProgressInv'
    BY <1>1, <1>5 DEF ProgressInv
  <2>2. BackupInv'
    BY <1>1, <1>5 DEF BackupInv, ShippedMenuKept, ShippedIn, File
  <2> QED  BY <1>3, <1>6, <2>1, <2>2 DEF OrderInv
<1> QED  BY <1>1, <1>4, <1>5

LEMMA InterruptedKeeps == ASSUME OrderInv, Interrupted PROVE OrderInv'
<1>1. /\ MenuTypes /\ ProgressInv /\ BackupInv /\ next <= Len(Files)
      /\ UNCHANGED <<order, runs, shipped, found, kept, lost, next, before>> /\ step' = "failed"
  BY DEF Interrupted, At, OrderInv
<1>2. File \in Names /\ next \in 1..Len(Files)
  BY <1>1, AtFile
<1>3. CASE UNCHANGED <<menu, backups, reached>>
  <2>1. DriveInv'
    BY <1>1, <1>3, DriveStays DEF OrderInv
  <2>2. MenuTypes'
    BY <1>1, <1>2, <1>3 DEF MenuTypes
  <2>3. ProgressInv'
    <3>1. step # "pulled"
      BY DEF Interrupted
    <3> QED  BY <1>1, <1>3, <3>1 DEF ProgressInv
  <2>4. BackupInv'
    BY <1>1, <1>3 DEF BackupInv, ShippedMenuKept, ShippedIn
  <2> QED  BY <2>1, <2>2, <2>3, <2>4 DEF OrderInv
<1>4. CASE /\ step = "backup" /\ UNCHANGED <<menu, reached>>
           /\ \E m \in Cut(menu[File]) :
                 backups' = [backups EXCEPT ![File] = Append(@, m)]
  <2>1. PICK m \in Cut(menu[File]) :
           backups' = [backups EXCEPT ![File] = Append(backups[File], m)]
    BY <1>4
  <2>2. m \in Seq(MenuBlock)
    BY <1>1, AtFile, CutMenu
  <2> QED  BY <1>1, <1>4, <2>1, <2>2, BackupAdded
<1>5. CASE /\ step = "write" /\ UNCHANGED backups
           /\ \E m \in Cut(Rewritten(before, order)) : Write(File, m)
  <2>1. Cut(Rewritten(before, order)) \subseteq Seq(MenuBlock)
    BY <1>1, AtFile, CutMenu
  <2> QED  BY <1>1, <1>5, <2>1, FileWritten
<1>6. CASE /\ step = "restore" /\ UNCHANGED backups
           /\ \E m \in Cut(Last(backups[File])) : Write(File, m)
  <2>1. Cut(Last(backups[File])) \subseteq Seq(MenuBlock)
    BY <1>1, <1>6, LastBackup, CutMenu
  <2> QED  BY <1>1, <1>6, <2>1, FileWritten
<1> QED  BY <1>3, <1>4, <1>5, <1>6 DEF Interrupted

\* Where nothing waits to be written the drive holds what its files show.
LEMMA NothingWaits ==
    ASSUME MenuTypes', ShippedMenuKept', Flushed PROVE DriveInv'
<1>0. reached' \in [Names -> SUBSET Seq(MenuBlock)]
  BY DEF Flushed, MenuTypes, Names
<1> SUFFICES ASSUME NEW f \in Names PROVE OnDrive(f)'
  BY <1>0 DEF DriveInv
<1>1. reached'[f] = {menu'[f]} /\ kept'[f] = Len(backups'[f])
  BY DEF Flushed, Names
<1>2. menu'[f] \in Seq(MenuBlock) /\ backups'[f] \in Seq(Seq(MenuBlock))
  BY DEF MenuTypes
<1>3. SubSeq(backups'[f], 1, kept'[f]) = backups'[f] /\ Len(backups'[f]) \in Nat
  BY <1>1, <1>2, SubSeqFull
<1>4. \/ f \in lost' \/ menu'[f] = shipped'[f]
      \/ Contains(backups'[f], shipped'[f])
  BY DEF ShippedMenuKept, ShippedIn, Names
<1>5. kept'[f] \in 0..Len(backups'[f]) /\ menu'[f] \in reached'[f]
  BY <1>1, <1>3
<1>6. \/ f \in lost' \/ menu'[f] = shipped'[f]
      \/ Contains(SubSeq(backups'[f], 1, kept'[f]), shipped'[f])
  BY <1>3, <1>4
<1> QED  BY <1>5, <1>6 DEF OnDrive

LEMMA UnmountDriveKeeps == ASSUME OrderInv, UnmountDrive PROVE OrderInv'
<1>1. /\ MenuTypes /\ ProgressInv /\ BackupInv /\ step' = "released" /\ Flushed
      /\ UNCHANGED <<menu, backups, order, next, before, runs, shipped, found, lost>>
      /\ step # "pulled"
  BY DEF UnmountDrive, Applied, OrderInv
<1>2. MenuTypes'
  BY <1>1 DEF MenuTypes
<1>3. ProgressInv'
  BY <1>1 DEF ProgressInv
<1>4. ShippedMenuKept'
  BY <1>1 DEF BackupInv, ShippedMenuKept, ShippedIn
<1>5. BackupInv'
  BY <1>1, <1>4 DEF BackupInv
<1> QED  BY <1>1, <1>2, <1>3, <1>4, <1>5, NothingWaits DEF OrderInv

\* A backup that was there when the drive was mounted is there when it was
\* pulled.
LEMMA KeptSurvives ==
    ASSUME MenuTypes, DriveInv, NEW f \in Names, NEW saved \in Surviving(f)
    PROVE  /\ saved \in Seq(Seq(MenuBlock))
           /\ \A e : Contains(SubSeq(backups[f], 1, kept[f]), e) => Contains(saved, e)
<1> DEFINE safe == SubSeq(backups[f], 1, kept[f])
<1>1. backups[f] \in Seq(Seq(MenuBlock)) /\ kept[f] \in 0..Len(backups[f])
  BY DEF MenuTypes, DriveInv, OnDrive
<1>2. safe \in Seq(Seq(MenuBlock))
  BY <1>1, SubSeqProperties
<1>3. CASE saved = safe
  BY <1>2, <1>3
<1>4. CASE /\ Len(backups[f]) # kept[f]
           /\ \E m \in {Last(backups[f])} \cup Cut(Last(backups[f])) : saved = Append(safe, m)
  <2>1. PICK m \in {Last(backups[f])} \cup Cut(Last(backups[f])) : saved = Append(safe, m)
    BY <1>4
  <2>2. Len(backups[f]) \in 1..Len(backups[f])
    BY <1>1, <1>4
  <2>3. Last(backups[f]) \in Seq(MenuBlock)
    BY <1>1, <2>2 DEF Last
  <2>4. m \in Seq(MenuBlock)
    BY <2>1, <2>3, CutMenu
  <2> HIDE DEF safe
  <2>5. saved \in Seq(Seq(MenuBlock)) /\ \A e : Contains(safe, e) => Contains(saved, e)
    BY <1>2, <2>1, <2>4, Appended
  <2> QED  BY <2>5 DEF safe
<1> QED  BY <1>3, <1>4 DEF Surviving

LEMMA PullKeeps == ASSUME OrderInv, Pull PROVE OrderInv'
<1>1. /\ MenuTypes /\ BackupInv /\ DriveInv /\ step' = "pulled" /\ Flushed
      /\ UNCHANGED <<order, next, before, runs, shipped, found>>
      /\ menu' \in [Names -> UNION {reached[f] : f \in Names}]
      /\ backups' \in [Names -> UNION {Surviving(f) : f \in Names}]
      /\ \A f \in Names : menu'[f] \in reached[f] /\ backups'[f] \in Surviving(f)
  BY DEF Pull, OrderInv, Names
<1>2. \A f \in Names : f \in lost' <=>
         \/ f \in lost
         \/ /\ WrittenOver(f)
            /\ ~Contains(SubSeq(backups[f], 1, kept[f]), shipped[f])
            /\ ~ShippedIn(menu', backups', f)
  BY DEF Pull, Names
<1>3. MenuTypes'
  <2>1. \A f \in Names : menu'[f] \in Seq(MenuBlock)
    BY <1>1 DEF DriveInv, OnDrive
  <2>2. \A f \in Names : backups'[f] \in Seq(Seq(MenuBlock))
    BY <1>1, KeptSurvives
  <2>3. /\ menu' \in [Names -> Seq(MenuBlock)]
        /\ backups' \in [Names -> Seq(Seq(MenuBlock))]
    BY <1>1, <2>1, <2>2
  <2> QED  BY <1>1, <2>3 DEF MenuTypes
<1>4. ASSUME NEW f \in Names, f \notin lost' PROVE ShippedIn(menu', backups', f)
  <2>1. CASE Contains(SubSeq(backups[f], 1, kept[f]), shipped[f])
    <3>1. Contains(backups'[f], shipped[f])
      BY <1>1, <2>1, KeptSurvives
    <3> QED  BY <3>1 DEF ShippedIn
  <2>2. CASE ~WrittenOver(f) /\ ~Contains(SubSeq(backups[f], 1, kept[f]), shipped[f])
    <3>1. menu[f] = shipped[f]
      BY <1>1, <1>2, <1>4, <2>2 DEF DriveInv, OnDrive
    <3>2. menu'[f] = menu[f]
      BY <1>1, <2>2 DEF WrittenOver
    <3> QED  BY <3>1, <3>2 DEF ShippedIn
  <2> QED  BY <1>2, <1>4, <2>1, <2>2
<1>5. ShippedMenuKept'
  BY <1>1, <1>4 DEF ShippedMenuKept, ShippedIn, Names
<1>6. ProgressInv' /\ BackupInv'
  BY <1>1, <1>5 DEF ProgressInv, BackupInv
<1> QED  BY <1>1, <1>3, <1>5, <1>6, NothingWaits DEF OrderInv

LEMMA RunAgainKeeps == ASSUME OrderInv, RunAgain PROVE OrderInv'
<1>1. /\ MenuTypes /\ BackupInv /\ order' \in Seq(STRING)
      /\ next' = 1 /\ before' = <<>> /\ step' = "read" /\ found' = menu
      /\ UNCHANGED <<menu, backups, reached, kept, shipped, lost>>
  BY BootOrderAssumption DEF RunAgain, OrderInv, onDrive
<1>2. MenuTypes'
  BY <1>1, FilesAre DEF MenuTypes
<1>3. ProgressInv'
  BY <1>1, FilesAre DEF ProgressInv
<1>4. BackupInv'
  BY <1>1 DEF BackupInv, ShippedMenuKept, ShippedIn
<1>5. DriveInv'
  BY <1>1, DriveStays DEF OrderInv
<1> QED  BY <1>2, <1>3, <1>4, <1>5 DEF OrderInv

LEMMA StepKeepsOrder == ASSUME OrderInv, [OrderNext]_orderVars PROVE OrderInv'
<1>1. CASE WriteFile
  <2>1. next <= Len(Files) /\ Rewritten(before, order) \in Seq(MenuBlock)
    BY <1>1, AtFile DEF OrderInv, WriteFile, At
  <2> QED  BY <1>1, <2>1, FileWritten DEF WriteFile, At
<1>2. CASE Restore
  <2>1. next <= Len(Files) /\ Last(backups[File]) \in Seq(MenuBlock)
    BY <1>2, LastBackup DEF Restore, At
  <2> QED  BY <1>2, <2>1, FileWritten DEF Restore, At
<1>3. CASE UNCHANGED orderVars
  <2>1. DriveInv'
    BY <1>3, DriveStays DEF OrderInv, orderVars
  <2> QED
    BY <1>3, <2>1
    DEF orderVars, OrderInv, MenuTypes, ProgressInv, BackupInv, ShippedMenuKept, ShippedIn, File
<1> QED
  BY <1>1, <1>2, <1>3, ReadFileKeeps, BackUpKeeps, VerifyKeeps, InterruptedKeeps,
     UnmountDriveKeeps, PullKeeps, RunAgainKeeps DEF OrderNext

LEMMA OrderAlways == OrderSpec => []OrderInv
BY InitOrder, StepKeepsOrder, PTL DEF OrderSpec

(* The menu a drive was shipped with is in its file or in a backup, at     *)
(* every moment, for any number of files, of runs, of writes cut short and *)
(* of drives pulled; but for a file whose first rewriting was not          *)
(* unmounted before the drive was pulled.                                  *)
THEOREM ShippedMenuIsKept == OrderSpec => []ShippedMenuKept
<1>1. OrderInv => ShippedMenuKept
  BY DEF OrderInv, BackupInv
<1> QED  BY <1>1, OrderAlways, PTL

(* A run that reports success leaves every file with the titles it had, in *)
(* the configured order: for every menu and every order, with whatever     *)
(* titles repeat or are unknown, and whether the file was rewritten or     *)
(* left alone.  A file that was rewritten has each title once, over a      *)
(* block that had it.                                                      *)
THEOREM MenuIsAsConfigured == OrderSpec => []MenuAsConfigured
<1>1. ASSUME OrderInv, Applied, NEW f \in ToSet(Files)
      PROVE  Configured(menu[f], found[f], order)
  <2>1. MenuTypes /\ ProgressInv
    BY <1>1 DEF OrderInv
  <2>2. PICK k \in 1..Len(Files) : Files[k] = f
    BY FilesAre DEF Names
  <2>3. k < next /\ step # "pulled"
    BY <1>1, <2>1, FilesAre DEF Applied, MenuTypes
  <2>4. menu[f] = Rewritten(found[f], order) /\ found[f] \in Seq(MenuBlock)
    BY <2>1, <2>2, <2>3 DEF ProgressInv, MenuTypes, Names
  <2> QED  BY <2>1, <2>4, RewriteConfigures DEF MenuTypes
<1>2. OrderInv => MenuAsConfigured
  BY <1>1 DEF MenuAsConfigured, Configured
<1> QED  BY <1>2, OrderAlways, PTL

=============================================================================
