------------------------ MODULE LegacyInstallerProofs ------------------------
(***************************************************************************)
(* What the vendored installer guarantees for every set of sticks and      *)
(* ports, and for any number of attempts, clicks and plug events.          *)
(***************************************************************************)
EXTENDS MCInstallers, WholeDiskInstallProofs, GuestSmokeProofs

Ui == [drive: Name \cup {NoPort}, listed: SUBSET Name,
       target_selected: BOOLEAN, target_available: BOOLEAN, partition: BOOLEAN,
       force_reinstall: BOOLEAN, force_available: BOOLEAN, clone_persistent: BOOLEAN,
       start: BOOLEAN, reinstall: BOOLEAN, choices: BOOLEAN,
       source: {"running", "none", "iso"}, source_dev: Port \cup {NoPort}]

WindowTypes == drives \in [Name -> Stick \cup {NoStick}] /\ ui \in Ui

\* The stick Tails runs from is at home, and the window never offers its port.
Away(n) == n = NoPort \/ n.port # Home
RunningInv ==
    /\ \A p \in Port : (port[p] = Running) <=> (p = Home)
    /\ \A n \in Name : drives[n] = Running => n.port = Home
    /\ Away(ui.drive) /\ \A n \in ui.listed : Away(n)
    /\ live.stick # Running

\* The start button is closed to a clone without a new partition table.
Startable(u) == u.start => u.partition \/ ~u.clone_persistent

Fits(list, n) == list[n] # NoStick /\ (list[n] \in Small => n.part)

\* The options are those of the selected drive of the list.
Fitting(u, list) ==
    /\ u.drive # NoPort => Fits(list, u.drive)
    /\ \A n \in u.listed : Fits(list, n)
    /\ u.force_available => u.drive # NoPort /\ u.drive.part /\ list[u.drive] \notin Small
    /\ u.reinstall => u.force_available
    /\ u.drive # NoPort /\ ~u.drive.part /\ ~u.partition => u.clone_persistent
    /\ u.drive # NoPort /\ u.drive.part /\ u.partition => u.force_available

OptionsInv ==
    ~escaped =>
        /\ Fitting(ui, drives)
        /\ ui.target_selected => ui.drive # NoPort /\ live.stick = drives[ui.drive]
        /\ gui = "idle" /\ ui.target_selected => ~ui.choices

\* Before anything was partitioned, what is listed as a Tails partition is one,
\* and a stick without one was never touched.
ListedInv ==
    worker = "none" =>
        /\ \A n \in Name : n.part /\ drives[n] # NoStick => CanBeUpgraded(drives[n])
        /\ \A s \in Stick : CanBeUpgraded(s) \/ holds[s].system = "foreign"

\* The dialogs of begin(), and what was agreed to where it has come.
DialogInv ==
    /\ Startable(ui)
    /\ gui # "idle" => ui.target_selected
    /\ ui.target_selected => live.port \in Port /\ live.stick \in Stick
    /\ gui = "confirm" => ui.partition
    /\ gui = "passphrase" => ui.partition /\ ui.clone_persistent /\ confirmed = {live.stick}
    /\ gui \in {"mount", "delete"} => ~ui.partition /\ ~ui.clone_persistent
    /\ gui = "launch" => /\ ui.partition => confirmed = {live.stick}
                         /\ ui.clone_persistent => ui.partition

\* Once the thread was started the window is closed to every handler.
LockedInv ==
    worker # "none" =>
        /\ gui = "idle" /\ ui.target_selected
        /\ ~ui.start /\ ~ui.reinstall /\ ~ui.choices
        /\ ui.partition => confirmed = {live.stick}
        /\ ui.clone_persistent => ui.partition

Erasing == {"unmount", "table", "partition", "rescan", "switch", "format", "mount"}
Installing == {"verify", "space", "extract"}
Copied == {"mbr", "configs", "boot"}
Booting == {"backup", "flush", "seed", "complete"}
PastTable == {"rescan", "switch", "format", "mount"} \cup Installing \cup Copied \cup Booting

\* The thread goes to copy onto a stick that is none to upgrade.
Astray == escaped /\ holds[Here].system = "foreign"

\* How far the stick at the port has come, if nobody touched the port.
AdvanceInv ==
    /\ worker \in Erasing => ui.partition
    /\ worker = "backup" => ui.clone_persistent
    /\ disturbed => worker # "none"
    /\ worker \in PastTable /\ ~disturbed /\ ui.partition
       => \E w \in acts : w.what = "wipe" /\ w.stick = Here
    /\ worker # "none" /\ ~disturbed /\ Here = live.stick =>
          /\ worker \in {"mount"} \cup Installing => CanBeUpgraded(Here) \/ Astray
          /\ worker \in Copied => holds[Here].system = "copied" \/ CopiedAstray
          /\ worker \in Booting => holds[Here].system = "new" \/ CopiedAstray
    /\ worker = "complete" /\ ~disturbed => holds[Here].mbr
    /\ worker \in {"flush", "seed", "complete"} /\ ~disturbed /\ ui.clone_persistent
       => holds[Here].persistence = "backup"

ActsInv ==
    /\ worker = "none" => \A a \in acts : a.what = "delete"
    /\ ErasedAsAgreed /\ UpgradesATails /\ BackupOnNewTable

LegacyInv ==
    /\ LegacyTypeOK /\ WindowTypes /\ RunningInv /\ OptionsInv /\ ListedInv
    /\ DialogInv /\ LockedInv /\ AdvanceInv /\ ActsInv

-----------------------------------------------------------------------------
(***************************************************************************)
(* The widgets.                                                            *)
(***************************************************************************)

Lists == [Name -> Stick \cup {NoStick}]

\* The options that only a handler of its own changes.
SameChoice(u, v) ==
    /\ v.drive = u.drive /\ v.listed = u.listed /\ v.target_selected = u.target_selected
    /\ v.source = u.source

SameOptions(u, v) ==
    /\ SameChoice(u, v) /\ v.clone_persistent = u.clone_persistent
    /\ v.partition = u.partition /\ v.force_available = u.force_available

LEMMA Nowhere == NoPort \notin Port /\ NoPort \notin Name
  BY LegacyAssumption DEF Name

LEMMA StartButton ==
    ASSUME NEW u \in Ui
    PROVE  /\ UpdateStartButton(u) \in Ui /\ Startable(UpdateStartButton(u))
           /\ SameOptions(u, UpdateStartButton(u))
           /\ UpdateStartButton(u).choices = u.choices
           /\ UpdateStartButton(u).reinstall = u.reinstall
<1> DEFINE b == u.partition \/ ~u.clone_persistent
           s == b /\ u.source # "none" /\ u.target_available
           v == [u EXCEPT !.start = s]
<1>1. v = UpdateStartButton(u)
  BY Zenon DEF UpdateStartButton
<1>2. s \in BOOLEAN /\ (s => b)
  BY Zenon
<1> HIDE DEF s
<1>3. v \in Ui /\ v.start = s
  BY <1>2 DEF Ui
<1>4. /\ v.partition = u.partition /\ v.clone_persistent = u.clone_persistent
      /\ v.drive = u.drive /\ v.listed = u.listed /\ v.target_selected = u.target_selected
      /\ v.source = u.source /\ v.force_available = u.force_available
      /\ v.choices = u.choices /\ v.reinstall = u.reinstall
  BY DEF Ui
<1> HIDE DEF v
<1>5. Startable(v) /\ SameOptions(u, v)
  BY <1>2, <1>3, <1>4, Zenon DEF Startable, SameOptions, SameChoice
<1> QED  BY <1>1, <1>3, <1>4, <1>5, Zenon

LEMMA Enabled ==
    ASSUME NEW u \in Ui
    PROVE  /\ EnableWidgets(u, TRUE) \in Ui /\ Startable(EnableWidgets(u, TRUE))
           /\ SameOptions(u, EnableWidgets(u, TRUE))
           /\ EnableWidgets(u, TRUE).choices = ~u.target_selected
           /\ EnableWidgets(u, TRUE).reinstall => u.reinstall \/ u.force_available
<1> DEFINE b == UpdateStartButton(u)
           c == [b EXCEPT !.reinstall = @ \/ u.force_available]
           unselected == ~u.target_selected
           v == [c EXCEPT !.choices = unselected]
<1>1. v = EnableWidgets(u, TRUE)
  BY DEF EnableWidgets
<1>2. b \in Ui /\ Startable(b) /\ SameOptions(u, b) /\ b.reinstall = u.reinstall
  BY StartButton
<1> HIDE DEF b
<1>3. c \in Ui /\ Startable(c) /\ SameOptions(u, c)
      /\ (c.reinstall => u.reinstall \/ u.force_available)
  <2>1. /\ c \in Ui /\ c.start = b.start
        /\ c.partition = b.partition /\ c.clone_persistent = b.clone_persistent
        /\ c.drive = b.drive /\ c.listed = b.listed
        /\ c.target_selected = b.target_selected
        /\ c.source = b.source /\ c.force_available = b.force_available
        /\ c.reinstall = (b.reinstall \/ u.force_available)
    BY <1>2 DEF Ui
  <2> HIDE DEF c
  <2> QED  BY <1>2, <2>1, Zenon DEF Startable, SameOptions, SameChoice
<1> HIDE DEF c
<1>4. /\ v \in Ui /\ Startable(v) /\ SameOptions(u, v) /\ v.choices = ~u.target_selected
      /\ v.reinstall = c.reinstall
  <2>1. /\ v \in Ui /\ v.start = c.start
        /\ v.partition = c.partition /\ v.clone_persistent = c.clone_persistent
        /\ v.drive = c.drive /\ v.listed = c.listed
        /\ v.target_selected = c.target_selected
        /\ v.source = c.source /\ v.force_available = c.force_available
        /\ v.reinstall = c.reinstall /\ v.choices = unselected
    <3>1. unselected \in BOOLEAN /\ c \in Ui
      BY <1>3
    <3> HIDE DEF unselected
    <3> QED  BY <3>1 DEF Ui
  <2> HIDE DEF v
  <2> QED  BY <1>3, <2>1, Zenon DEF Startable, SameOptions, SameChoice
<1> QED  BY <1>1, <1>3, <1>4

LEMMA Disabled ==
    ASSUME NEW u \in Ui
    PROVE  /\ EnableWidgets(u, FALSE) \in Ui /\ SameOptions(u, EnableWidgets(u, FALSE))
           /\ EnableWidgets(u, FALSE).choices = ~u.target_selected
           /\ ~EnableWidgets(u, FALSE).start /\ ~EnableWidgets(u, FALSE).reinstall
  BY DEF EnableWidgets, SameOptions, SameChoice, Ui

LEMMA OptionsKept ==
    ASSUME NEW u \in Ui, NEW v \in Ui, NEW list \in Lists, SameOptions(u, v),
           v.reinstall => u.reinstall \/ u.force_available, Fitting(u, list)
    PROVE  Fitting(v, list)
  BY DEF SameOptions, SameChoice, Fitting

\* The options of an upgrade or of an installation.
Mode(u, new, again) == [u EXCEPT !.partition = new, !.force_reinstall = new,
                                 !.force_available = again, !.reinstall = again]

LEMMA ModeSet ==
    ASSUME NEW u \in Ui, NEW new \in BOOLEAN, NEW again \in BOOLEAN
    PROVE  /\ Mode(u, new, again) \in Ui /\ SameChoice(u, Mode(u, new, again))
           /\ Mode(u, new, again).choices = u.choices
           /\ Mode(u, new, again).partition = new
           /\ Mode(u, new, again).force_available = again
           /\ Mode(u, new, again).reinstall = again
  BY DEF Ui, SameChoice, Mode

LEMMA OptionsFollow ==
    ASSUME NEW u \in Ui, NEW list \in Lists
    PROVE  LET v == TargetChanged(u, list)
           IN  /\ v \in Ui /\ Startable(v) /\ SameChoice(u, v)
               /\ v.choices = u.choices \/ v.choices = ~u.target_selected
               /\ /\ u.drive # NoPort => Fits(list, u.drive)
                  /\ \A n \in u.listed : Fits(list, n)
                  => Fitting(v, list)
<1> DEFINE d == IF u.drive = NoPort THEN EnableWidgets(u, FALSE) ELSE u
           upgrade == u.drive # NoPort /\ u.drive.part
           roomy == upgrade /\ ~TooSmall(list[u.drive])
           cloning == d.clone_persistent /\ u.source = "running"
           e == [d EXCEPT !.clone_persistent = cloning]
           w == Mode(e, ~upgrade, roomy)
           v == UpdateStartButton(w)
<1>1. v = TargetChanged(u, list)
  BY DEF TargetChanged, Mode
<1>2. d \in Ui /\ SameChoice(u, d) /\ (d.choices = u.choices \/ d.choices = ~u.target_selected)
  BY Disabled DEF SameOptions, SameChoice
<1>3. upgrade \in BOOLEAN /\ roomy \in BOOLEAN /\ cloning \in BOOLEAN
  OBVIOUS
<1> HIDE DEF d
<1>4. e \in Ui /\ SameChoice(u, e) /\ e.choices = d.choices
  <2> HIDE DEF cloning
  <2> QED  BY <1>2, <1>3 DEF Ui, SameChoice
<1> HIDE DEF e
<1>5. /\ w \in Ui /\ SameChoice(u, w) /\ w.choices = d.choices
      /\ w.partition = ~upgrade /\ w.force_available = roomy /\ w.reinstall = roomy
  <2>1. /\ w \in Ui /\ SameChoice(e, w) /\ w.choices = e.choices
        /\ w.partition = ~upgrade /\ w.force_available = roomy /\ w.reinstall = roomy
    <3>1. PICK new \in BOOLEAN : new = ~upgrade
      OBVIOUS
    <3>2. PICK again \in BOOLEAN : again = roomy
      OBVIOUS
    <3>3. w = Mode(e, new, again)
      BY <3>1, <3>2
    <3> HIDE DEF upgrade, roomy, w
    <3>4. /\ w \in Ui /\ SameChoice(e, w) /\ w.choices = e.choices
          /\ w.partition = new /\ w.force_available = again /\ w.reinstall = again
      BY <1>4, <3>3, ModeSet
    <3> QED  BY <3>1, <3>2, <3>4
  <2> QED  BY <1>4, <2>1 DEF SameChoice
<1> HIDE DEF w
<1>6. /\ v \in Ui /\ Startable(v) /\ SameChoice(u, v) /\ v.choices = w.choices
      /\ v.partition = ~upgrade /\ v.force_available = roomy /\ v.reinstall = roomy
  BY <1>5, StartButton DEF SameOptions, SameChoice
<1> HIDE DEF v
<1>7. /\ u.drive # NoPort => Fits(list, u.drive)
      /\ \A n \in u.listed : Fits(list, n)
      => Fitting(v, list)
  BY <1>6 DEF SameChoice, Fitting, TooSmall
<1> QED  BY <1>1, <1>2, <1>5, <1>6, <1>7

LEMMA CheckButton ==
    ASSUME NEW u \in Ui, NEW list \in Lists, Startable(u)
    PROVE  LET v == UpdateCheckButton(u, list)
           IN  /\ v \in Ui /\ Startable(v)
               /\ v.drive = u.drive /\ v.listed = u.listed
               /\ v.target_selected = u.target_selected
               /\ v.choices = u.choices \/ v.choices = ~u.target_selected
               /\ Fitting(u, list) /\ Known(u, list) => Fitting(v, list)
<1> DEFINE w == [u EXCEPT !.clone_persistent = FALSE]
<1>1. CASE u.source = "running" \/ ~u.clone_persistent
  BY <1>1 DEF UpdateCheckButton
<1>2. CASE ~(u.source = "running" \/ ~u.clone_persistent)
  <2>1. /\ w \in Ui /\ w.drive = u.drive /\ w.listed = u.listed /\ w.choices = u.choices
        /\ w.target_selected = u.target_selected
    BY DEF Ui
  <2>2. UpdateCheckButton(u, list)
        = IF Known(u, list) THEN TargetChanged(w, list) ELSE UpdateStartButton(w)
    BY <1>2 DEF UpdateCheckButton
  <2>3. ASSUME Fitting(u, list)
        PROVE  /\ w.drive # NoPort => Fits(list, w.drive)
               /\ \A n \in w.listed : Fits(list, n)
    BY <2>1, <2>3 DEF Fitting
  <2> HIDE DEF w
  <2>4. CASE Known(u, list)
    BY <2>1, <2>2, <2>3, <2>4, OptionsFollow DEF SameChoice
  <2>5. CASE ~Known(u, list)
    BY <2>1, <2>2, <2>5, StartButton DEF SameOptions, SameChoice
  <2> QED  BY <2>4, <2>5
<1> QED  BY <1>1, <1>2

-----------------------------------------------------------------------------
(***************************************************************************)
(* The list of drives.                                                     *)
(***************************************************************************)

PortTyped == port \in [Port -> Stick \cup {NoStick}]

LEMMA PortTypes == ASSUME NEW n \in Name PROVE n.port \in Port /\ n.part \in BOOLEAN
  BY DEF Name

LEMMA ReadUnder ==
    ASSUME PortTyped, NEW n \in Name
    PROVE  /\ Read(n) \in Stick \cup {NoStick}
           /\ Read(n) # NoStick => Read(n) = port[n.port]
           /\ Read(n) # NoStick /\ n.part => CanBeUpgraded(Read(n))
  BY PortTypes DEF Read, Gone, PortTyped

LEMMA ScannedUnder ==
    ASSUME PortTyped
    PROVE  /\ Scanned \in Lists
           /\ \A n \in Name : Scanned[n] # NoStick =>
                /\ Scanned[n] = port[n.port] /\ Scanned[n] = Read(n)
                /\ n.part => CanBeUpgraded(Scanned[n])
<1>1. \A n \in Name : Scanned[n] \in {NoStick, Read(n)}
  BY DEF Scanned
<1>2. Scanned = [n \in Name |-> Scanned[n]]
  BY DEF Scanned
<1>3. \A n \in Name : Scanned[n] \in Stick \cup {NoStick}
  BY <1>1, ReadUnder
<1> QED  BY <1>1, <1>2, <1>3, ReadUnder DEF Lists

\* What holds of a window whose list was just read.
Fresh(u, v) ==
    /\ v \in Ui /\ Startable(v) /\ Fitting(v, Scanned)
    /\ Away(v.drive) /\ \A n \in v.listed : Away(n)
    /\ v.target_selected = u.target_selected
    /\ v.choices = u.choices \/ v.choices = ~u.target_selected

LEMMA OfferedAway ==
    ASSUME PortTyped, port[Home] = Running, NEW u \in Ui, NEW n \in Offered(u)
    PROVE  n \in Name /\ Fits(Scanned, n) /\ Away(n)
<1>1. n \in Name /\ Scanned[n] # NoStick /\ Scanned[n] # Running
      /\ (TooSmall(Scanned[n]) => n.part)
  BY DEF Offered
<1>2. Scanned[n] = port[n.port]
  BY <1>1, ScannedUnder
<1> QED  BY <1>1, <1>2 DEF Fits, TooSmall, Away

LEMMA PopulatedFresh ==
    ASSUME PortTyped, port[Home] = Running, NEW u \in Ui, NEW v \in Populated(u)
    PROVE  Fresh(u, v)
<1>1. PICK first \in First(Offered(u)) : v = Listed(u, Offered(u), first)
  BY DEF Populated
<1> DEFINE offered == Offered(u)
           a == [u EXCEPT !.listed = offered, !.target_available = offered # {},
                          !.drive = first]
           b == TargetChanged(a, Scanned)
<1>2. offered \subseteq Name /\ \A n \in offered : Fits(Scanned, n) /\ Away(n)
  BY OfferedAway
<1>3. /\ first \in Name \cup {NoPort} /\ Away(first)
      /\ first # NoPort => Fits(Scanned, first)
  BY <1>2 DEF First, Away
<1>4. v = UpdateStartButton(b)
  BY <1>1 DEF Listed
<1> HIDE DEF offered
<1>5. /\ a \in Ui /\ a.drive = first /\ a.listed = offered
      /\ a.target_selected = u.target_selected /\ a.choices = u.choices
  <2>1. \A some \in BOOLEAN :
          LET x == [u EXCEPT !.listed = offered, !.target_available = some, !.drive = first]
          IN  /\ x \in Ui /\ x.drive = first /\ x.listed = offered
              /\ x.target_selected = u.target_selected /\ x.choices = u.choices
    BY <1>2, <1>3 DEF Ui
  <2>2. (offered # {}) \in BOOLEAN
    OBVIOUS
  <2> QED  BY <2>1, <2>2, Zenon
<1> HIDE DEF a
<1>6. Scanned \in Lists
  BY ScannedUnder
<1>7. /\ b \in Ui /\ Startable(b) /\ SameChoice(a, b) /\ Fitting(b, Scanned)
      /\ b.choices = a.choices \/ b.choices = ~a.target_selected
  BY <1>2, <1>3, <1>5, <1>6, OptionsFollow
<1> HIDE DEF b
<1>8. /\ v \in Ui /\ Startable(v) /\ SameOptions(b, v) /\ v.choices = b.choices
      /\ v.reinstall = b.reinstall
  BY <1>4, <1>7, StartButton
<1>9. Fitting(v, Scanned)
  BY <1>6, <1>7, <1>8, OptionsKept
<1> QED  BY <1>2, <1>3, <1>5, <1>7, <1>8, <1>9 DEF Fresh, SameOptions, SameChoice

-----------------------------------------------------------------------------
(***************************************************************************)
(* The initial states.                                                     *)
(***************************************************************************)

LEMMA TwoAreTwo ==
    ASSUME NEW S, IsFiniteSet(S), NEW x \in S, NEW y \in S, x # y
    PROVE  ~(Cardinality(S) <= 1)
<1>1. IsFiniteSet({y}) /\ Cardinality({y}) = 1
  BY FS_Singleton
<1>2. IsFiniteSet({y} \cup {x}) /\ Cardinality({y} \cup {x}) = 2
  BY <1>1, FS_AddElement
<1>3. {y} \cup {x} \subseteq S
  OBVIOUS
<1>4. Cardinality({y} \cup {x}) <= Cardinality(S)
  BY <1>3, FS_Subset
<1>5. Cardinality(S) \in Nat
  BY FS_CardinalityType
<1> QED  BY <1>2, <1>4, <1>5

LEMMA RunningAtHome ==
    ASSUME LegacyInit, NEW p \in Port, port[p] = Running
    PROVE  p = Home
<1> DEFINE at == {q \in Port : port[q] = Running}
<1>1. IsFiniteSet(at)
  BY LegacyAssumption, FS_Subset
<1>2. Cardinality(at) <= 1
  BY LegacyAssumption DEF LegacyInit
<1>3. p \in at /\ Home \in at
  BY LegacyAssumption DEF LegacyInit
<1> HIDE DEF at
<1> QED  BY <1>1, <1>2, <1>3, TwoAreTwo

LEMMA InitLegacy == ASSUME LegacyInit PROVE LegacyInv
<1> DEFINE u == [drive |-> NoPort, listed |-> {}, target_selected |-> FALSE,
                 target_available |-> FALSE, partition |-> TRUE,
                 force_reinstall |-> FALSE, force_available |-> FALSE,
                 clone_persistent |-> FALSE, start |-> FALSE,
                 reinstall |-> FALSE, choices |-> TRUE, source |-> "running",
                 source_dev |-> Home]
<1>1. u \in Ui /\ u.target_selected = FALSE
  BY LegacyAssumption DEF Ui
<1>2. ui \in Populated(u)
  BY DEF LegacyInit
<1> HIDE DEF u
<1>3. /\ port \in [Port -> Stick \cup {NoStick}] /\ holds \in [Stick -> Holding]
      /\ port[Home] = Running /\ drives = Scanned
  <2> DEFINE first == [system |-> "foreign", persistence |-> "none", mbr |-> FALSE]
             second == [system |-> "tails", persistence |-> "old", mbr |-> TRUE]
  <2>1. first \in Holding /\ second \in Holding
    BY DEF Holding, System
  <2>2. holds \in [Stick -> {first, second}]
    BY DEF LegacyInit
  <2> HIDE DEF first, second
  <2>3. holds \in [Stick -> Holding]
    BY <2>1, <2>2
  <2> QED  BY <2>3 DEF LegacyInit
<1>4. PortTyped
  BY <1>3 DEF PortTyped
<1>5. Fresh(u, ui)
  BY <1>1, <1>2, <1>3, <1>4, PopulatedFresh
<1>6. /\ gui = "idle" /\ worker = "none" /\ attempt = 0 /\ confirmed = {} /\ acts = {}
      /\ ~escaped /\ ~disturbed /\ live = [port |-> NoPort, stick |-> NoStick]
  BY DEF LegacyInit
<1>7. LegacyTypeOK /\ WindowTypes
  <2>1. escaped \in BOOLEAN /\ disturbed \in BOOLEAN
    BY DEF LegacyInit
  <2> QED
    BY <1>3, <1>4, <1>5, <1>6, <2>1, ScannedUnder, LegacyAssumption
    DEF LegacyTypeOK, WindowTypes, Fresh, Ui, Lists, Step
<1>8. RunningInv
  BY <1>3, <1>4, <1>5, <1>6, ScannedUnder, RunningAtHome, PortTypes, LegacyAssumption
  DEF RunningInv, Fresh
<1>9. OptionsInv /\ ListedInv /\ DialogInv
  <2>1. \A s \in Stick : holds[s].system \in {"foreign", "tails"}
    BY DEF LegacyInit
  <2> QED  BY <1>1, <1>3, <1>4, <1>5, <1>6, <2>1, ScannedUnder
           DEF OptionsInv, ListedInv, DialogInv, Fresh, CanBeUpgraded
<1>10. LockedInv /\ AdvanceInv /\ ActsInv
  BY <1>6 DEF LockedInv, AdvanceInv, ActsInv, Erasing, Installing, Copied, Booting,
              PastTable, ErasedAsAgreed, UpgradesATails, BackupOnNewTable
<1> QED  BY <1>7, <1>8, <1>9, <1>10 DEF LegacyInv

-----------------------------------------------------------------------------
(***************************************************************************)
(* The hardware.                                                           *)
(***************************************************************************)

LEMMA PortsMove ==
    ASSUME LegacyInv, NEW p \in Port, Disturbs(p),
           port' \in [Port -> Stick \cup {NoStick}],
           \A q \in Port : q # p => port'[q] = port[q],
           (port'[p] = Running) <=> (port[p] = Running),
           UNCHANGED <<holds, window, live, thread, confirmed, acts, escaped>>
    PROVE  LegacyInv'
<1> USE DEF window, thread
<1>1. LegacyTypeOK' /\ WindowTypes'
  <2>1. disturbed' \in BOOLEAN
    BY DEF Disturbs
  <2> QED  BY <2>1 DEF LegacyInv, LegacyTypeOK, WindowTypes
<1>2. RunningInv' /\ OptionsInv' /\ ListedInv' /\ DialogInv' /\ LockedInv'
  BY DEF LegacyInv, RunningInv, OptionsInv, ListedInv, DialogInv, LockedInv, Away, Fitting,
         Fits, Startable, CanBeUpgraded
<1>3. /\ disturbed => disturbed'
      /\ disturbed' \/ worker = "none" \/ Here' = Here
  BY DEF LegacyInv, LegacyTypeOK, LockedInv, DialogInv, Disturbs, Here
<1>4. ActsInv'
  BY <1>3 DEF LegacyInv, ActsInv, ErasedAsAgreed, UpgradesATails, BackupOnNewTable
<1>5. AdvanceInv'
  BY <1>3 DEF LegacyInv, AdvanceInv, Disturbs, CanBeUpgraded, Erasing, Installing, Copied,
              Booting, PastTable, Astray, CopiedAstray
<1> QED  BY <1>1, <1>2, <1>4, <1>5 DEF LegacyInv

LEMMA HardwareMoves ==
    ASSUME LegacyInv, \/ \E s \in Stick, p \in Port : Plug(s, p)
                      \/ \E p \in Port : Unplug(p)
    PROVE  LegacyInv'
<1>1. ASSUME NEW s \in Stick, NEW p \in Port, Plug(s, p)
      PROVE  LegacyInv'
  <2>1. s # Running
    BY <1>1, LegacyAssumption DEF LegacyInv, RunningInv, Plug
  <2> QED  BY <1>1, <2>1, PortsMove, LegacyAssumption DEF LegacyInv, LegacyTypeOK, Plug
<1>2. ASSUME NEW p \in Port, Unplug(p)
      PROVE  LegacyInv'
  BY <1>2, PortsMove, LegacyAssumption DEF LegacyInv, LegacyTypeOK, Unplug
<1> QED  BY <1>1, <1>2

-----------------------------------------------------------------------------
(***************************************************************************)
(* The handlers of the window.                                             *)
(***************************************************************************)

ListOK(list) ==
    /\ list \in Lists
    /\ \A n \in Name : list[n] = Running => n.port = Home
    /\ \A n \in Name : n.part /\ list[n] # NoStick => CanBeUpgraded(list[n])

LEMMA ListRead ==
    ASSUME LegacyInv, NEW list \in [Name -> Stick \cup {NoStick}],
           \A n \in Name : list[n] \in {NoStick, Read(n)}
    PROVE  ListOK(list)
<1>1. PortTyped
  BY DEF LegacyInv, LegacyTypeOK, PortTyped
<1> QED  BY <1>1, ReadUnder, PortTypes, LegacyAssumption DEF ListOK, Lists, LegacyInv, RunningInv

LEMMA ListScanned ==
    ASSUME LegacyInv
    PROVE  PortTyped /\ port[Home] = Running /\ Scanned \in Lists /\ ListOK(Scanned)
<1>1. PortTyped
  BY DEF LegacyInv, LegacyTypeOK, PortTyped
<1>2. Scanned \in [Name -> Stick \cup {NoStick}]
  BY <1>1, ScannedUnder DEF Lists
<1>3. \A n \in Name : Scanned[n] \in {NoStick, Read(n)}
  BY <1>1, ScannedUnder
<1>4. ListOK(Scanned)
  BY <1>2, <1>3, ListRead
<1> QED  BY <1>1, <1>2, <1>4, LegacyAssumption DEF Lists, LegacyInv, RunningInv

\* A handler leaves the window in order.
Orderly(u, v) ==
    /\ v \in Ui /\ Startable(v)
    /\ Away(v.drive) /\ \A n \in v.listed : Away(n)
    /\ v.target_selected => u.target_selected

LEMMA Handling ==
    ASSUME LegacyInv, gui = "idle", worker = "none",
           UNCHANGED <<port, holds, gui, live, worker, attempt, confirmed, acts, disturbed>>,
           escaped' \in BOOLEAN, ListOK(drives'), Orderly(ui, ui'), OptionsInv'
    PROVE  LegacyInv'
<1>1. LegacyTypeOK' /\ WindowTypes'
  BY DEF LegacyInv, LegacyTypeOK, WindowTypes, ListOK, Lists, Orderly, Ui
<1>2. RunningInv' /\ ListedInv'
  BY DEF LegacyInv, RunningInv, ListedInv, ListOK, Orderly, Away, CanBeUpgraded
<1>3. DialogInv' /\ LockedInv' /\ AdvanceInv'
  BY DEF LegacyInv, DialogInv, LockedInv, AdvanceInv, Orderly, Erasing, Installing, Copied,
         Booting, PastTable
<1>4. ActsInv'
  BY DEF LegacyInv, ActsInv, ErasedAsAgreed, UpgradesATails, BackupOnNewTable
<1> QED  BY <1>1, <1>2, <1>3, <1>4 DEF LegacyInv

\* A handler that the window lets through finds no thread, and with a target
\* selected only where an exception left the controls open.
LEMMA HandlerOpen ==
    ASSUME LegacyInv, gui = "idle", ui.choices \/ ui.reinstall \/ ui.start
    PROVE  worker = "none" /\ (ui.choices /\ ui.target_selected => escaped)
  BY DEF LegacyInv, LockedInv, OptionsInv

\* The old list is in order, and so is a window without a target.
LEMMA Untouched ==
    ASSUME LegacyInv, worker = "none"
    PROVE  /\ drives \in Lists /\ ListOK(drives)
           /\ ui \in Ui /\ Startable(ui) /\ Away(ui.drive) /\ \A n \in ui.listed : Away(n)
           /\ ~escaped => Fitting(ui, drives)
           /\ escaped \in BOOLEAN
  BY DEF LegacyInv, LegacyTypeOK, WindowTypes, RunningInv, ListedInv, DialogInv, OptionsInv,
         ListOK, Lists

\* A scan that fails leaves a list of what was read and a window in order.
LEMMA ScanLeaves ==
    ASSUME LegacyInv, NEW u \in Ui, Startable(u), NEW v, ScanFails(u, v),
           Away(u.drive), \A n \in u.listed : Away(n)
    PROVE  ListOK(drives') /\ Orderly(u, v) /\ Orderly(u, Caught(v)) /\ escaped' = TRUE
<1>1. ASSUME v = u,
             \E read \in SUBSET {n \in Name : Read(n) # NoStick} :
               drives' = [n \in Name |-> IF n \in read THEN Read(n) ELSE NoStick]
      PROVE  ListOK(drives') /\ Orderly(u, v)
  <2>1. PICK read \in SUBSET {n \in Name : Read(n) # NoStick} :
          drives' = [n \in Name |-> IF n \in read THEN Read(n) ELSE NoStick]
    BY <1>1
  <2>2. \A n \in Name : drives'[n] \in {NoStick, Read(n)}
    BY <2>1
  <2>3. \A n \in Name : drives'[n] \in Stick \cup {NoStick}
    BY <2>2, ListScanned, ReadUnder
  <2>4. drives' \in [Name -> Stick \cup {NoStick}]
    BY <2>1, <2>3
  <2> QED  BY <1>1, <2>2, <2>4, ListRead DEF Orderly
<1>2. ASSUME v = Emptied(u), drives' = Scanned
      PROVE  ListOK(drives') /\ Orderly(u, v)
  <2> DEFINE w == [u EXCEPT !.listed = {}, !.drive = NoPort]
  <2>1. w \in Ui /\ w.drive = NoPort /\ w.listed = {} /\ w.target_selected = u.target_selected
    BY DEF Ui
  <2>2. v = TargetChanged(w, Scanned)
    BY <1>2 DEF Emptied
  <2> HIDE DEF w
  <2>3. v \in Ui /\ Startable(v) /\ SameChoice(w, v)
    BY <2>1, <2>2, ListScanned, OptionsFollow
  <2> QED  BY <1>2, <2>1, <2>3, ListScanned DEF Orderly, SameChoice, Away
<1>3. ListOK(drives') /\ Orderly(u, v)
  BY <1>1, <1>2 DEF ScanFails
<1>4. Orderly(u, Caught(v))
  <2> DEFINE w == [v EXCEPT !.target_available = FALSE]
  <2>1. w \in Ui /\ w.drive = v.drive /\ w.listed = v.listed
        /\ w.target_selected = v.target_selected
    BY <1>3 DEF Orderly, Ui
  <2>2. Caught(v) = UpdateStartButton(w)
    BY DEF Caught
  <2> HIDE DEF w
  <2> QED  BY <1>3, <2>1, <2>2, StartButton DEF Orderly, SameOptions, SameChoice
<1> QED  BY <1>3, <1>4 DEF ScanFails

LEMMA PopulateMoves ==
    ASSUME LegacyInv, PopulateDevices \/ PopulateFails
    PROVE  LegacyInv'
<1>1. ~ui.target_selected /\ gui = "idle" /\ worker = "none"
  BY DEF LegacyInv, DialogInv, LockedInv, PopulateDevices, PopulateFails
<1>2. UNCHANGED <<port, holds, gui, live, worker, attempt, confirmed, acts, disturbed>>
  BY DEF PopulateDevices, PopulateFails, hardware, thread
<1>3. CASE PopulateDevices
  <2>1. Fresh(ui, ui') /\ drives' = Scanned /\ escaped' = FALSE
    BY <1>1, <1>3, ListScanned, Untouched, PopulatedFresh DEF PopulateDevices
  <2>2. ListOK(drives') /\ Orderly(ui, ui') /\ OptionsInv'
    BY <1>1, <2>1, ListScanned DEF Fresh, Orderly, OptionsInv
  <2>3. escaped' \in BOOLEAN
    BY <2>1
  <2> QED  BY <1>1, <1>2, <2>2, <2>3, Handling
<1>4. CASE PopulateFails
  <2>1. PICK v : ScanFails(ui, v) /\ ui' \in {v, Caught(v)}
    BY <1>4 DEF PopulateFails
  <2>2. ListOK(drives') /\ Orderly(ui, ui') /\ escaped' = TRUE
    BY <1>1, <2>1, Untouched, ScanLeaves
  <2>3. OptionsInv' /\ escaped' \in BOOLEAN
    BY <2>2 DEF OptionsInv
  <2> QED  BY <1>1, <1>2, <2>2, <2>3, Handling
<1> QED  BY <1>3, <1>4

\* A change of the source leaves the target and the options as they are.
LEMMA SourceChanged ==
    ASSUME NEW u \in Ui, NEW source \in {"running", "none", "iso"},
           NEW p \in Port \cup {NoPort}
    PROVE  LET v == [u EXCEPT !.source = source, !.source_dev = p]
           IN  /\ v \in Ui /\ v.drive = u.drive /\ v.listed = u.listed
               /\ v.target_selected = u.target_selected /\ v.choices = u.choices
               /\ Startable(u) => Startable(v)
  BY DEF Ui, Startable

LEMMA ToggleSourceMoves ==
    ASSUME LegacyInv, ToggleSource
    PROVE  LegacyInv'
<1>1. gui = "idle" /\ ui.choices /\ worker = "none" /\ (ui.target_selected => escaped)
  BY HandlerOpen DEF ToggleSource, Handled
<1>2. UNCHANGED <<port, holds, gui, live, worker, attempt, confirmed, acts, disturbed>>
  BY DEF ToggleSource, Handled, hardware, thread
<1> DEFINE u == IF ui.source = "running"
                THEN [ui EXCEPT !.source = "none", !.source_dev = NoPort]
                ELSE RunningLiveSystemSource(ui)
<1>3. /\ u \in Ui /\ u.drive = ui.drive /\ u.listed = ui.listed /\ Startable(u)
      /\ u.target_selected = ui.target_selected /\ u.choices = ui.choices
  <2>1. ui \in Ui /\ (Startable(ui) => Startable(u)) => Startable(u)
    BY <1>1, Untouched, Zenon
  <2>2. ui \in Ui
    BY <1>1, Untouched, Zenon
  <2>3. CASE ui.source = "running"
    <3>1. u = [ui EXCEPT !.source = "none", !.source_dev = NoPort]
      BY <2>3, Zenon
    <3> HIDE DEF u
    <3> QED  BY <2>1, <2>2, <3>1, SourceChanged
  <2>4. CASE ui.source # "running"
    <3>1. u = [ui EXCEPT !.source = "running", !.source_dev = Home]
      BY <2>4, Zenon DEF RunningLiveSystemSource
    <3>2. Home \in Port
      BY LegacyAssumption
    <3> HIDE DEF u
    <3> QED  BY <2>1, <2>2, <3>1, <3>2, SourceChanged
  <2> QED  BY <2>3, <2>4, Zenon
<1>4. \/ /\ ui.target_selected
         /\ ui' = UpdateCheckButton(u, drives) /\ UNCHANGED <<drives, escaped>>
      \/ /\ ~ui.target_selected
         /\ drives' = Scanned /\ escaped' = FALSE
         /\ \E v \in Populated(u) : ui' = UpdateCheckButton(v, Scanned)
      \/ \E v : ScanFails(u, v) /\ ui' \in {v, UpdateCheckButton(Caught(v), drives')}
  BY DEF ToggleSource
<1> HIDE DEF u
<1>5. CASE ui.target_selected /\ ui' = UpdateCheckButton(u, drives) /\ UNCHANGED <<drives, escaped>>
  <2>1. Orderly(ui, ui')
    BY <1>1, <1>3, <1>5, CheckButton, Untouched DEF Orderly
  <2>2. escaped' \in BOOLEAN /\ OptionsInv'
    BY <1>1, <1>5, Untouched DEF OptionsInv
  <2>3. ListOK(drives')
    BY <1>2, <1>5, <1>1, Untouched DEF ListOK, CanBeUpgraded
  <2> QED  BY <1>1, <1>2, <2>1, <2>2, <2>3, Handling
<1>6. CASE /\ ~ui.target_selected
           /\ drives' = Scanned /\ escaped' = FALSE
           /\ \E v \in Populated(u) : ui' = UpdateCheckButton(v, Scanned)
  <2>1. PICK v \in Populated(u) : ui' = UpdateCheckButton(v, Scanned)
    BY <1>6
  <2>2. Fresh(u, v)
    BY <1>3, ListScanned, PopulatedFresh
  <2>3. Known(v, Scanned)
    BY <2>2, ListScanned, ScannedUnder DEF Fresh, Fitting, Fits, Known, Gone, Ui
  <2>4. /\ Orderly(ui, ui') /\ Fitting(ui', Scanned) /\ ~ui'.target_selected
    BY <1>3, <1>6, <2>1, <2>2, <2>3, CheckButton, ListScanned DEF Fresh, Orderly
  <2>5. ListOK(drives')
    BY <1>2, <1>6, ListScanned DEF ListOK, CanBeUpgraded
  <2>6. escaped' \in BOOLEAN /\ OptionsInv'
    BY <1>6, <2>4 DEF OptionsInv
  <2> QED  BY <1>1, <1>2, <2>4, <2>5, <2>6, Handling
<1>7. CASE \E v : ScanFails(u, v) /\ ui' \in {v, UpdateCheckButton(Caught(v), drives')}
  <2>1. PICK v : ScanFails(u, v) /\ ui' \in {v, UpdateCheckButton(Caught(v), drives')}
    BY <1>7
  <2>2. ListOK(drives') /\ Orderly(u, v) /\ Orderly(u, Caught(v)) /\ escaped' = TRUE
    BY <1>1, <1>3, <2>1, Untouched, ScanLeaves
  <2>3. Orderly(u, UpdateCheckButton(Caught(v), drives'))
    BY <2>2, CheckButton DEF Orderly, ListOK
  <2>4. Orderly(ui, ui')
    BY <1>3, <2>1, <2>2, <2>3 DEF Orderly
  <2>5. OptionsInv' /\ escaped' \in BOOLEAN
    BY <2>2 DEF OptionsInv
  <2> QED  BY <1>1, <1>2, <2>2, <2>4, <2>5, Handling
<1> QED  BY <1>4, <1>5, <1>6, <1>7

LEMMA SelectSourceMoves ==
    ASSUME LegacyInv, NEW p \in Port \cup {NoPort}, SelectSourceIso(p)
    PROVE  LegacyInv'
<1>1. gui = "idle" /\ ui.choices /\ worker = "none" /\ (ui.target_selected => escaped)
  BY HandlerOpen DEF SelectSourceIso, Handled
<1>2. UNCHANGED <<port, holds, gui, live, worker, attempt, confirmed, acts, disturbed>>
  BY DEF SelectSourceIso, Handled, hardware, thread
<1> DEFINE u == IsoSource(ui, p)
<1>3. /\ u \in Ui /\ u.drive = ui.drive /\ u.listed = ui.listed /\ Startable(u)
      /\ u.target_selected = ui.target_selected /\ u.choices = ui.choices
  BY <1>1, SourceChanged, Untouched DEF IsoSource
<1>4. \/ ui.target_selected /\ ui' = u /\ UNCHANGED <<drives, escaped>>
      \/ /\ ~ui.target_selected
         /\ drives' = Scanned /\ ui' \in Populated(u) /\ escaped' = FALSE
      \/ \E v : ScanFails(u, v) /\ ui' \in {v, Caught(v)}
  BY DEF SelectSourceIso
<1> HIDE DEF u
<1>5. CASE ui.target_selected /\ ui' = u /\ UNCHANGED <<drives, escaped>>
  <2>1. Orderly(ui, ui')
    BY <1>1, <1>3, <1>5, Untouched DEF Orderly
  <2>2. escaped' \in BOOLEAN /\ OptionsInv'
    BY <1>1, <1>5, Untouched DEF OptionsInv
  <2>3. ListOK(drives')
    BY <1>1, <1>2, <1>5, Untouched DEF ListOK, CanBeUpgraded
  <2> QED  BY <1>1, <1>2, <2>1, <2>2, <2>3, Handling
<1>6. CASE ~ui.target_selected /\ drives' = Scanned /\ ui' \in Populated(u) /\ escaped' = FALSE
  <2>1. Fresh(u, ui')
    BY <1>3, <1>6, ListScanned, PopulatedFresh
  <2>2. Orderly(ui, ui') /\ Fitting(ui', Scanned) /\ ~ui'.target_selected
    BY <1>3, <1>6, <2>1 DEF Fresh, Orderly
  <2>3. ListOK(drives')
    BY <1>2, <1>6, ListScanned DEF ListOK, CanBeUpgraded
  <2>4. escaped' \in BOOLEAN /\ OptionsInv'
    BY <1>6, <2>2 DEF OptionsInv
  <2> QED  BY <1>1, <1>2, <2>2, <2>3, <2>4, Handling
<1>7. CASE \E v : ScanFails(u, v) /\ ui' \in {v, Caught(v)}
  <2>1. PICK v : ScanFails(u, v) /\ ui' \in {v, Caught(v)}
    BY <1>7
  <2>2. ListOK(drives') /\ Orderly(u, ui') /\ escaped' = TRUE
    BY <1>1, <1>3, <2>1, Untouched, ScanLeaves
  <2>3. Orderly(ui, ui')
    BY <1>3, <2>2 DEF Orderly
  <2>4. OptionsInv' /\ escaped' \in BOOLEAN
    BY <2>2 DEF OptionsInv
  <2> QED  BY <1>1, <1>2, <2>2, <2>3, <2>4, Handling
<1> QED  BY <1>4, <1>5, <1>6, <1>7

LEMMA ReselectMoves ==
    ASSUME LegacyInv, Handled, ui.choices, NEW u \in Ui, Startable(u), Reselect(u),
           u.drive \in ui.listed \cup {ui.drive}, u.listed = ui.listed,
           u.target_selected = ui.target_selected
    PROVE  LegacyInv'
<1>1. gui = "idle" /\ worker = "none" /\ (ui.target_selected => escaped)
  BY HandlerOpen DEF Handled
<1>2. UNCHANGED <<port, holds, gui, live, worker, attempt, confirmed, acts, disturbed>>
  BY DEF Handled, hardware, thread
<1>3. /\ ui' \in {u, TargetChanged(u, drives)} /\ drives' = drives
      /\ escaped => escaped'
      /\ ~escaped' => ui' = TargetChanged(u, drives)
      /\ escaped' \in BOOLEAN
  BY <1>1, Untouched DEF Reselect
<1>4. drives \in Lists /\ ui \in Ui /\ Away(u.drive) /\ \A n \in u.listed : Away(n)
  BY <1>1, Untouched
<1>5. Orderly(ui, ui')
  BY <1>3, <1>4, OptionsFollow DEF Orderly, SameChoice
<1>6. ListOK(drives')
  BY <1>1, <1>2, <1>3, Untouched DEF ListOK, CanBeUpgraded
<1>7. OptionsInv'
  <2>1. SUFFICES ASSUME ~escaped'
                 PROVE  Fitting(ui', drives) /\ ~ui'.target_selected
    BY <1>3 DEF OptionsInv
  <2>2. ~escaped /\ ~ui.target_selected /\ Fitting(ui, drives)
    BY <1>1, <1>3, <2>1, Untouched
  <2>3. /\ u.drive # NoPort => Fits(drives, u.drive)
        /\ \A n \in u.listed : Fits(drives, n)
    BY <2>2 DEF Fitting
  <2> QED  BY <1>3, <1>4, <2>1, <2>2, <2>3, OptionsFollow DEF SameChoice
<1> QED  BY <1>1, <1>2, <1>3, <1>5, <1>6, <1>7, Handling

LEMMA TargetMoves ==
    ASSUME LegacyInv, ToggleClonePersistent \/ \E n \in Name : SelectTarget(n)
    PROVE  LegacyInv'
<1>1. ui \in Ui /\ Startable(ui)
  BY DEF LegacyInv, WindowTypes, DialogInv
<1>2. CASE ToggleClonePersistent
  <2> DEFINE w == [ui EXCEPT !.clone_persistent = ~@]
             u == UpdateStartButton(w)
  <2>1. w \in Ui /\ w.drive = ui.drive /\ w.listed = ui.listed
        /\ w.target_selected = ui.target_selected
    <3>1. \A b \in BOOLEAN : LET x == [ui EXCEPT !.clone_persistent = b]
                             IN  x \in Ui /\ x.drive = ui.drive /\ x.listed = ui.listed
                                 /\ x.target_selected = ui.target_selected
      BY <1>1 DEF Ui
    <3>2. (~ui.clone_persistent) \in BOOLEAN
      OBVIOUS
    <3> QED  BY <3>1, <3>2, Zenon
  <2>2. Handled /\ ui.choices /\ Reselect(u)
    BY <1>2 DEF ToggleClonePersistent
  <2> HIDE DEF w
  <2>3. u \in Ui /\ Startable(u) /\ SameOptions(w, u)
    BY <2>1, StartButton
  <2> HIDE DEF u
  <2> QED  BY <2>1, <2>2, <2>3, ReselectMoves DEF SameOptions, SameChoice
<1>3. ASSUME NEW n \in Name, SelectTarget(n)
      PROVE  LegacyInv'
  <2> DEFINE u == [ui EXCEPT !.drive = n]
  <2>1. /\ u \in Ui /\ u.drive = n /\ u.listed = ui.listed /\ Startable(u)
        /\ u.target_selected = ui.target_selected
    BY <1>1 DEF Ui, Startable
  <2>2. Handled /\ ui.choices /\ Reselect(u) /\ n \in ui.listed
    BY <1>3 DEF SelectTarget
  <2> HIDE DEF u
  <2> QED  BY <2>1, <2>2, ReselectMoves
<1> QED  BY <1>2, <1>3

LEMMA ReleasedWindow ==
    ASSUME NEW u \in Ui, NEW list \in Lists
    PROVE  LET v == Released(u)
           IN  /\ v \in Ui /\ Startable(v) /\ v.drive = u.drive /\ v.listed = u.listed
               /\ ~v.target_selected /\ v.partition = u.partition
               /\ v.clone_persistent = u.clone_persistent
               /\ v.force_available = u.force_available
               /\ Fitting(u, list) => Fitting(v, list)
<1> DEFINE w == [u EXCEPT !.target_selected = FALSE]
<1>1. /\ w \in Ui /\ w.drive = u.drive /\ w.listed = u.listed /\ ~w.target_selected
      /\ w.partition = u.partition /\ w.clone_persistent = u.clone_persistent
      /\ w.force_available = u.force_available /\ w.reinstall = u.reinstall
  BY DEF Ui
<1>2. Fitting(u, list) => Fitting(w, list)
  BY <1>1 DEF Fitting
<1>3. Released(u) = EnableWidgets(w, TRUE)
  BY DEF Released
<1> HIDE DEF w
<1>4. Fitting(w, list) => Fitting(Released(u), list)
  BY <1>1, <1>3, Enabled, OptionsKept
<1> QED  BY <1>1, <1>2, <1>3, <1>4, Enabled DEF SameOptions, SameChoice

LEMMA WarnMoves ==
    ASSUME LegacyInv, WarnIsoNotSelected
    PROVE  LegacyInv'
<1>1. gui = "idle" /\ worker = "none"
  BY HandlerOpen DEF WarnIsoNotSelected, Handled
<1>2. UNCHANGED <<port, holds, gui, live, worker, attempt, confirmed, acts, disturbed>>
  BY DEF WarnIsoNotSelected, Handled, hardware, thread
<1>3. ui' = Released(ui) /\ UNCHANGED <<drives, escaped>>
  BY DEF WarnIsoNotSelected, Released
<1>4. Orderly(ui, ui') /\ (~escaped => Fitting(ui', drives)) /\ ~ui'.target_selected
  BY <1>1, <1>3, ReleasedWindow, Untouched DEF Orderly
<1>5. OptionsInv' /\ escaped' \in BOOLEAN
  BY <1>1, <1>3, <1>4, Untouched DEF OptionsInv
<1>6. ListOK(drives')
  BY <1>1, <1>2, <1>3, Untouched DEF ListOK, CanBeUpgraded
<1> QED  BY <1>1, <1>2, <1>4, <1>5, <1>6, Handling

-----------------------------------------------------------------------------
(***************************************************************************)
(* begin().                                                                *)
(***************************************************************************)

\* While the thread was not started nothing was written but by delete_liveos.
LEMMA NoThread ==
    ASSUME LegacyInv, worker = "none", worker' = "none", disturbed' = disturbed,
           acts' = acts
    PROVE  LockedInv' /\ AdvanceInv' /\ ActsInv'
  BY DEF LegacyInv, LockedInv, AdvanceInv, ActsInv, ErasedAsAgreed, UpgradesATails,
         BackupOnNewTable, Erasing, Installing, Copied, Booting, PastTable

LEMMA BeginMoves ==
    ASSUME LegacyInv, NEW was \in Ui, Begin(was), worker = "none",
           was.partition \/ ~was.clone_persistent,
           ~escaped => Fitting(was, drives),
           was.drive = ui.drive, was.listed = ui.listed,
           was.target_selected = ui.target_selected
    PROVE  LegacyInv'
<1> DEFINE u == EnableWidgets(was, FALSE)
           v == [u EXCEPT !.target_selected = TRUE]
           stick == IF u.drive = NoPort THEN NoStick ELSE drives[u.drive]
<1>1. /\ gui = "idle" /\ confirmed' = {}
      /\ UNCHANGED <<port, holds, drives, worker, attempt, acts, disturbed>>
      /\ \/ /\ ~u.target_selected /\ ui' = u /\ escaped' = TRUE /\ UNCHANGED <<gui, live>>
         \/ /\ u.target_selected \/ stick # NoStick
            /\ live' = IF u.target_selected THEN live
                       ELSE [port |-> u.drive.port, stick |-> stick]
            /\ ui' = v
            /\ \/ escaped' = TRUE /\ gui' = gui
               \/ gui' = Ask(v) /\ escaped' = escaped
  BY DEF Begin, hardware, thread
<1>2. /\ u \in Ui /\ SameOptions(was, u) /\ ~u.start /\ ~u.reinstall
  BY Disabled
<1> HIDE DEF u
<1>3. /\ v \in Ui /\ v.target_selected /\ ~v.start /\ ~v.reinstall
      /\ v.drive = u.drive /\ v.listed = u.listed /\ v.partition = u.partition
      /\ v.clone_persistent = u.clone_persistent /\ v.force_available = u.force_available
  BY <1>2 DEF Ui
<1> HIDE DEF v
<1>4. /\ ui' \in {u, v} /\ ui' \in Ui /\ ui'.drive = ui.drive /\ ui'.listed = ui.listed
      /\ ~ui'.start /\ ~ui'.reinstall /\ ui'.partition = was.partition
      /\ ui'.clone_persistent = was.clone_persistent
      /\ ui'.force_available = was.force_available
  BY <1>1, <1>2, <1>3 DEF SameOptions, SameChoice
<1>5. /\ ui'.target_selected => live'.port \in Port /\ live'.stick \in Stick
      /\ live'.stick # Running
      /\ live' \in [port: Port \cup {NoPort}, stick: Stick \cup {NoStick}]
      /\ ~escaped' /\ ui'.target_selected
         => ui'.drive # NoPort /\ live'.stick = drives[ui'.drive]
  <2>1. CASE /\ u.target_selected \/ ~ui'.target_selected
             /\ live' = live /\ (~escaped' => escaped' = escaped)
    BY <1>1, <1>2, <1>3, <1>4, <2>1
    DEF SameOptions, SameChoice, LegacyInv, LegacyTypeOK, DialogInv, RunningInv, OptionsInv
  <2>2. CASE stick # NoStick /\ live' = [port |-> u.drive.port, stick |-> stick]
    <3>1. /\ stick # NoStick /\ live' = [port |-> u.drive.port, stick |-> stick]
      BY <2>2
    <3>2. u.drive = ui.drive /\ u.drive # NoPort /\ stick = drives[ui.drive]
      BY <1>2, <3>1 DEF SameOptions, SameChoice
    <3>3. u.drive \in Name /\ u.drive.port \in Port /\ stick \in Stick /\ u.drive.port # Home
      BY <3>1, <3>2, PortTypes DEF LegacyInv, LegacyTypeOK, RunningInv, Away
    <3>4. stick # Running
      BY <3>2, <3>3 DEF LegacyInv, RunningInv
    <3> HIDE DEF stick
    <3> QED  BY <1>4, <3>1, <3>2, <3>3, <3>4
  <2> QED  BY <1>1, <2>1, <2>2
<1>6. /\ gui' \in {"idle", "confirm", "mount"}
      /\ gui' # "idle" => ui'.target_selected
      /\ gui' = "confirm" => ui'.partition
      /\ gui' = "mount" => ~ui'.partition /\ ~ui'.clone_persistent
      /\ gui' = "idle" /\ ~escaped' => FALSE
      /\ escaped' \in BOOLEAN /\ (~escaped' => ~escaped)
  <2>1. gui' # "idle" => ui' = v /\ gui' = Ask(v)
    BY <1>1
  <2>2. Ask(v) = IF v.partition THEN "confirm" ELSE "mount"
    BY <1>2, <1>3 DEF Ask, SameOptions, SameChoice
  <2>3. escaped \in BOOLEAN
    BY Untouched
  <2>4. escaped' = TRUE \/ escaped' = escaped
    BY <1>1, Zenon
  <2>5. (escaped' \in BOOLEAN) /\ (~escaped' => ~escaped)
    BY <2>3, <2>4, Zenon
  <2>6. gui' = "idle" /\ ~escaped' => FALSE
    BY <1>1, <2>2
  <2>7. gui' = "idle" \/ gui' = Ask(v)
    BY <1>1
  <2>8. /\ gui' \in {"idle", "confirm", "mount"}
        /\ gui' # "idle" => ui'.target_selected
        /\ gui' = "confirm" => ui'.partition
        /\ gui' = "mount" => ~ui'.partition /\ ~ui'.clone_persistent
    BY <1>2, <1>3, <1>4, <2>1, <2>2, <2>7 DEF SameOptions, SameChoice
  <2> QED  BY <2>5, <2>6, <2>8, Zenon
<1>7. LegacyTypeOK' /\ WindowTypes'
  BY <1>1, <1>4, <1>5, <1>6 DEF LegacyInv, LegacyTypeOK, WindowTypes, Ui
<1>8. RunningInv' /\ ListedInv'
  BY <1>1, <1>4, <1>5 DEF LegacyInv, RunningInv, ListedInv, CanBeUpgraded, Away
<1>9. OptionsInv'
  <2>1. ~escaped' => Fitting(ui', drives)
    BY <1>4, <1>6 DEF Fitting
  <2> QED  BY <1>1, <1>5, <1>6, <2>1 DEF OptionsInv
<1>10. DialogInv'
  BY <1>4, <1>5, <1>6 DEF DialogInv, Startable
<1> QED  BY <1>1, <1>7, <1>8, <1>9, <1>10, NoThread DEF LegacyInv

LEMMA ClickMoves ==
    ASSUME LegacyInv, ClickStart \/ ClickReinstall
    PROVE  LegacyInv'
<1>1. gui = "idle"
  BY DEF ClickStart, ClickReinstall, Begin
<1>2. worker = "none"
  BY <1>1, HandlerOpen DEF ClickStart, ClickReinstall
<1>3. ui \in Ui /\ Startable(ui) /\ (~escaped => Fitting(ui, drives))
  BY <1>2, Untouched
<1>4. CASE ClickStart
  BY <1>2, <1>3, <1>4, BeginMoves DEF ClickStart, Startable
<1>5. CASE ClickReinstall
  <2> DEFINE b == [ui EXCEPT !.force_reinstall = TRUE, !.partition = TRUE]
  <2>1. Begin(b) /\ ui.reinstall
    BY <1>5 DEF ClickReinstall
  <2>2. /\ b \in Ui /\ b.partition /\ b.drive = ui.drive /\ b.listed = ui.listed
        /\ b.target_selected = ui.target_selected /\ b.reinstall = ui.reinstall
        /\ b.force_available = ui.force_available
    BY <1>3 DEF Ui
  <2> HIDE DEF b
  <2>3. ~escaped => Fitting(b, drives)
    BY <1>3, <2>1, <2>2 DEF Fitting
  <2> QED  BY <1>2, <2>1, <2>2, <2>3, BeginMoves
<1> QED  BY <1>4, <1>5

\* A dialog is open only before the thread was started.
LEMMA DialogOpen ==
    ASSUME LegacyInv, gui # "idle"
    PROVE  /\ worker = "none" /\ ~disturbed /\ ui.target_selected
           /\ live.port \in Port /\ live.stick \in Stick
           /\ ui \in Ui /\ Startable(ui) /\ drives \in Lists
           /\ ~escaped => Fitting(ui, drives) /\ ui.drive # NoPort
                          /\ live.stick = drives[ui.drive]
  BY DEF LegacyInv, LockedInv, DialogInv, AdvanceInv, OptionsInv, WindowTypes, Lists

\* An upgrade without an exception has a Tails system for its target.
LEMMA UpgradeOfTails ==
    ASSUME LegacyInv, gui # "idle", ~escaped, ~ui.partition, ~ui.clone_persistent
    PROVE  CanBeUpgraded(live.stick)
<1>1. /\ worker = "none" /\ live.stick \in Stick /\ Fitting(ui, drives)
      /\ ui.drive # NoPort /\ live.stick = drives[ui.drive]
  BY DialogOpen
<1>2. ui.drive \in Name /\ ui.drive.part
  BY <1>1 DEF Fitting, LegacyInv, LegacyTypeOK
<1> QED  BY <1>1, <1>2, LegacyAssumption DEF LegacyInv, ListedInv

LEMMA AgreeMoves ==
    ASSUME LegacyInv, Agree \/ PassphraseEntered
    PROVE  LegacyInv'
<1>1. /\ gui # "idle"
      /\ UNCHANGED <<port, holds, plugs, drives, clicks, live, attempt, ui, worker, acts,
                     escaped, disturbed>>
  BY DEF Agree, PassphraseEntered, InBegin
<1>2. worker = "none" /\ live.stick \in Stick
  BY <1>1, DialogOpen
<1>3. LegacyTypeOK' /\ WindowTypes' /\ DialogInv'
  BY <1>1, <1>2
  DEF LegacyInv, LegacyTypeOK, WindowTypes, DialogInv, Startable, Agree, PassphraseEntered,
      InBegin
<1>4. gui' # "idle"
  BY DEF Agree, PassphraseEntered
<1>5. RunningInv' /\ OptionsInv' /\ ListedInv'
  BY <1>1, <1>4
  DEF LegacyInv, RunningInv, OptionsInv, ListedInv, Away, Fitting, Fits, CanBeUpgraded
<1> QED  BY <1>1, <1>2, <1>3, <1>5, NoThread DEF LegacyInv

\* Back to the window, with the options of v.
LEMMA ReturnMoves ==
    ASSUME LegacyInv, gui # "idle", gui' = "idle",
           UNCHANGED <<port, holds, drives, live, attempt, worker, confirmed, acts,
                       escaped, disturbed>>,
           ui' \in Ui, Startable(ui'), ui'.drive = ui.drive, ui'.listed = ui.listed,
           ~escaped => Fitting(ui', drives) /\ (ui'.target_selected => ~ui'.choices)
    PROVE  LegacyInv'
<1>1. worker = "none" /\ ui.target_selected
  BY DialogOpen
<1>2. LegacyTypeOK' /\ WindowTypes'
  BY DEF LegacyInv, LegacyTypeOK, WindowTypes, Ui
<1>3. RunningInv' /\ ListedInv' /\ DialogInv'
  BY <1>1 DEF LegacyInv, RunningInv, ListedInv, DialogInv, Away, CanBeUpgraded
<1>4. OptionsInv'
  BY <1>1, DialogOpen DEF OptionsInv, Fitting, Fits
<1> QED  BY <1>1, <1>2, <1>3, <1>4, NoThread DEF LegacyInv

LEMMA CancelMoves ==
    ASSUME LegacyInv, Cancel \/ PassphraseCancelled
    PROVE  LegacyInv'
<1>1. /\ gui # "idle" /\ gui' = "idle"
      /\ UNCHANGED <<port, holds, drives, live, attempt, worker, confirmed, acts, escaped,
                     disturbed>>
  BY DEF Cancel, PassphraseCancelled, InBegin
<1>2. ui \in Ui /\ drives \in Lists /\ (~escaped => Fitting(ui, drives))
  BY <1>1, DialogOpen
<1>3. CASE Cancel
  <2> DEFINE u == Released(ui)
             w == IF u.force_available
                  THEN [u EXCEPT !.force_reinstall = FALSE, !.partition = FALSE] ELSE u
  <2>1. ui' = UpdateStartButton(w)
    BY <1>3 DEF Cancel
  <2>2. /\ u \in Ui /\ u.drive = ui.drive /\ u.listed = ui.listed /\ ~u.target_selected
        /\ ~escaped => Fitting(u, drives)
    BY <1>2, ReleasedWindow
  <2> HIDE DEF u
  <2>3. /\ w \in Ui /\ w.drive = u.drive /\ w.listed = u.listed /\ ~w.target_selected
        /\ w.force_available = u.force_available /\ w.reinstall = u.reinstall
        /\ w.clone_persistent = u.clone_persistent
        /\ w.partition = u.partition \/ (u.force_available /\ ~w.partition)
    <3>1. CASE u.force_available
      <4> DEFINE f == [u EXCEPT !.force_reinstall = FALSE, !.partition = FALSE]
      <4>1. /\ f \in Ui /\ f.drive = u.drive /\ f.listed = u.listed
            /\ f.target_selected = u.target_selected
            /\ f.force_available = u.force_available /\ f.reinstall = u.reinstall
            /\ f.clone_persistent = u.clone_persistent /\ f.partition = FALSE
        BY <2>2 DEF Ui
      <4>2. w = f
        BY <3>1, Zenon
      <4> HIDE DEF f, w
      <4> QED  BY <2>2, <3>1, <4>1, <4>2, Zenon
    <3>2. CASE ~u.force_available
      <4>1. w = u
        BY <3>2, Zenon
      <4> HIDE DEF w
      <4> QED  BY <2>2, <4>1, Zenon
    <3> QED  BY <3>1, <3>2, Zenon
  <2> HIDE DEF w
  <2>4. ~escaped => Fitting(w, drives)
    BY <2>2, <2>3 DEF Fitting
  <2>5. /\ ui' \in Ui /\ Startable(ui') /\ SameOptions(w, ui') /\ ui'.reinstall = w.reinstall
    BY <2>1, <2>3, StartButton
  <2>6. ~escaped => Fitting(ui', drives)
    BY <1>2, <2>3, <2>4, <2>5, OptionsKept
  <2> QED  BY <1>1, <2>2, <2>3, <2>5, <2>6, ReturnMoves DEF SameOptions, SameChoice
<1>4. CASE PassphraseCancelled
  <2> DEFINE w == [ui EXCEPT !.force_reinstall = FALSE, !.partition = FALSE]
             u == Released(w)
  <2>1. ui' = UpdateStartButton(u) /\ gui = "passphrase"
    BY <1>4 DEF PassphraseCancelled, InBegin
  <2>2. /\ w \in Ui /\ w.drive = ui.drive /\ w.listed = ui.listed
        /\ w.force_available = ui.force_available /\ w.reinstall = ui.reinstall
        /\ w.clone_persistent = ui.clone_persistent /\ ~w.partition
    BY <1>2 DEF Ui
  <2>3. ui.clone_persistent
    BY <2>1 DEF LegacyInv, DialogInv
  <2> HIDE DEF w
  <2>4. ~escaped => Fitting(w, drives)
    BY <1>2, <2>2, <2>3 DEF Fitting
  <2>5. /\ u \in Ui /\ u.drive = ui.drive /\ u.listed = ui.listed /\ ~u.target_selected
        /\ ~escaped => Fitting(u, drives)
    BY <1>2, <2>2, <2>4, ReleasedWindow
  <2> HIDE DEF u
  <2>6. /\ ui' \in Ui /\ Startable(ui') /\ SameOptions(u, ui') /\ ui'.reinstall = u.reinstall
    BY <2>1, <2>5, StartButton
  <2>7. ~escaped => Fitting(ui', drives)
    BY <1>2, <2>5, <2>6, OptionsKept
  <2> QED  BY <1>1, <2>5, <2>6, <2>7, ReturnMoves DEF SameOptions, SameChoice
<1> QED  BY <1>3, <1>4

\* The controls are opened again, with the target still selected.
LEMMA OpenedWindow ==
    ASSUME NEW u \in Ui, NEW list \in Lists
    PROVE  LET v == EnableWidgets(u, TRUE)
           IN  /\ v \in Ui /\ Startable(v) /\ SameOptions(u, v)
               /\ v.target_selected => ~v.choices
               /\ Fitting(u, list) => Fitting(v, list)
<1>1. Fitting(u, list) => Fitting(EnableWidgets(u, TRUE), list)
  BY Enabled, OptionsKept
<1> QED  BY <1>1, Enabled DEF SameOptions, SameChoice

LEMMA MountMoves ==
    ASSUME LegacyInv, MountInBegin
    PROVE  LegacyInv'
<1>1. /\ gui = "mount"
      /\ UNCHANGED <<port, holds, drives, live, attempt, worker, confirmed, acts, disturbed>>
  BY DEF MountInBegin, InBegin
<1>2. worker = "none" /\ ui \in Ui /\ Startable(ui) /\ drives \in Lists
      /\ (~escaped => Fitting(ui, drives))
  BY <1>1, DialogOpen
<1>3. CASE gui' = "delete" /\ UNCHANGED <<ui, escaped>>
  <2>1. LegacyTypeOK' /\ WindowTypes' /\ RunningInv' /\ ListedInv' /\ DialogInv'
    BY <1>1, <1>3 DEF LegacyInv, LegacyTypeOK, WindowTypes, RunningInv, ListedInv, DialogInv,
                      Away, CanBeUpgraded, Startable
  <2>2. OptionsInv'
    BY <1>1, <1>3 DEF LegacyInv, OptionsInv, Fitting, Fits
  <2> QED  BY <1>1, <1>2, <2>1, <2>2, NoThread DEF LegacyInv
<1>4. CASE gui' = "idle" /\ ui' = EnableWidgets(ui, TRUE) /\ UNCHANGED escaped
  BY <1>1, <1>2, <1>4, OpenedWindow, ReturnMoves DEF SameOptions, SameChoice
<1>5. CASE gui' = "idle" /\ escaped' = TRUE /\ UNCHANGED ui
  <2>1. OptionsInv'
    BY <1>5 DEF OptionsInv
  <2>2. escaped' \in BOOLEAN
    BY <1>5
  <2>3. LegacyTypeOK' /\ WindowTypes' /\ RunningInv' /\ ListedInv' /\ DialogInv'
    BY <1>1, <1>5, <2>2 DEF LegacyInv, LegacyTypeOK, WindowTypes, RunningInv, ListedInv,
                      DialogInv, Away, CanBeUpgraded, Startable
  <2> QED  BY <1>1, <1>2, <2>1, <2>3, NoThread DEF LegacyInv
<1> QED  BY <1>3, <1>4, <1>5 DEF MountInBegin

LEMMA TornTyped ==
    ASSUME LegacyInv, NEW s \in Stick
    PROVE  /\ Torn(s) \in [Stick -> Holding]
           /\ \A x \in Stick : x # s => Torn(s)[x] = holds[x]
           /\ \A x \in Stick : CanBeUpgraded(x)
                => Torn(s)[x].system \in {"tails", "torn", "copied", "new"}
           /\ CanBeUpgraded(s) => Torn(s)[s].system = "torn"
           /\ \A x \in Stick : holds[x].system = "foreign" => Torn(s)[x].system = "foreign"
           /\ Torn(s)[s].mbr = holds[s].mbr /\ Torn(s)[s].persistence = holds[s].persistence
  BY DEF LegacyInv, LegacyTypeOK, Torn, Holding, System, CanBeUpgraded

LEMMA DeleteMoves ==
    ASSUME LegacyInv, DeleteLiveos
    PROVE  LegacyInv'
<1>1. /\ gui = "delete" /\ gui' \in {"launch", "idle"}
      /\ UNCHANGED <<port, drives, live, attempt, worker, confirmed, escaped, disturbed>>
      /\ \/ gui' = "launch" /\ ui' = ui
         \/ gui' = "idle" /\ ui' = EnableWidgets(ui, TRUE)
  BY DEF DeleteLiveos, InBegin
<1>2. /\ worker = "none" /\ ui \in Ui /\ Startable(ui) /\ drives \in Lists
      /\ ~escaped => Fitting(ui, drives) /\ ui.drive # NoPort /\ live.stick = drives[ui.drive]
      /\ live.port \in Port /\ ~ui.partition /\ ~ui.clone_persistent /\ ui.target_selected
  BY <1>1, DialogOpen DEF LegacyInv, DialogInv
<1>3. /\ ui' \in Ui /\ Startable(ui') /\ SameOptions(ui, ui')
      /\ gui' = "idle" => (ui'.target_selected => ~ui'.choices)
      /\ ~escaped => Fitting(ui', drives)
  BY <1>1, <1>2, OpenedWindow DEF SameOptions, SameChoice
<1> DEFINE s == port[live.port]
<1>4. \/ UNCHANGED <<holds, acts>>
      \/ /\ s \in Stick /\ holds' = Torn(s)
         /\ acts' = acts \cup {Act("delete", live.port)}
  BY <1>2 DEF DeleteLiveos, LegacyInv, LegacyTypeOK
<1>5. /\ holds' \in [Stick -> Holding]
      /\ \A x \in Stick : CanBeUpgraded(x) => CanBeUpgraded(x)'
      /\ \A x \in Stick : holds[x].system = "foreign" => holds'[x].system = "foreign"
  BY <1>4, TornTyped DEF LegacyInv, LegacyTypeOK, CanBeUpgraded
<1>6. LegacyTypeOK' /\ WindowTypes'
  BY <1>1, <1>3, <1>5 DEF LegacyInv, LegacyTypeOK, WindowTypes, Ui
<1>7. RunningInv' /\ ListedInv'
  BY <1>1, <1>2, <1>3, <1>5
  DEF LegacyInv, LegacyTypeOK, RunningInv, ListedInv, Away, SameOptions, SameChoice
<1>8. DialogInv'
  BY <1>1, <1>2, <1>3 DEF LegacyInv, DialogInv, SameOptions, SameChoice
<1>9. OptionsInv'
  BY <1>1, <1>2, <1>3 DEF OptionsInv, SameOptions, SameChoice, Fitting, Fits
<1>10. LockedInv' /\ AdvanceInv'
  BY <1>1, <1>2 DEF LegacyInv, LockedInv, AdvanceInv, Erasing, Installing, Copied, Booting,
                    PastTable
<1>11. ActsInv'
  <2>1. CASE UNCHANGED acts
    BY <1>1, <2>1
    DEF LegacyInv, ActsInv, ErasedAsAgreed, UpgradesATails, BackupOnNewTable
  <2>2. CASE acts' = acts \cup {Act("delete", live.port)}
    <3> DEFINE a == Act("delete", live.port)
    <3>1. a.what = "delete" /\ a.stick = s /\ a.listed = live.stick
          /\ a.held = holds[s].system /\ a.settled = (~escaped)
      BY DEF Act
    <3>2. a.stick = a.listed => a.held # "foreign" \/ ~a.settled
      BY <1>1, <1>2, <3>1, UpgradeOfTails DEF CanBeUpgraded
    <3>3. a.what = "delete"
      BY <3>1
    <3> HIDE DEF a
    <3>4. \A b \in acts' : b \in acts \/ b = a
      BY <2>2 DEF a
    <3>5. \A b \in acts' : b.what = "delete"
      BY <1>2, <3>3, <3>4 DEF LegacyInv, ActsInv
    <3>6. UpgradesATails'
      BY <3>2, <3>4 DEF LegacyInv, ActsInv, UpgradesATails
    <3> QED  BY <1>1, <3>5, <3>6 DEF ActsInv, ErasedAsAgreed, BackupOnNewTable
  <2> QED  BY <1>4, <2>1, <2>2
<1> QED  BY <1>6, <1>7, <1>8, <1>9, <1>10, <1>11 DEF LegacyInv

LEMMA LaunchMoves ==
    ASSUME LegacyInv, Launch
    PROVE  LegacyInv'
<1>1. gui = "launch"
  BY DEF Launch, InBegin
<1>2. /\ worker = "none" /\ ui \in Ui /\ drives \in Lists /\ ui.target_selected
      /\ live.port \in Port /\ ~disturbed
      /\ ~escaped => Fitting(ui, drives)
      /\ ui.partition => confirmed = {live.stick}
      /\ ui.clone_persistent => ui.partition
      /\ escaped \in BOOLEAN
  BY <1>1, DialogOpen DEF LegacyInv, DialogInv, LegacyTypeOK
<1>3. /\ gui' = "idle" /\ worker' = (IF ui.partition THEN "unmount" ELSE "verify")
      /\ UNCHANGED <<port, holds, drives, live, attempt, confirmed, acts, escaped, disturbed>>
  BY <1>2 DEF Launch, InBegin
<1>4. /\ ui' \in Ui /\ SameOptions(ui, ui') /\ ~ui'.choices /\ ~ui'.start /\ ~ui'.reinstall
  BY <1>2, Disabled DEF Launch
<1>5. LegacyTypeOK' /\ WindowTypes'
  BY <1>3, <1>4 DEF LegacyInv, LegacyTypeOK, WindowTypes, Ui, Step
<1>6. RunningInv' /\ ListedInv' /\ DialogInv' /\ LockedInv'
  BY <1>2, <1>3, <1>4
  DEF LegacyInv, RunningInv, ListedInv, DialogInv, LockedInv, Away, SameOptions, SameChoice,
      Startable
<1>7. OptionsInv'
  <2>1. ~escaped => Fitting(ui', drives)
    BY <1>2, <1>4, OptionsKept
  <2> QED  BY <1>2, <1>3, <1>4, <2>1
           DEF LegacyInv, OptionsInv, SameOptions, SameChoice, Fitting, Fits
<1>8. AdvanceInv'
  <2>1. ui'.partition = ui.partition /\ Here' = Here
    BY <1>3, <1>4 DEF SameOptions, Here
  <2>2. ~ui.partition /\ Here = live.stick => CanBeUpgraded(Here) \/ Astray
    BY <1>1, <1>2, UpgradeOfTails, DialogOpen DEF LegacyInv, ListedInv, Astray
  <2> QED  BY <1>2, <1>3, <2>1, <2>2
           DEF AdvanceInv, Astray, Erasing, Installing, Copied, Booting, PastTable, CanBeUpgraded
<1>9. ActsInv'
  BY <1>2, <1>3 DEF LegacyInv, ActsInv, ErasedAsAgreed, UpgradesATails, BackupOnNewTable
<1> QED  BY <1>5, <1>6, <1>7, <1>8, <1>9 DEF LegacyInv

-----------------------------------------------------------------------------
(***************************************************************************)
(* The installing thread.                                                  *)
(***************************************************************************)

LEMMA ThreadKeeps ==
    ASSUME LegacyInv, worker # "none", worker' \in Step \ {"none"}, attempt' \in 0..Attempts,
           holds' \in [Stick -> Holding],
           UNCHANGED <<port, drives, ui, gui, live, confirmed, escaped, disturbed>>
    PROVE  /\ LegacyTypeOK' /\ WindowTypes' /\ RunningInv' /\ OptionsInv' /\ ListedInv'
           /\ DialogInv' /\ LockedInv'
<1>1. LegacyTypeOK' /\ WindowTypes'
  BY DEF LegacyInv, LegacyTypeOK, WindowTypes
<1>2. RunningInv' /\ ListedInv' /\ DialogInv' /\ LockedInv'
  BY DEF LegacyInv, RunningInv, ListedInv, DialogInv, LockedInv, Away, Startable
<1>3. OptionsInv'
  BY DEF LegacyInv, OptionsInv, Fitting, Fits
<1> QED  BY <1>1, <1>2, <1>3

\* A step that writes nothing leads no further than the stick has come.
Leads(from, to) ==
    /\ from # "none" /\ to \in Step \ {"none", "complete"}
    /\ to \in Erasing => from \in Erasing
    /\ to \in PastTable => from \in PastTable
    /\ to \in Installing => from \in Installing \cup {"mount"}
    /\ to \notin {"mount", "backup"}
    /\ to \in Copied => from \in Copied
    /\ to \in Booting => from \in Booting
    /\ to \in {"flush", "seed"} => from = "flush"

LEMMA QuietStep ==
    ASSUME LegacyInv, Leads(worker, worker'), attempt' \in 0..Attempts,
           UNCHANGED <<port, holds, acts, drives, ui, gui, live, confirmed, escaped, disturbed>>
    PROVE  LegacyInv'
<1>1. worker # "none" /\ worker' \in Step \ {"none"} /\ worker' # "complete"
  BY DEF Leads
<1>2. holds' \in [Stick -> Holding]
  BY DEF LegacyInv, LegacyTypeOK
<1>3. ActsInv'
  BY <1>1 DEF LegacyInv, ActsInv, ErasedAsAgreed, UpgradesATails, BackupOnNewTable
<1>4. AdvanceInv'
  <2>1. Here' = Here /\ \A s \in Stick : CanBeUpgraded(s)' = CanBeUpgraded(s)
    BY DEF Here, CanBeUpgraded
  <2>2. (CanBeUpgraded(Here))' = CanBeUpgraded(Here)
    BY <2>1 DEF CanBeUpgraded
  <2>3. Astray' = Astray /\ CopiedAstray' = CopiedAstray
    BY <2>1 DEF Astray, CopiedAstray
  <2> QED  BY <1>1, <2>1, <2>2, <2>3 DEF LegacyInv, AdvanceInv, Leads, Copied, Booting
<1> QED  BY <1>1, <1>2, <1>3, <1>4, ThreadKeeps DEF LegacyInv

LEMMA ActAdded ==
    ASSUME LegacyInv, worker' # "none", NEW a, acts' = acts \cup {a},
           UNCHANGED <<confirmed, disturbed>>, a.what # "delete",
           a.what \in {"wipe", "format"} /\ a.stick = a.listed
             => a.stick \in confirmed \ {Running} /\ (a.stick \in Small => ~a.settled),
           a.what = "backup" /\ ~disturbed
             => \E w \in acts : w.what = "wipe" /\ w.stick = a.stick
    PROVE  ActsInv'
<1>1. \A b \in acts' : b \in acts \/ b = a
  OBVIOUS
<1>2. ErasedAsAgreed'
  BY <1>1 DEF LegacyInv, ActsInv, ErasedAsAgreed
<1>3. UpgradesATails'
  BY <1>1 DEF LegacyInv, ActsInv, UpgradesATails
<1>4. BackupOnNewTable'
  BY <1>1 DEF LegacyInv, ActsInv, BackupOnNewTable
<1> QED  BY <1>2, <1>3, <1>4 DEF ActsInv

\* The thread erases what the dialog named, or another stick than the one listed.
LEMMA Erases ==
    ASSUME LegacyInv, worker \in Erasing, Here # NoStick, NEW what \in {"wipe", "format"}
    PROVE  LET a == Act(what, live.port)
           IN  /\ a.what = what /\ a.stick = Here
               /\ a.stick = a.listed
                  => a.stick \in confirmed \ {Running} /\ (a.stick \in Small => ~a.settled)
<1>1. /\ ui.target_selected /\ ui.partition /\ confirmed = {live.stick}
      /\ live.stick # Running /\ live.stick \in Stick /\ worker # "none"
  BY DEF LegacyInv, AdvanceInv, LockedInv, RunningInv, DialogInv, Erasing
<1>2. ~escaped => live.stick \notin Small
  <2>1. SUFFICES ASSUME ~escaped PROVE live.stick \notin Small
    OBVIOUS
  <2>2. Fitting(ui, drives) /\ ui.drive # NoPort /\ live.stick = drives[ui.drive]
    BY <1>1, <2>1 DEF LegacyInv, OptionsInv
  <2> QED  BY <1>1, <2>2 DEF Fitting, Fits
<1> DEFINE a == Act(what, live.port)
<1>3. a.what = what /\ a.stick = Here /\ a.listed = live.stick
  BY DEF Act, Here
<1>4. a.settled = ~escaped
  BY DEF Act
<1> HIDE DEF a
<1>5. a.stick = a.listed => a.stick \in confirmed \ {Running}
  BY <1>1, <1>3
<1>6. a.stick = a.listed /\ a.stick \in Small => ~a.settled
  BY <1>2, <1>3, <1>4
<1> QED  BY <1>3, <1>5, <1>6 DEF a

\* The stick at the port is a stick, and the window stands still.
LEMMA ThreadRuns ==
    ASSUME LegacyInv, worker # "none"
    PROVE  /\ gui = "idle" /\ ui.target_selected /\ live.port \in Port
           /\ Here \in Stick \cup {NoStick} /\ attempt \in 0..Attempts
           /\ holds \in [Stick -> Holding]
           /\ ui.clone_persistent => ui.partition
  BY DEF LegacyInv, LockedInv, DialogInv, LegacyTypeOK, Here

LEMMA QuietMoves ==
    ASSUME LegacyInv,
           \/ UnmountTarget \/ RescanPartition \/ SwitchDriveToSystemPartition
           \/ MountDevice \/ VerifyFilesystem \/ CheckFreeSpace \/ ReadExtractedMbr
           \/ UpdateConfigs \/ FlushAndUnmount
           \/ \E now \in Writing \ {"partition"} : Fails(now)
    PROVE  LegacyInv'
<1>1. UNCHANGED <<port, holds, acts, drives, ui, gui, live, confirmed, escaped, disturbed>>
      /\ attempt' = attempt
  BY DEF UnmountTarget, RescanPartition, SwitchDriveToSystemPartition, MountDevice,
         VerifyFilesystem, CheckFreeSpace, ReadExtractedMbr, UpdateConfigs, FlushAndUnmount,
         Passes, Fails, Worker, window
<1>2. Leads(worker, worker')
  BY DEF UnmountTarget, RescanPartition, SwitchDriveToSystemPartition, MountDevice,
         VerifyFilesystem, CheckFreeSpace, ReadExtractedMbr, UpdateConfigs, FlushAndUnmount,
         Passes, Fails, Worker, Leads, Writing, Over, Step, Erasing, Installing, Copied,
         Booting, PastTable
<1>3. attempt' \in 0..Attempts
  BY <1>1 DEF LegacyInv, LegacyTypeOK
<1> QED  BY <1>1, <1>2, <1>3, QuietStep

\* What a step that writes leaves alone.
LEMMA WriterKeeps ==
    ASSUME LegacyInv, NEW now, now \in Writing, Worker(now)
    PROVE  /\ UNCHANGED <<port, drives, ui, gui, live, confirmed, escaped, disturbed>>
           /\ worker = now /\ worker # "none" /\ Here' = Here
           /\ Here \in Stick \cup {NoStick} /\ attempt \in 0..Attempts
           /\ holds \in [Stick -> Holding]
  BY ThreadRuns DEF Worker, Writing, Step, window, Here

LEMMA TableMoves ==
    ASSUME LegacyInv, ReadTable
    PROVE  LegacyInv'
<1>1. /\ UNCHANGED <<port, drives, ui, gui, live, confirmed, escaped, disturbed>>
      /\ worker = "table" /\ Here' = Here
      /\ Here \in Stick \cup {NoStick} /\ holds \in [Stick -> Holding]
  BY WriterKeeps DEF ReadTable, Writing, Step, Over
<1>2. attempt' \in 0..Attempts /\ worker' = "partition"
  BY LegacyAssumption DEF ReadTable
<1>3. CASE UNCHANGED <<holds, acts>>
  <2>1. Leads(worker, worker')
    BY <1>1, <1>2 DEF Leads, Step, Erasing, Installing, Copied, Booting, PastTable
  <2> QED  BY <1>1, <1>2, <1>3, <2>1, QuietStep
<1>4. CASE /\ Here # NoStick
           /\ holds' = [holds EXCEPT ![Here] = [@ EXCEPT !.mbr = FALSE]]
           /\ acts' = acts \cup {Act("wipe", live.port)}
  <2>1. holds' \in [Stick -> Holding]
    <3>1. [holds[Here] EXCEPT !.mbr = FALSE] \in Holding
      BY <1>1, <1>4 DEF Holding
    <3> QED  BY <1>1, <1>4, <3>1
  <2>2. ActsInv'
    BY <1>1, <1>2, <1>4, Erases, ActAdded DEF Erasing
  <2>3. AdvanceInv'
    BY <1>1, <1>2
    DEF LegacyInv, AdvanceInv, Erasing, Installing, Copied, Booting, PastTable
  <2>4. worker' \in Step \ {"none"}
    BY <1>2 DEF Step
  <2> QED  BY <1>1, <1>2, <2>1, <2>2, <2>3, <2>4, ThreadKeeps DEF LegacyInv
<1> QED  BY <1>3, <1>4 DEF ReadTable

LEMMA RetryBounded ==
    ASSUME LegacyInv, Retry, worker = "partition"
    PROVE  attempt' \in 0..Attempts /\ worker' \in {"partition", "failed"}
  BY LegacyAssumption DEF Retry, LegacyInv, LegacyTypeOK

LEMMA PartitionMoves ==
    ASSUME LegacyInv, PartitionAttempt
    PROVE  LegacyInv'
<1>1. /\ UNCHANGED <<port, drives, ui, gui, live, confirmed, escaped, disturbed>>
      /\ worker = "partition" /\ Here' = Here
      /\ Here \in Stick \cup {NoStick} /\ holds \in [Stick -> Holding]
      /\ attempt \in 0..Attempts
  BY WriterKeeps DEF PartitionAttempt, Writing, Step, Over
<1>2. CASE UNCHANGED <<holds, acts>> /\ Retry
  <2>1. attempt' \in 0..Attempts /\ worker' \in {"partition", "failed"}
    BY <1>1, <1>2, RetryBounded
  <2>2. Leads(worker, worker')
    BY <1>1, <2>1 DEF Leads, Step, Erasing, Installing, Copied, Booting, PastTable
  <2> QED  BY <1>1, <1>2, <2>1, <2>2, QuietStep
<1>3. CASE /\ Here # NoStick
           /\ holds' = [holds EXCEPT ![Here] = Wiped]
           /\ acts' = acts \cup {Act("wipe", live.port)}
           /\ \/ worker' = "rescan" /\ UNCHANGED attempt
              \/ Retry
  <2>1. attempt' \in 0..Attempts /\ worker' \in {"partition", "failed", "rescan"}
    BY <1>1, <1>3, RetryBounded
  <2>2. holds' \in [Stick -> Holding]
    <3>1. Wiped \in Holding
      BY DEF Wiped, Holding, System
    <3> QED  BY <1>1, <1>3, <3>1
  <2>3. ActsInv'
    BY <1>1, <1>3, <2>1, Erases, ActAdded DEF Erasing
  <2>4. \E w \in acts' : w.what = "wipe" /\ w.stick = Here'
    <3>1. Act("wipe", live.port).what = "wipe" /\ Act("wipe", live.port).stick = Here
      BY <1>1, <1>3, Erases DEF Erasing
    <3>2. Act("wipe", live.port) \in acts'
      BY <1>3
    <3> QED  BY <1>1, <3>1, <3>2, Zenon
  <2>5. ui.partition /\ ui' = ui
    BY <1>1 DEF LegacyInv, AdvanceInv, Erasing
  <2>6. AdvanceInv'
    BY <2>1, <2>4, <2>5, <1>1
    DEF AdvanceInv, Erasing, Installing, Copied, Booting, PastTable
  <2>7. worker' \in Step \ {"none"}
    BY <2>1 DEF Step
  <2> QED  BY <1>1, <2>1, <2>2, <2>3, <2>6, <2>7, ThreadKeeps DEF LegacyInv
<1> QED  BY <1>2, <1>3 DEF PartitionAttempt

LEMMA FormatMoves ==
    ASSUME LegacyInv, FormatDevice
    PROVE  LegacyInv'
<1>1. /\ UNCHANGED <<port, drives, ui, gui, live, confirmed, escaped, disturbed>>
      /\ worker = "format" /\ Here' = Here
      /\ Here \in Stick \cup {NoStick} /\ holds \in [Stick -> Holding]
      /\ attempt \in 0..Attempts
  BY WriterKeeps DEF FormatDevice, Writing, Step, Over
<1>2. /\ Here # NoStick /\ holds' = [holds EXCEPT ![Here].system = "torn"]
      /\ acts' = acts \cup {Act("format", live.port)}
      /\ worker' = "mount" /\ attempt' = attempt
  BY DEF FormatDevice
<1>3. holds' \in [Stick -> Holding] /\ holds'[Here].system = "torn"
  BY <1>1, <1>2 DEF Holding, System
<1>4. ActsInv'
  BY <1>1, <1>2, Erases, ActAdded DEF Erasing
<1>5. AdvanceInv'
  <2>1. \A w \in acts : w \in acts'
    BY <1>2
  <2>2. (CanBeUpgraded(Here))'
    BY <1>1, <1>3 DEF CanBeUpgraded
  <2>3. ui.partition
    BY <1>1 DEF LegacyInv, AdvanceInv, Erasing
  <2>4. ~disturbed => \E w \in acts : w.what = "wipe" /\ w.stick = Here
    BY <1>1, <2>3 DEF LegacyInv, AdvanceInv, PastTable
  <2> QED  BY <1>1, <1>2, <2>1, <2>2, <2>3, <2>4
           DEF AdvanceInv, Erasing, Installing, Copied, Booting, PastTable
<1>6. worker' \in Step \ {"none"}
  BY <1>2 DEF Step
<1> QED  BY <1>1, <1>2, <1>3, <1>4, <1>5, <1>6, ThreadKeeps DEF LegacyInv

LEMMA AstrayStays ==
    ASSUME CopiedAstray, Here' = Here, \A w \in acts : w \in acts'
    PROVE  CopiedAstray'
  BY DEF CopiedAstray

\* An act of the thread other than to erase or to delete.
LEMMA ActsOn ==
    ASSUME NEW what
    PROVE  /\ Act(what, live.port).what = what /\ Act(what, live.port).stick = Here
           /\ Act(what, live.port).held = holds[Here].system
           /\ escaped => ~Act(what, live.port).settled
  BY DEF Act, Here

LEMMA ExtractMoves ==
    ASSUME LegacyInv, ExtractIso
    PROVE  LegacyInv'
<1>1. /\ UNCHANGED <<port, drives, ui, gui, live, confirmed, escaped, disturbed>>
      /\ worker = "extract" /\ Here' = Here
      /\ Here \in Stick \cup {NoStick} /\ holds \in [Stick -> Holding]
      /\ attempt \in 0..Attempts
  BY WriterKeeps DEF ExtractIso, Writing, Step, Over
<1> DEFINE a == Act("copy", live.port)
<1>2. Here # NoStick /\ acts' = acts \cup {a} /\ attempt' = attempt
  BY DEF ExtractIso
<1>3. /\ a.what = "copy" /\ a.stick = Here /\ a.held = holds[Here].system
      /\ escaped => ~a.settled
  BY ActsOn
<1> HIDE DEF a
<1>4. PICK whole \in BOOLEAN :
        /\ holds' = IF whole /\ CanBeUpgraded(Here)
                    THEN [holds EXCEPT ![Here].system = "copied"] ELSE Torn(Here)
        /\ worker' = IF whole THEN "mbr" ELSE "failed"
  BY DEF ExtractIso
<1>5. holds' \in [Stick -> Holding]
  <2>1. [holds EXCEPT ![Here].system = "copied"] \in [Stick -> Holding]
    BY <1>1, <1>2 DEF Holding, System
  <2> QED  BY <1>1, <1>2, <1>4, <2>1, TornTyped
<1>6. worker' \in {"mbr", "failed"} /\ worker' \in Step \ {"none"}
  BY <1>4 DEF Step
<1>7. ActsInv'
  BY <1>1, <1>2, <1>3, <1>6, ActAdded
<1>8. AdvanceInv'
  <2>1. \A w \in acts : w \in acts'
    BY <1>2
  <2>2. ~disturbed /\ ui.partition => \E w \in acts : w.what = "wipe" /\ w.stick = Here
    BY <1>1 DEF LegacyInv, AdvanceInv, PastTable, Installing
  <2>3. a \in acts'
    BY <1>2
  <2>4. ~disturbed /\ Here = live.stick /\ worker' = "mbr"
        => holds'[Here].system = "copied" \/ CopiedAstray'
    <3>1. ~disturbed /\ Here = live.stick => CanBeUpgraded(Here) \/ Astray
      BY <1>1 DEF LegacyInv, AdvanceInv, Installing
    <3>2. [holds EXCEPT ![Here].system = "copied"][Here].system = "copied"
      BY <1>1, <1>2 DEF Holding
    <3>3. Astray => CopiedAstray'
      BY <1>1, <1>3, <2>3 DEF Astray, CopiedAstray
    <3> QED  BY <1>4, <3>1, <3>2, <3>3
  <2> QED  BY <1>1, <1>3, <1>6, <2>1, <2>2, <2>3, <2>4
           DEF AdvanceInv, Erasing, Installing, Copied, Booting, PastTable
<1> QED  BY <1>1, <1>2, <1>5, <1>6, <1>7, <1>8, ThreadKeeps DEF LegacyInv

LEMMA BootMoves ==
    ASSUME LegacyInv, InstallBootloader
    PROVE  LegacyInv'
<1>1. /\ UNCHANGED <<port, drives, ui, gui, live, confirmed, escaped, disturbed>>
      /\ worker = "boot" /\ Here' = Here
      /\ Here \in Stick \cup {NoStick} /\ holds \in [Stick -> Holding]
      /\ attempt \in 0..Attempts
  BY WriterKeeps DEF InstallBootloader, Writing, Step, Over
<1>2. /\ Here # NoStick /\ UNCHANGED <<attempt, acts>>
      /\ holds' = [holds EXCEPT ![Here].system = IF @ = "copied" THEN "new" ELSE @]
      /\ worker' = IF ui.clone_persistent THEN "backup" ELSE "flush"
  BY DEF InstallBootloader
<1>3. /\ holds' \in [Stick -> Holding]
      /\ holds[Here].system = "copied" => holds'[Here].system = "new"
  BY <1>1, <1>2 DEF Holding, System
<1>4. worker' \in {"backup", "flush"} /\ worker' \in Step \ {"none"}
  BY <1>2 DEF Step
<1>5. ActsInv'
  BY <1>1, <1>2, <1>4 DEF LegacyInv, ActsInv, ErasedAsAgreed, UpgradesATails, BackupOnNewTable
<1>6. AdvanceInv'
  BY <1>1, <1>2, <1>3, <1>4, AstrayStays
  DEF LegacyInv, AdvanceInv, Erasing, Installing, Copied, Booting, PastTable
<1> QED  BY <1>1, <1>2, <1>3, <1>4, <1>5, <1>6, ThreadKeeps DEF LegacyInv

LEMMA BackupMoves ==
    ASSUME LegacyInv, ClonePersistentStorage
    PROVE  LegacyInv'
<1>1. /\ UNCHANGED <<port, drives, ui, gui, live, confirmed, escaped, disturbed>>
      /\ worker = "backup" /\ Here' = Here
      /\ Here \in Stick \cup {NoStick} /\ holds \in [Stick -> Holding]
      /\ attempt \in 0..Attempts
  BY WriterKeeps DEF ClonePersistentStorage, Writing, Step, Over
<1> DEFINE a == Act("backup", live.port)
<1>2. /\ Here # NoStick /\ acts' = acts \cup {a} /\ attempt' = attempt /\ worker' = "flush"
      /\ holds' = [holds EXCEPT ![Here].persistence = "backup"]
  BY DEF ClonePersistentStorage
<1>3. a.what = "backup" /\ a.stick = Here
  BY ActsOn
<1> HIDE DEF a
<1>4. /\ holds' \in [Stick -> Holding] /\ holds'[Here].persistence = "backup"
      /\ holds'[Here].system = holds[Here].system
  BY <1>1, <1>2 DEF Holding
<1>5. \A w \in acts : w \in acts'
  BY <1>2
<1>6. AdvanceInv'
  BY <1>1, <1>2, <1>4, <1>5, AstrayStays
  DEF LegacyInv, AdvanceInv, Erasing, Installing, Copied, Booting, PastTable
<1>7. ActsInv'
  <2>1. ui.clone_persistent
    BY <1>1 DEF LegacyInv, LockedInv, AdvanceInv
  <2>2. ~disturbed => \E w \in acts : w.what = "wipe" /\ w.stick = Here
    BY <1>1, <2>1 DEF LegacyInv, LockedInv, AdvanceInv, PastTable, Booting
  <2> QED  BY <1>1, <1>2, <1>3, <2>2, ActAdded
<1>8. worker' \in Step \ {"none"}
  BY <1>2 DEF Step
<1> QED  BY <1>1, <1>2, <1>4, <1>6, <1>7, <1>8, ThreadKeeps DEF LegacyInv

LEMMA SeedMoves ==
    ASSUME LegacyInv, ResetMbrAndWriteRandomSeed
    PROVE  LegacyInv'
<1>1. /\ UNCHANGED <<port, drives, ui, gui, live, confirmed, escaped, disturbed>>
      /\ worker = "seed" /\ Here' = Here
      /\ Here \in Stick \cup {NoStick} /\ holds \in [Stick -> Holding]
      /\ attempt \in 0..Attempts
  BY WriterKeeps DEF ResetMbrAndWriteRandomSeed, Writing, Step, Over
<1> DEFINE a == Act("seed", live.port)
<1>2. /\ Here # NoStick /\ acts' = acts \cup {a} /\ attempt' = attempt /\ worker' = "complete"
      /\ holds' = [holds EXCEPT ![Here].mbr = TRUE]
  BY DEF ResetMbrAndWriteRandomSeed
<1>3. a.what = "seed"
  BY ActsOn
<1> HIDE DEF a
<1>4. /\ holds' \in [Stick -> Holding] /\ holds'[Here].mbr
      /\ holds'[Here].system = holds[Here].system
      /\ holds'[Here].persistence = holds[Here].persistence
  <2>1. \A x \in Holding : LET y == [x EXCEPT !.mbr = TRUE]
                           IN  /\ y \in Holding /\ y.mbr /\ y.system = x.system
                               /\ y.persistence = x.persistence
    BY DEF Holding
  <2>2. holds[Here] \in Holding /\ holds'[Here] = [holds[Here] EXCEPT !.mbr = TRUE]
    BY <1>1, <1>2
  <2>3. \A x \in Stick : x # Here => holds'[x] = holds[x]
    BY <1>1, <1>2
  <2>4. /\ holds'[Here] \in Holding /\ holds'[Here].mbr
        /\ holds'[Here].system = holds[Here].system
        /\ holds'[Here].persistence = holds[Here].persistence
    BY <2>1, <2>2, Zenon
  <2>5. DOMAIN holds' = Stick /\ holds' = [x \in Stick |-> holds'[x]]
    BY <1>1, <1>2
  <2>6. \A x \in Stick : holds'[x] \in Holding
    BY <1>1, <2>3, <2>4
  <2>7. holds' \in [Stick -> Holding]
    BY <2>5, <2>6
  <2> QED  BY <2>4, <2>7
<1>5. \A w \in acts : w \in acts'
  BY <1>2
<1>6. AdvanceInv'
  BY <1>1, <1>2, <1>4, <1>5, AstrayStays
  DEF LegacyInv, AdvanceInv, Erasing, Installing, Copied, Booting, PastTable
<1>7. ActsInv'
  BY <1>1, <1>2, <1>3, ActAdded
<1>8. worker' \in Step \ {"none"}
  BY <1>2 DEF Step
<1> QED  BY <1>1, <1>2, <1>4, <1>6, <1>7, <1>8, ThreadKeeps DEF LegacyInv

-----------------------------------------------------------------------------
(***************************************************************************)
(* The theorems.                                                           *)
(***************************************************************************)

LEMMA StepLegacy == ASSUME LegacyInv, [LegacyNext]_legacyVars PROVE LegacyInv'
<1>1. CASE UNCHANGED legacyVars
  <2> USE <1>1 DEF legacyVars
  <2>1. Here' = Here /\ (CanBeUpgraded(Here))' = CanBeUpgraded(Here)
    BY DEF Here, CanBeUpgraded
  <2>2. LegacyTypeOK' /\ WindowTypes' /\ RunningInv' /\ LockedInv' /\ DialogInv' /\ ListedInv'
    BY DEF LegacyInv, LegacyTypeOK, WindowTypes, RunningInv, LockedInv, DialogInv, ListedInv,
           Away, Startable, CanBeUpgraded
  <2>3. OptionsInv'
    BY DEF LegacyInv, OptionsInv, Fitting, Fits
  <2>4. AdvanceInv'
    BY <2>1 DEF LegacyInv, AdvanceInv, Astray, CopiedAstray
  <2>5. ActsInv'
    BY DEF LegacyInv, ActsInv, ErasedAsAgreed, UpgradesATails, BackupOnNewTable
  <2> QED  BY <2>2, <2>3, <2>4, <2>5 DEF LegacyInv
<1>2. CASE Run
  BY <1>2, QuietMoves, TableMoves, PartitionMoves, FormatMoves, ExtractMoves, BootMoves,
     BackupMoves, SeedMoves, Zenon DEF Run
<1>3. CASE BeginGoesOn
  BY <1>3, AgreeMoves, CancelMoves, MountMoves, DeleteMoves, LaunchMoves, Zenon DEF BeginGoesOn
<1> QED
  BY <1>1, <1>2, <1>3, HardwareMoves, TargetMoves, SelectSourceMoves, PopulateMoves,
     ToggleSourceMoves, WarnMoves, ClickMoves, Zenon DEF LegacyNext

LEMMA AlwaysLegacy == LegacySpec => []LegacyInv
  BY InitLegacy, StepLegacy, PTL DEF LegacySpec

(* Every variable keeps its type, whatever the user, the hardware and the  *)
(* thread do, and after an exception in a handler too.                     *)
THEOREM LegacyTypes == LegacySpec => []LegacyTypeOK
<1>1. LegacyInv => LegacyTypeOK
  BY DEF LegacyInv
<1> QED  BY <1>1, AlwaysLegacy, PTL

(* Of _legacyinstaller/gui.py and creator.py: whatever list, options and   *)
(* target the thread finds when it partitions and formats, the stick of    *)
(* the dialog is the one it erases if that stick is still in its port.     *)
THEOREM ErasesTheNamedStick == LegacySpec => []ErasedAsAgreed
<1>1. LegacyInv => ErasedAsAgreed
  BY DEF LegacyInv, ActsInv
<1> QED  BY <1>1, AlwaysLegacy, PTL

(* delete_liveos in begin(), which asks nobody, meets a Tails system, or   *)
(* an exception left the options of another drive.                         *)
THEOREM DeletesOnlyTails == LegacySpec => []UpgradesATails
<1>1. LegacyInv => UpgradesATails
  BY DEF LegacyInv, ActsInv
<1> QED  BY <1>1, AlwaysLegacy, PTL

(* clone_persistent_storage runs only on a stick that this run partitioned *)
(* anew, unless somebody pulled it.                                        *)
THEOREM ClonesOntoNewTable == LegacySpec => []BackupOnNewTable
<1>1. LegacyInv => BackupOnNewTable
  BY DEF LegacyInv, ActsInv
<1> QED  BY <1>1, AlwaysLegacy, PTL

(* "Cloning complete": every attempt, retry and failure before it being    *)
(* possible, the listed stick that stayed plugged in boots, has its boot   *)
(* record and the clone asked for; or the copy went onto a stick without a *)
(* Tails system after an exception had left the options of another drive.  *)
THEOREM CompleteMeansWhole == LegacySpec => []CompleteIsWhole
<1>1. LegacyInv => CompleteIsWhole
  <2> SUFFICES ASSUME LegacyInv, worker = "complete", ~disturbed, Here = live.stick
               PROVE  /\ holds[Here].system = "new" \/ CopiedAstray
                      /\ holds[Here].mbr
                      /\ ui.clone_persistent => holds[Here].persistence = "backup"
    BY DEF CompleteIsWhole
  <2> QED  BY DEF LegacyInv, AdvanceInv, Copied, Booting
<1> QED  BY <1>1, AlwaysLegacy, PTL

(* From the start of the thread to its end no handler of the window, and   *)
(* no refresh of the list, changes what the thread reads at each step.     *)
THEOREM WindowSettledWhileWriting == LegacySpec => SettledWhileWriting
<1>1. ASSUME LegacyInv, [LegacyNext]_legacyVars, worker \in Writing
      PROVE  UNCHANGED <<drives, ui>>
  <2>1. /\ worker # "none" /\ gui = "idle" /\ ui.target_selected
        /\ ~ui.start /\ ~ui.reinstall /\ ~ui.choices
    BY <1>1 DEF LegacyInv, LockedInv, Writing
  <2>2. CASE Run
    BY <2>2 DEF Run, UnmountTarget, ReadTable, PartitionAttempt, RescanPartition,
       SwitchDriveToSystemPartition, FormatDevice, MountDevice, VerifyFilesystem,
       CheckFreeSpace, ExtractIso, ReadExtractedMbr, UpdateConfigs, InstallBootloader,
       ClonePersistentStorage, FlushAndUnmount, ResetMbrAndWriteRandomSeed, Fails, Passes,
       Worker, window
  <2>3. ~BeginGoesOn
    BY <2>1 DEF BeginGoesOn, Agree, Cancel, PassphraseEntered, PassphraseCancelled,
       MountInBegin, DeleteLiveos, Launch, InBegin
  <2>4. /\ ~PopulateDevices /\ ~PopulateFails /\ ~ToggleSource /\ ~ToggleClonePersistent
        /\ ~WarnIsoNotSelected /\ ~ClickStart /\ ~ClickReinstall
        /\ \A n \in Name : ~SelectTarget(n)
        /\ \A p \in Port \cup {NoPort} : ~SelectSourceIso(p)
    BY <2>1 DEF PopulateDevices, PopulateFails, ToggleSource, ToggleClonePersistent,
       WarnIsoNotSelected, ClickStart, ClickReinstall, SelectTarget, SelectSourceIso
  <2>5. ASSUME \/ \E s \in Stick, p \in Port : Plug(s, p)
               \/ \E p \in Port : Unplug(p)
        PROVE  UNCHANGED <<drives, ui>>
    BY <2>5 DEF Plug, Unplug, window
  <2>6. CASE UNCHANGED legacyVars
    BY <2>6 DEF legacyVars
  <2> QED  BY <1>1, <2>2, <2>3, <2>4, <2>5, <2>6, Zenon DEF LegacyNext
<1>2. ASSUME LegacyInv, [LegacyNext]_legacyVars
      PROVE  [(worker \in Writing) => UNCHANGED <<drives, ui>>]_legacyVars
  BY <1>1, <1>2
<1> QED  BY <1>2, AlwaysLegacy, PTL DEF LegacySpec, SettledWhileWriting

-----------------------------------------------------------------------------
(***************************************************************************)
(* The four components side by side.                                       *)
(***************************************************************************)

LEMMA EachInstallerRuns ==
    MCSpec => Spec /\ OrderSpec /\ LegacySpec /\ SmokeSpec
<1>1. MCInit => Init /\ OrderInit /\ LegacyInit /\ SmokeInit
  BY Zenon DEF MCInit, DiskRests, OrderRests, LegacyRests, SmokeRests
<1>2. [MCNext]_allVars => [Next]_vars /\ [OrderNext]_orderVars /\ [LegacyNext]_legacyVars
                          /\ [SmokeNext]_smokeVars
  BY Zenon DEF MCNext, Installs, Reorders, LegacyRuns, LabRuns, allVars
<1> QED  BY <1>1, <1>2, PTL DEF MCSpec, Spec, OrderSpec, LegacySpec, SmokeSpec

(* The installation of an image, the reordering of boot menus, the         *)
(* vendored installer and the smoke test of the lab, when they run side by *)
(* side, keep every variable within its type.                              *)
THEOREM InstallersTyped == MCSpec => []TypesOK
<1>1. TypeOK /\ LegacyTypeOK /\ SmokeTypeOK => TypesOK
  BY Zenon DEF TypesOK
<1> QED  BY <1>1, EachInstallerRuns, DiskTypes, LegacyTypes, SmokeTypes, PTL
=============================================================================
