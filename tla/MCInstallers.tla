---------------------------- MODULE MCInstallers ----------------------------
(***************************************************************************)
(* What is done to a whole stick, for TLC: the installation of a disk      *)
(* image, the reordering of the boot menus of a stick that was written,    *)
(* the vendored installer, and the smoke test of the lab.  They share no   *)
(* variable and never touch one stick at a time, so each behaviour here is *)
(* of one of them while the others rest.                                   *)
(***************************************************************************)
EXTENDS MCWholeDiskInstall, BootOrder, LegacyInstaller, GuestSmoke, TLC

CONSTANTS run, s1, s2, p0, p1, p2, q1, q2

VARIABLE component      \* the component that runs

(* The stick Tails runs from, one to install on and a small one.           *)
Sticks == {run, s1, s2}
Ports == {p0, p1, p2}
SmallSticks == {s2}
(* Two runs of the smoke test.                                             *)
Runs == {q1, q2}
(* The runs are interchangeable, and the ports but that of the running     *)
(* stick.                                                                  *)
Symmetry == Permutations({p1, p2}) \cup Permutations(Runs)

(* Up to three blocks of three titles, of which one is never the first,    *)
(* all with a menu label, none, or the first only; and a second file that  *)
(* has a menu or none.                                                     *)
ConfigFiles == <<"grub.cfg", "live.cfg">>
Block(title, labelled, body) == [title |-> title, labelled |-> labelled, body |-> body]
ManyMenus == {[i \in 1..n |-> Block(title[i], labelled[i], i)] :
                n \in 0..3, title \in {t \in [1..3 -> {"live", "safe", "disk"}] : t[1] # "disk"},
                labelled \in {[i \in 1..3 |-> i <= k] : k \in {0, 1, 3}}}
TwoMenus == {<<>>, <<Block("live", TRUE, 1), Block("safe", TRUE, 2)>>}
MenusOf == [f \in {"grub.cfg", "live.cfg"} |->
              IF f = "grub.cfg" THEN ManyMenus ELSE TwoMenus]
(* None, several in another order, and repeated or unknown titles.         *)
ConfiguredOrders == {<<>>, <<"disk", "live">>, <<"safe", "safe", "other", "disk">>}
CutLengths == {0, 2}

allVars == <<component, vars, orderVars, legacyVars, smokeVars>>

\* What a component that rests holds does not matter.
DiskRests == content = [p \in Place |-> "none"] /\ options = FALSE /\ Init
OrderRests == menu = [f \in ToSet(Files) |-> <<>>] /\ order = <<>> /\ OrderInit
LegacyRests ==
    /\ port = [p \in Port |-> IF p = Home THEN Running ELSE NoStick]
    /\ holds = [s \in Stick |-> [system |-> "tails", persistence |-> "old", mbr |-> TRUE]]
    /\ LegacyInit
SmokeRests == SmokeInit /\ lane = [r \in Smoke |-> "login"] /\ ~secured /\ serialLog = <<>>

MCInit ==
    \/ component = "disk" /\ Init /\ OrderRests /\ LegacyRests /\ SmokeRests
    \/ component = "order" /\ OrderInit /\ DiskRests /\ LegacyRests /\ SmokeRests
    \/ component = "legacy" /\ LegacyInit /\ DiskRests /\ OrderRests /\ SmokeRests
    \/ component = "lab" /\ SmokeInit /\ DiskRests /\ OrderRests /\ LegacyRests

Installs(A) ==
    component = "disk" /\ A /\ UNCHANGED <<component, orderVars, legacyVars, smokeVars>>
Reorders(A) ==
    component = "order" /\ A /\ UNCHANGED <<component, vars, legacyVars, smokeVars>>
LegacyRuns(A) ==
    component = "legacy" /\ A /\ UNCHANGED <<component, vars, orderVars, smokeVars>>
LabRuns(A) ==
    component = "lab" /\ A /\ UNCHANGED <<component, vars, orderVars, legacyVars>>

MCNext == Installs(Next) \/ Reorders(OrderNext) \/ LegacyRuns(LegacyNext) \/ LabRuns(SmokeNext)

MCSpec == MCInit /\ [][MCNext]_allVars

(* Every variable has its type.                                            *)
TypesOK == TypeOK /\ LegacyTypeOK /\ SmokeTypeOK
=============================================================================
