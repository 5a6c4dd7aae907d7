-------------------------- MODULE MCWriteBoundary --------------------------
(* Instances of WriteBoundary for TLC.                                     *)
EXTENDS WriteBoundary, TLC

CONSTANTS n1, n2, a, b, p, r1

(* All three are Tails media; b has no serial and no by-id link, p carries *)
(* a filesystem of the running system and may be the medium it runs from.  *)
MCNode == {n1, n2}
MCDrive == {a, b, p}
MCSerial == (a :> "A") @@ (b :> None) @@ (p :> "P")
MCLooks == [d \in MCDrive |-> "16G"]
MCHasById == {a, p}
MCProtected == {p}
MCTails == {a, b, p}
MCSourcePaths == {<<"part", n1>>, <<"part", n2>>, <<"byid", a>>}
MCPartitionLinks == {<<"byid-part", a>>}
(* The nodes are interchangeable: every definition above names both.       *)
NodeSymmetry == Permutations(MCNode)

MCFits == [k \in Kind |-> IF k = "install" THEN MCDrive ELSE MCTails]
=============================================================================
