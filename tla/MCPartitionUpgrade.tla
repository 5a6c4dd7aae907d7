------------------------- MODULE MCPartitionUpgrade -------------------------
(* Instances of PartitionUpgrade for TLC.                                  *)
EXTENDS PartitionUpgrade

CONSTANTS m1, m2

TwoMountPoints == {m1, m2}
=============================================================================
