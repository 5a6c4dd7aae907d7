------------------------- MODULE MCWholeDiskInstall -------------------------
(* Instances of WholeDiskInstall for TLC.                                  *)
EXTENDS WholeDiskInstall

(* A disk, a mapping on the whole disk with one inside it, two partitions  *)
(* with a mapping each.                                                    *)
MCLayout == <<"sdb", "dm-0", "dm-3", "sdb1", "dm-1", "sdb2", "dm-2">>
MCUnder == [p \in {"sdb", "dm-0", "dm-3", "sdb1", "dm-1", "sdb2", "dm-2"} |->
              CASE p = "sdb" -> None
                [] p \in {"dm-0", "sdb1", "sdb2"} -> "sdb"
                [] p = "dm-3" -> "dm-0"
                [] p = "dm-1" -> "sdb1"
                [] p = "dm-2" -> "sdb2"]
MCMapped == {"dm-0", "dm-1", "dm-2", "dm-3"}

(* Mappings hold something only on a LUKS container or a physical volume.  *)
OnPlace(c) == IF c \in {"luks", "pv"} THEN {"none", "fs", "swap"} ELSE {"none"}
Partition == {"none", "fs", "swap", "luks", "pv"}
Described(sdb, dm0, dm3, sdb1, dm1, sdb2, dm2) ==
    [p \in {"sdb", "dm-0", "dm-3", "sdb1", "dm-1", "sdb2", "dm-2"} |->
        CASE p = "sdb" -> sdb [] p = "dm-0" -> dm0 [] p = "dm-3" -> dm3
          [] p = "sdb1" -> sdb1 [] p = "dm-1" -> dm1 [] p = "sdb2" -> sdb2 [] p = "dm-2" -> dm2]
Unpartitioned(c, i, j) == Described(c, i, j, "none", "none", "none", "none")
(* Volumes in an encrypted disk, too.                                      *)
WholeDisk ==
    UNION {{Unpartitioned(c, i, "none") : i \in OnPlace(c)} : c \in {"none", "fs", "luks"}}
    \cup {Unpartitioned("luks", "pv", j) : j \in OnPlace("pv")}
Partitioned == UNION {{Described("table", "none", "none", c[1], i, c[2], j) :
                         i \in OnPlace(c[1]), j \in OnPlace(c[2])} :
                         c \in Partition \X Partition}
MCImages == WholeDisk \cup Partitioned
MCNoVolumes == {c \in MCImages : "pv" \notin Range(c)}
=============================================================================
