--------------------------- MODULE ConfirmedWrite ---------------------------
(***************************************************************************)
(* What the program promises of one destructive operation after another:   *)
(* the operator agrees to the hardware with an identity, and then either   *)
(* that hardware is written, once, or nothing is.  A drive that the        *)
(* running system uses is never written.  Hardware that moves at the wrong *)
(* moment may divert the write to another drive, or put a drive in use in  *)
(* the place of the one that was checked; that is not the program's doing, *)
(* and how long those moments are is left to the program.                  *)
(***************************************************************************)

CONSTANTS
    Drive,          \* physical drives
    Protected,      \* drives with a filesystem the running system uses
    Identities,     \* what the operator can agree to
    IdentityOf,     \* [Drive -> Identities]
    None            \* nothing agreed to, nothing written

VARIABLES
    stage,          \* of the operation: "idle", "agreed" or "over"
    agreed,         \* the identity the operator agreed to
    written,        \* the drive that was written
    diverted,       \* the hardware moved between two looks at the target
    overtaken       \* the hardware moved after the last check

Init ==
    /\ stage = "idle" /\ agreed = None /\ written = None
    /\ diverted \in BOOLEAN /\ overtaken \in BOOLEAN

Agree ==
    /\ stage = "idle" /\ stage' = "agreed"
    /\ agreed' \in Identities
    /\ UNCHANGED written

Write ==
    /\ stage = "agreed" /\ stage' = "over"
    /\ \E d \in Drive :
          /\ IdentityOf[d] = agreed \/ diverted
          /\ d \notin Protected \/ overtaken
          /\ written' = d
    /\ UNCHANGED agreed

Refuse ==
    /\ stage \in {"idle", "agreed"} /\ stage' = "over"
    /\ UNCHANGED <<agreed, written>>

Return ==
    /\ stage = "over" /\ stage' = "idle"
    /\ agreed' = None /\ written' = None

Rest == UNCHANGED <<stage, agreed, written>>

\* The hardware moves as it likes.
Next ==
    /\ Agree \/ Write \/ Refuse \/ Return \/ Rest
    /\ diverted' \in BOOLEAN /\ overtaken' \in BOOLEAN

Spec == Init /\ [][Next]_<<stage, agreed, written, diverted, overtaken>>
=============================================================================
