---------------------------- MODULE MediumWrite ----------------------------
(***************************************************************************)
(* What a write service promises the controller of one call, and a command *)
(* its caller: the medium is opened for writing at most once, and only     *)
(* when what is in use on it is excused, because it was put to use after   *)
(* the service had looked or because the service leaves such a use alone;  *)
(* it reports once; success only of a whole copy by a dd that has ended,   *)
(* and a refusal only of a medium that was never opened.  An error that is *)
(* reported while dd runs does not end dd.                                 *)
(***************************************************************************)

CONSTANT Part       \* what of the medium can be in use

VARIABLES
    medium,         \* "untouched", "part" since dd was started, then "whole"
    writing,        \* dd is running
    outcome,        \* what was reported: "none", "ok", "refused" or "failed"
    inUse,          \* what was in use when the medium was opened
    excused         \* what may be in use then

Init ==
    /\ medium = "untouched" /\ writing = FALSE /\ outcome = "none"
    /\ inUse = {} /\ excused \in SUBSET Part

Open ==
    /\ medium = "untouched" /\ outcome = "none"
    /\ medium' = "part" /\ writing' = TRUE
    /\ inUse' \in SUBSET excused
    /\ UNCHANGED outcome

\* dd ends when it has copied everything, or before.
Finish ==
    /\ writing /\ writing' = FALSE
    /\ medium' \in {"part", "whole"}
    /\ UNCHANGED <<outcome, inUse>>

Report ==
    /\ outcome = "none"
    /\ \/ outcome' = "ok" /\ medium = "whole" /\ ~writing
       \/ outcome' = "refused" /\ medium = "untouched"
       \/ outcome' = "failed"
    /\ UNCHANGED <<medium, writing, inUse>>

Rest == UNCHANGED <<medium, writing, outcome, inUse>>

\* Desktop and operator put what they like to use.
Next == (Open \/ Finish \/ Report \/ Rest) /\ excused' \in SUBSET Part

Spec == Init /\ [][Next]_<<medium, writing, outcome, inUse, excused>>
=============================================================================
