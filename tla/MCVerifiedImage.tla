-------------------------- MODULE MCVerifiedImage --------------------------
(***************************************************************************)
(* The catalog, the image files and the command line, for TLC.  They share *)
(* no variable: what passes from the catalog to the image files is the     *)
(* request of a download, and VerifiedImage takes every request the        *)
(* catalog could make; what passes from the image files to the command     *)
(* line is an answer, and CommandLine takes every answer there is.  So     *)
(* each behaviour here is of one of them while the others rest.            *)
(***************************************************************************)
EXTENDS Catalog, VerifiedImage, CommandLine, TLC

CONSTANTS v1, v2, c1, r1

VARIABLE component      \* the component that runs

allVars == <<component, catalogVars, imageVars, commandVars>>

\* What a component that rests holds does not matter.
ImageRests == \A p \in Path : file[p] = Nothing
CommandRests == command = [kind |-> "status", mode |-> "json", logs |-> FALSE]

MCInit ==
    /\ component \in {"catalog", "image", "command"}
    /\ CatalogInit /\ ImageInit /\ CommandInit
    /\ component # "image" => ImageRests
    /\ component # "command" => CommandRests

CatalogRuns(A) ==
    component = "catalog" /\ A /\ UNCHANGED <<component, imageVars, commandVars>>
ImageRuns(A) ==
    component = "image" /\ A /\ UNCHANGED <<component, catalogVars, commandVars>>
CommandRuns(A) ==
    component = "command" /\ A /\ UNCHANGED <<component, catalogVars, imageVars>>

MCNext == CatalogRuns(CatalogNext) \/ ImageRuns(ImageNext) \/ CommandRuns(CommandNext)

MCSpec == MCInit /\ [][MCNext]_allVars

(* The releases of VerifiedImage are interchangeable.                      *)
Symmetry == Permutations(Image)

(* Every variable has its type.                                            *)
TypesOK == CatalogTypeOK /\ ImageTypeOK /\ CommandTypeOK
=============================================================================
