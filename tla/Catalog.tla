------------------------------ MODULE Catalog ------------------------------
(***************************************************************************)
(* The version catalog of the window: five fields of the shared state say  *)
(* which release is selected, and nothing locks them.  A refresh, on a     *)
(* worker thread, assigns them one after the other; so does the operator's *)
(* click on the list, on the UI thread; the tick copies them to the window *)
(* and asks for a preview of the published checksum; the download button   *)
(* reads four of them for its request.  A step here is one access to one   *)
(* field.                                                                  *)
(*                                                                         *)
(* Releases are numbered by age.  A field holds the release whose URL (or  *)
(* name) it is, None while it is empty.                                    *)
(***************************************************************************)
EXTENDS Integers, Sequences, FiniteSets

CONSTANTS
    MaxVersion,     \* the releases are 1..MaxVersion
    Refresh,        \* the refreshes the operator may start, and the startup one
    MaxSelects      \* clicks on the list

ASSUME CatalogAssumption == MaxVersion \in Nat \ {0} /\ MaxSelects \in Nat

None == 0
Version == 1..MaxVersion
Release == Version \cup {None}

VARIABLES
    available,      \* state.available_versions
    selected,       \* state.selected_version, _iso_url, _image_url, ...
    refresh,        \* each refresh: its stage, its entry, the next field
    ui,             \* what the UI thread is doing, with which entry, next field
    shown,          \* the fields as last copied to the window
    preview,        \* suggested_checksum_var: the release it is the digest of
    asked,          \* preview requests under way, by URL
    request,        \* what the download button's handler has read so far
    downloading,    \* _download_in_progress
    selects,        \* clicks so far
    dirty,          \* history: a refresh changed a field since the last full
                    \*   copy began
    during,         \* history: or since the copy under way began
    clash,          \* history: two writers overlapped
    torn            \* history: a refresh changed a field in the middle of a
                    \*   copy, or one that no later tick would look at

selection == <<available, selected>>
histories == <<dirty, during, clash, torn>>
catalogVars == <<available, selected, refresh, ui, shown, preview, asked, request,
                 downloading, selects, dirty, during, clash, torn>>

(* The order of the assignments in apply_version_selection.                *)
Fields == <<"version", "iso", "image", "signature", "checksum">>
Field == {Fields[i] : i \in DOMAIN Fields}
Empty == [f \in Field |-> None]

UiIdle == ui.task = "idle"
InWrites(n) == n \in 2..Len(Fields)
Refreshing(r) == refresh[r].stage = "writing" /\ InWrites(refresh[r].next)
Selecting == ui.task = "select" /\ InWrites(ui.next)

CatalogInit ==
    /\ available = {} /\ selected = Empty
    /\ refresh = [r \in Refresh |-> [stage |-> "new", entry |-> None, next |-> 1]]
    /\ ui = [task |-> "idle", entry |-> None, next |-> 1]
    /\ shown = Empty /\ preview = None
    /\ asked = [v \in Release |-> 0]
    /\ request = Empty /\ downloading = FALSE /\ selects = 0
    /\ dirty = FALSE /\ during = FALSE /\ clash = FALSE /\ torn = FALSE

-----------------------------------------------------------------------------
(***************************************************************************)
(* refresh_versions, on a worker thread.                                   *)
(***************************************************************************)

(* The button and Ctrl-R; refused while a download is under way.           *)
SubmitRefresh(r) ==
    /\ UiIdle /\ ~downloading
    /\ refresh[r].stage = "new"
    /\ refresh' = [refresh EXCEPT ![r].stage = "fetching"]
    /\ UNCHANGED <<selection, ui, shown, preview, asked, request, downloading, selects, histories>>

(* Each of the three sources may be missing, so any of the releases may;   *)
(* with none at all fetch_versions raises and only the status changes.     *)
FetchVersions(r) ==
    /\ refresh[r].stage = "fetching"
    /\ \/ \E listed \in (SUBSET Version) \ {{}} :
            /\ available' = listed
            /\ refresh' = [refresh EXCEPT ![r].stage = "listed"]
       \/ /\ refresh' = [refresh EXCEPT ![r].stage = "ended"]
          /\ UNCHANGED available
    /\ UNCHANGED <<selected, ui, shown, preview, asked, request, downloading, selects, histories>>

(* The first entry of what the shared list is by now: the newest.          *)
TakeNewest(r) ==
    /\ refresh[r].stage = "listed"
    /\ \E newest \in available :
          /\ \A v \in available : v <= newest
          /\ refresh' = [refresh EXCEPT ![r].stage = "writing", ![r].entry = newest]
    /\ UNCHANGED <<selection, ui, shown, preview, asked, request, downloading, selects, histories>>

(* A copy is half made, or has this field of the release it counts as shown. *)
Unnoticed(n) ==
    \/ ui.task = "show" /\ ui.next > 2
    \/ n > 2 /\ selected.version = shown.version /\ selected.iso = shown.iso

RefreshWrites(r) ==
    LET n == refresh[r].next
        changes == selected[Fields[n]] # refresh[r].entry
    IN  /\ refresh[r].stage = "writing"
        /\ selected' = [selected EXCEPT ![Fields[n]] = refresh[r].entry]
        /\ refresh' = [refresh EXCEPT ![r].next = n + 1,
                                      ![r].stage = IF n = Len(Fields) THEN "ended" ELSE @]
        /\ dirty' = (dirty \/ changes) /\ during' = (during \/ changes)
        /\ torn' = (torn \/ (changes /\ Unnoticed(n)))
        /\ clash' = (clash \/ Selecting \/ \E q \in Refresh \ {r} : Refreshing(q))
        /\ UNCHANGED <<available, ui, shown, preview, asked, request, downloading, selects>>

-----------------------------------------------------------------------------
(***************************************************************************)
(* The UI thread.                                                          *)
(***************************************************************************)

(* _on_version_selected and select_version; a release that is no longer    *)
(* available raises before anything is assigned.                           *)
SelectVersion(v) ==
    /\ UiIdle /\ ~downloading /\ selects < MaxSelects
    /\ v \in available
    /\ ui' = [task |-> "select", entry |-> v, next |-> 1]
    /\ selects' = selects + 1
    /\ UNCHANGED <<selection, refresh, shown, preview, asked, request, downloading, histories>>

(* The handler copies the fields to the window as soon as it has assigned  *)
(* them.                                                                   *)
AfterSelectLater == "idle"
AfterSelect == "show"

SelectWrites ==
    LET f == Fields[ui.next]
    IN  /\ ui.task = "select"
        /\ selected' = [selected EXCEPT ![f] = ui.entry]
        /\ ui' = IF ui.next = Len(Fields)
                 THEN [task |-> AfterSelect, entry |-> None, next |-> 1]
                 ELSE [ui EXCEPT !.next = @ + 1]
        /\ clash' = (clash \/ \E r \in Refresh : Refreshing(r))
        /\ UNCHANGED <<available, refresh, shown, preview, asked, request, downloading, selects,
                       dirty, during, torn>>

(* The tick.                                                               *)
Tick ==
    /\ UiIdle
    /\ ui' = [task |-> "show", entry |-> None, next |-> 1]
    /\ UNCHANGED <<selection, refresh, shown, preview, asked, request, downloading, selects, histories>>

(* _sync_selected_version_fields reads the version ...                     *)
ReadVersion ==
    /\ ui.task = "show" /\ ui.next = 1
    /\ ui' = [ui EXCEPT !.entry = selected.version, !.next = 2]
    /\ during' = FALSE
    /\ UNCHANGED <<selection, refresh, shown, preview, asked, request, downloading, selects,
                   dirty, clash, torn>>

(* ... and returns when neither it nor the ISO has changed ...             *)
AlreadyShownByName(version) == version = shown.version
AlreadyShown(version) == version = shown.version /\ selected.iso = shown.iso

CompareShown ==
    /\ ui.task = "show" /\ ui.next = 2
    /\ IF AlreadyShown(ui.entry)
       THEN /\ ui' = [task |-> "idle", entry |-> None, next |-> 1]
            /\ UNCHANGED shown
       ELSE /\ ui' = [ui EXCEPT !.next = 3]
            /\ shown' = [shown EXCEPT !.version = ui.entry]
    /\ UNCHANGED <<selection, refresh, preview, asked, request, downloading, selects, histories>>

(* ... or else copies the other fields; the last is the checksum URL, for  *)
(* which a preview is asked.                                               *)
CopyField ==
    LET f == Fields[ui.next - 1]
        last == ui.next = Len(Fields) + 1
    IN  /\ ui.task = "show" /\ ui.next > 2
        /\ shown' = [shown EXCEPT ![f] = selected[f]]
        /\ ui' = IF last THEN [task |-> "idle", entry |-> None, next |-> 1]
                         ELSE [ui EXCEPT !.next = @ + 1]
        /\ asked' = IF last THEN [asked EXCEPT ![selected[f]] = @ + 1] ELSE asked
        /\ dirty' = IF last THEN during ELSE dirty
        /\ UNCHANGED <<selection, refresh, preview, request, downloading, selects, during, clash, torn>>

(* _apply_suggested_checksum, in the drain of a tick: the answers come in  *)
(* any order, one that failed is empty, one for another URL is ignored.    *)
AnyAnswer(url) == TRUE
StillSelected(url) == url = selected.checksum

UnderWayOrAnswered(url) == asked[url] \in Int
UnderWay(url) == asked[url] > 0

AnswerPreview(url) ==
    /\ UiIdle /\ UnderWay(url)
    /\ asked' = [asked EXCEPT ![url] = @ - 1]
    /\ \E digest \in {url, None} :
        preview' = IF StillSelected(url) THEN digest ELSE preview
    /\ UNCHANGED <<selection, refresh, ui, shown, request, downloading, selects, histories>>

(* _start_remote_download reads image, checksum and signature, refuses if  *)
(* one is empty, and reads the version for the label at the end.           *)
RequestOrder == <<"image", "checksum", "signature", "version">>

ClickDownload ==
    /\ UiIdle /\ ~downloading
    /\ ui' = [task |-> "request", entry |-> None, next |-> 1]
    /\ UNCHANGED <<selection, refresh, shown, preview, asked, request, downloading, selects, histories>>

ReadForRequest ==
    LET f == RequestOrder[ui.next]
        read == [request EXCEPT ![f] = selected[f]]
        incomplete == \E g \in {"image", "checksum", "signature"} : read[g] = None
        ends == (ui.next = 3 /\ incomplete) \/ ui.next = Len(RequestOrder)
    IN  /\ ui.task = "request"
        /\ request' = IF ends THEN Empty ELSE read
        /\ ui' = IF ends THEN [task |-> "idle", entry |-> None, next |-> 1]
                         ELSE [ui EXCEPT !.next = @ + 1]
        /\ downloading' = (ui.next = Len(RequestOrder))
        /\ UNCHANGED <<selection, refresh, shown, preview, asked, selects, histories>>

(* The callback of the download lifts the lock.                            *)
DownloadEnds ==
    /\ UiIdle /\ downloading
    /\ downloading' = FALSE
    /\ UNCHANGED <<selection, refresh, ui, shown, preview, asked, request, selects,
                   histories>>

-----------------------------------------------------------------------------
Worker(r) == FetchVersions(r) \/ TakeNewest(r) \/ RefreshWrites(r)
UiThread == SelectWrites \/ Tick \/ ReadVersion \/ CompareShown \/ CopyField
              \/ ReadForRequest

CatalogNext ==
    \/ \E r \in Refresh : SubmitRefresh(r) \/ Worker(r)
    \/ \E v \in Version : SelectVersion(v)
    \/ \E url \in Release : AnswerPreview(url)
    \/ UiThread
    \/ ClickDownload \/ DownloadEnds

CatalogSpec == CatalogInit /\ [][CatalogNext]_catalogVars

-----------------------------------------------------------------------------
(* Types.  A field is of a known release, and no thread reads past the     *)
(* last field.                                                             *)
CatalogTypeOK ==
    /\ available \subseteq Version
    /\ selected \in [Field -> Release] /\ shown \in [Field -> Release]
    /\ request \in [Field -> Release] /\ downloading \in BOOLEAN
    /\ refresh \in [Refresh -> [stage : {"new", "fetching", "listed", "writing", "ended"},
                                entry : Release, next : 1..(Len(Fields) + 1)]]
    /\ ui \in [task : {"idle", "select", "show", "request"},
               entry : Release, next : 1..(Len(Fields) + 1)]
    /\ preview \in Release /\ asked \in [Release -> Nat] /\ selects \in 0..MaxSelects
    /\ {dirty, during, clash, torn} \subseteq BOOLEAN

(* What is submitted for download is of one release, and of the one the    *)
(* window shows, unless a refresh is in the middle of its assignments or   *)
(* has changed the selection since the window last copied it, or two       *)
(* writers overlapped before.                                              *)
Submitted == [request EXCEPT !.version = selected.version]
RequestAsShown ==
    [][ui.task = "request" /\ downloading' =>
         \/ \A f \in {"version", "image", "signature", "checksum"} :
                Submitted[f] = shown.version /\ Submitted[f] = shown[f]
         \/ dirty \/ clash \/ \E r \in Refresh : Refreshing(r)]_catalogVars

(* Once every preview has been answered, the checksum beside the selection *)
(* is the one of the selection or empty, in whatever order the answers     *)
(* came, up to the same two exceptions.                                    *)
PreviewOfSelection ==
    UiIdle /\ (\A url \in Release : asked[url] = 0) /\ ~dirty /\ ~clash =>
        preview \in {None, selected.checksum}

(* When a tick finds nothing to do, the window shows the selection: a copy *)
(* that saw a refresh half done is made again.  The exception is a refresh *)
(* that assigns in the middle of a copy, or fields that the comparison of  *)
(* version and ISO does not look at: what was copied a moment too early    *)
(* stays on the screen.                                                    *)
WindowSettled ==
    /\ UiIdle /\ AlreadyShown(selected.version)
    /\ \A r \in Refresh : ~Refreshing(r)
    => shown = selected \/ torn \/ clash
=============================================================================
