----------------------------- MODULE GuiSession -----------------------------
(***************************************************************************)
(* The window of app.py: one UI thread, a pool of worker threads and a     *)
(* queue of callbacks between them.                                        *)
(*                                                                         *)
(* The UI thread runs event handlers and, every REFRESH_INTERVAL_MS, the   *)
(* tick _sync_state: it calls the queued callbacks, redraws from the       *)
(* shared state and schedules itself again, so a tick that raises is the   *)
(* last one.  A message box runs a nested event loop: the confirmation is  *)
(* opened by a handler and ticks go on below it, a result is shown by a    *)
(* callback and holds its tick up.  Two flags, and the controls disabled   *)
(* with them, keep writes, downloads and closing the window apart; what a  *)
(* write would do to a disk is the subject of WriteBoundary.               *)
(***************************************************************************)
EXTENDS Naturals, Sequences, FiniteSets

CONSTANTS
    Write,          \* the writes the operator may ask for in a session
    Download,       \* the downloads
    Scan,           \* the device scans
    Workers,        \* threads of the executor
    Faults,         \* what may go wrong: a subset of Fault
    OnTails,        \* the program runs on a Tails system
    Medium,         \* the attached Tails media that validate
    None            \* no dialog, no medium

(* "vanish": a scan may find the selected device gone; "sink": an event    *)
(* record cannot be written; "cache": the download directory cannot be     *)
(* made.                                                                   *)
Fault == {"vanish", "sink", "cache"}
Job == Write \cup Download \cup Scan
Source == {"LOCAL", "REMOTE", "RUNNING", "ATTACHED"}

ASSUME JobsAssumption ==
    /\ Write \cap Download = {} /\ Write \cap Scan = {} /\ Download \cap Scan = {}
    /\ None \notin Job
ASSUME PoolAssumption == Workers \in Nat \ {0}
ASSUME FaultsAssumption == Faults \subseteq Fault
ASSUME SourcesAssumption == OnTails \in BOOLEAN /\ None \notin Medium

VARIABLES
    job,            \* each job's stage; "over": its callback waits in events
    queue,          \* the executor's queue
    events,         \* _ui_events: the jobs whose result awaits the UI thread
    tick,           \* where the UI thread is in _sync_state
    dialog,         \* the write whose confirmation is on the screen
    writing,        \* _write_in_progress, and the controls of a write are disabled
    downloading,    \* _download_in_progress, and the source's radio buttons are
    mode,           \* state.source_mode
    attached,       \* state.attached_live_source_device: the validated medium
    verified,       \* state.verified_image_*: the record of the image in the window
    drawn,          \* the mode the source's controls were last enabled for
    redrawn,        \* they were enabled after they were last disabled
    listed,         \* the selected device is in state.devices
    open,           \* the window is there
    overlap,        \* history: a write was confirmed before another was finished
    stranded        \* history: the writes under way when the tick died

settings == <<mode, attached, verified>>
controls == <<drawn, redrawn>>
history == <<overlap, stranded>>
vars == <<job, queue, events, tick, dialog, writing, downloading, settings, controls,
          listed, open, history>>

Stage == {"new", "queued", "working", "reporting", "over", "shown", "lost"}
Tick == {"waiting", "draining", "finished", "replanned", "notice",
         "listing", "planning", "dead"}

UnderWay(j) == job[j] \in {"queued", "working"}
Busy == {j \in Job : job[j] \in {"working", "reporting"}}

(* Handlers run when the UI thread is in its event loop, and reach the     *)
(* main window when no message box has grabbed the input.                  *)
Idle == tick \in {"waiting", "dead"}
WindowInput == open /\ Idle /\ dialog = None

-----------------------------------------------------------------------------
Init ==
    /\ job = [j \in Job |-> "new"]
    /\ queue = <<>> /\ events = <<>>
    /\ tick = "waiting" /\ dialog = None
    /\ writing = FALSE /\ downloading = FALSE
    /\ mode = IF OnTails THEN "RUNNING" ELSE "LOCAL"
    /\ attached = None /\ verified = FALSE /\ drawn = "never" /\ redrawn = TRUE
    /\ listed = TRUE /\ open = TRUE /\ overlap = FALSE /\ stranded = {}

Submit(j) ==
    /\ job[j] = "new"
    /\ job' = [job EXCEPT ![j] = "queued"]
    /\ queue' = Append(queue, j)

(***************************************************************************)
(* The operator.                                                           *)
(***************************************************************************)

(* _confirm_and_clone, up to the dialog.  A mouse click needs an enabled   *)
(* button; the Return binding of the button fires on a disabled one too,   *)
(* and the handler looks at the download flag only.                        *)
AskToWrite(w) ==
    /\ WindowInput /\ job[w] = "new"
    /\ ~downloading
    /\ mode # "REMOTE" /\ (mode = "ATTACHED" => attached # None)
    /\ listed
    /\ dialog' = w
    /\ UNCHANGED <<job, queue, events, tick, writing, downloading, settings, controls,
                   listed, open, history>>

FlagByWorker(flag) == flag
FlagRaised(flag) == TRUE

AnswerYes ==
    /\ dialog # None /\ Idle
    /\ Submit(dialog)
    /\ dialog' = None
    /\ writing' = FlagRaised(writing) /\ redrawn' = FALSE
    /\ overlap' = (overlap \/ writing)
    /\ UNCHANGED <<events, tick, downloading, settings, drawn, listed, open, stranded>>

(* No, or the record of the confirmation cannot be written.                *)
AnswerNo ==
    /\ dialog # None /\ Idle
    /\ dialog' = None
    /\ UNCHANGED <<job, queue, events, tick, writing, downloading, settings, controls,
                   listed, open, history>>

(* The button of _start_remote_download is enabled by a tick, for the mode *)
(* it found.  A download forgets the image that was verified before.       *)
StartDownload(d) ==
    /\ WindowInput /\ drawn \in {"never", "REMOTE"}
    /\ ~downloading /\ ~writing
    /\ Submit(d)
    /\ downloading' = FlagRaised(downloading) /\ redrawn' = FALSE
    /\ verified' = FALSE
    /\ UNCHANGED <<events, tick, dialog, writing, mode, attached, drawn, listed, open,
                   history>>

(* So does another path of the local image, which only a write keeps from  *)
(* being entered, and a download whose start cannot be recorded.           *)
ForgetImage ==
    /\ WindowInput
    /\ \/ drawn \in {"never", "LOCAL"} /\ (~writing \/ redrawn)
       \/ drawn \in {"never", "REMOTE"} /\ ~writing /\ ~downloading
    /\ verified' = FALSE
    /\ UNCHANGED <<job, queue, events, tick, dialog, writing, downloading, mode, attached,
                   controls, listed, open, history>>

(* The radio buttons of the source.  A write and a download disable them;  *)
(* a tick enables the one of the running system again, for a while.        *)
ChooseSource(m) ==
    /\ WindowInput
    /\ (~writing /\ ~downloading) \/ (m = "RUNNING" /\ redrawn)
    /\ m = "RUNNING" => OnTails
    /\ mode' = m
    /\ UNCHANGED <<job, queue, events, tick, dialog, writing, downloading, attached,
                   verified, controls, listed, open, history>>

(* _validate_attached_live_source, which only a write disables.            *)
Validate(medium) ==
    /\ WindowInput /\ drawn \in {"never", "ATTACHED"}
    /\ ~writing \/ redrawn
    /\ attached' = medium /\ mode' = "ATTACHED"
    /\ UNCHANGED <<job, queue, events, tick, dialog, writing, downloading, verified,
                   controls, listed, open, history>>

(* Ctrl+D: _submit_background_if_idle.                                     *)
Refresh(s) ==
    /\ WindowInput /\ ~writing /\ ~downloading
    /\ Submit(s)
    /\ UNCHANGED <<events, tick, dialog, writing, downloading, settings, controls,
                   listed, open, history>>

(* _on_close: shutdown(wait=False) lets the jobs run on without a window.  *)
MayClose == ~writing /\ ~downloading

Close ==
    /\ WindowInput
    /\ MayClose
    /\ open' = FALSE
    /\ UNCHANGED <<job, queue, events, tick, dialog, writing, downloading, settings,
                   controls, listed, history>>

(***************************************************************************)
(* The workers.                                                            *)
(***************************************************************************)

WorkerRest == UNCHANGED <<tick, dialog, writing, downloading, settings, controls, open,
                          history>>

Take ==
    /\ queue # <<>> /\ Cardinality(Busy) < Workers
    /\ job' = [job EXCEPT ![Head(queue)] = "working"]
    /\ queue' = Tail(queue)
    /\ UNCHANGED <<events, listed>> /\ WorkerRest

(* refresh_devices replaces the list; it catches what goes wrong.          *)
EndScan(s) ==
    /\ job[s] = "working"
    /\ job' = [job EXCEPT ![s] = "over"]
    /\ listed' \in IF "vanish" \in Faults THEN BOOLEAN ELSE {listed}
    /\ UNCHANGED <<queue, events>> /\ WorkerRest

(* The write is over, well or badly; its end has yet to be reported.       *)
EndWrite(w) ==
    /\ job[w] = "working"
    /\ job' = [job EXCEPT ![w] = "reporting"]
    /\ UNCHANGED <<queue, events, listed>> /\ WorkerRest

(* _run_write_operation's last part: the record of the end, then the       *)
(* callback.  A record that cannot be written leads to the handler, which  *)
(* writes a record first: the callback may never be queued.                *)
NeverQueued(j) == events
QueuedTwice(j) == events \o <<j, j>>
Queued(j) == Append(events, j)

ReportWrite(w) ==
    /\ job[w] = "reporting"
    /\ \/ job' = [job EXCEPT ![w] = "over"] /\ events' = Queued(w)
       \/ /\ "sink" \in Faults
          /\ job' = [job EXCEPT ![w] = "lost"] /\ UNCHANGED events
    /\ UNCHANGED <<queue, listed>> /\ WorkerRest

(* _download_selected_remote_image: the directory is made before the try.  *)
EndDownload(d) ==
    /\ job[d] = "working"
    /\ \/ job' = [job EXCEPT ![d] = "over"] /\ events' = Queued(d)
       \/ /\ Faults \cap {"sink", "cache"} # {}
          /\ job' = [job EXCEPT ![d] = "lost"] /\ UNCHANGED events
    /\ UNCHANGED <<queue, listed>> /\ WorkerRest

(***************************************************************************)
(* The tick.                                                               *)
(***************************************************************************)

TickRest == UNCHANGED <<queue, dialog, listed, open, overlap>>

Show(j) == job' = [job EXCEPT ![j] = "shown"]
Dies == tick' = "dead" /\ stranded' = {w \in Write : UnderWay(w)}

TickBegin ==
    /\ open /\ tick = "waiting"
    /\ tick' = "draining"
    /\ UNCHANGED <<job, events, writing, downloading, settings, controls, stranded>> /\ TickRest

FlagKept(flag) == flag
FlagCleared(flag) == FALSE

(* _sync_source_mode: the radio button of the running system, the controls *)
(* of an attached one and the button of a download, whatever the flags.    *)
SyncSourceMode == drawn' = mode /\ redrawn' = TRUE

(* _finish_write_success and _finish_write_failure, up to the plan.        *)
FinishWrite ==
    /\ tick = "draining" /\ events # <<>> /\ Head(events) \in Write
    /\ Show(Head(events))
    /\ events' = Tail(events)
    /\ writing' = FlagCleared(writing) /\ SyncSourceMode
    /\ tick' = "finished"
    /\ UNCHANGED <<downloading, settings, stranded>> /\ TickRest

(* _apply_remote_download_success or _apply_remote_download_failure.       *)
FinishDownload ==
    /\ tick = "draining" /\ events # <<>> /\ Head(events) \in Download
    /\ Show(Head(events))
    /\ events' = Tail(events)
    /\ downloading' = FlagCleared(downloading)
    /\ \/ mode' = "LOCAL" /\ verified' = TRUE
       \/ UNCHANGED <<mode, verified>>
    /\ UNCHANGED <<tick, writing, attached, controls, stranded>> /\ TickRest

Drained ==
    /\ tick = "draining" /\ events = <<>>
    /\ tick' = "listing" /\ SyncSourceMode
    /\ UNCHANGED <<job, events, writing, downloading, settings, stranded>> /\ TickRest

(* A tick that has news reports it: the status before it enables the       *)
(* source's controls, versions and devices after.                          *)
RecordFails ==
    /\ "sink" \in Faults
    /\ (tick = "draining" /\ events = <<>>) \/ tick = "listing"
    /\ Dies
    /\ UNCHANGED <<job, events, writing, downloading, settings, controls>> /\ TickRest

(* The last thing a tick does is to disable again what it has enabled.     *)
NotRelocked == redrawn
Relocked == redrawn /\ ~writing /\ ~downloading

(* _update_device_warnings_and_button looks the selected device up in one  *)
(* list and plans with the list of a moment later; the plan of a device    *)
(* that is gone by then raises, which ends the tick for good.              *)
LookUp ==
    /\ tick \in {"finished", "listing"}
    /\ tick' = CASE tick = "finished" -> IF listed THEN "replanned" ELSE "notice"
                 [] tick = "listing" -> IF listed THEN "planning" ELSE "waiting"
    /\ redrawn' = IF tick' = "waiting" THEN Relocked ELSE redrawn
    /\ UNCHANGED <<job, events, writing, downloading, settings, drawn, stranded>> /\ TickRest

Plan ==
    /\ tick \in {"replanned", "planning"}
    /\ IF listed
       THEN /\ tick' = IF tick = "replanned" THEN "notice" ELSE "waiting"
            /\ redrawn' = IF tick' = "waiting" THEN Relocked ELSE redrawn
            /\ UNCHANGED stranded
       ELSE Dies /\ UNCHANGED redrawn
    /\ UNCHANGED <<job, events, writing, downloading, settings, drawn>> /\ TickRest

Dismiss ==
    /\ tick = "notice"
    /\ tick' = "draining"
    /\ UNCHANGED <<job, events, writing, downloading, settings, controls, stranded>> /\ TickRest

-----------------------------------------------------------------------------
Operator == \/ \E w \in Write : AskToWrite(w)
            \/ AnswerYes \/ AnswerNo
            \/ \E d \in Download : StartDownload(d)
            \/ \E m \in Source : ChooseSource(m)
            \/ ForgetImage
            \/ \E medium \in Medium : Validate(medium)
            \/ \E s \in Scan : Refresh(s)
            \/ Close

Finish(j) == \/ j \in Write /\ (EndWrite(j) \/ ReportWrite(j))
             \/ j \in Download /\ EndDownload(j)
             \/ j \in Scan /\ EndScan(j)

TickStep == \/ TickBegin \/ FinishWrite \/ FinishDownload \/ Drained \/ RecordFails
            \/ LookUp \/ Plan

Next == Operator \/ Take \/ (\E j \in Job : Finish(j)) \/ TickStep \/ Dismiss

(* The pool serves its queue, every job ends (a command exits, a transfer  *)
(* ends or fails), Tk calls the tick, and a result is dismissed some time. *)
Fairness == /\ WF_vars(Take)
            /\ \A j \in Job : WF_vars(Finish(j))
            /\ WF_vars(TickStep)
            /\ WF_vars(Dismiss)

Spec == Init /\ [][Next]_vars /\ Fairness
-----------------------------------------------------------------------------
TypeOK ==
    /\ job \in [Job -> Stage]
    /\ queue \in Seq({j \in Job : job[j] = "queued"})
    /\ events \in Seq({j \in Write \cup Download : job[j] = "over"})
    /\ tick \in Tick
    /\ dialog \in Write \cup {None}
    /\ mode \in Source /\ drawn \in Source \cup {"never"}
    /\ attached \in Medium \cup {None} /\ stranded \subseteq Write
    /\ {verified, writing, downloading, redrawn, listed, open, overlap} \subseteq BOOLEAN

(* No download runs beside a write: what a write reads is not replaced     *)
(* under it.  The flags of app.py are there for this; a second write,      *)
(* confirmed before the first is finished, defeats them: the flag is       *)
(* cleared with the first.                                                 *)
Exclusive ==
    overlap \/ ~ \E w \in Write, d \in Download : UnderWay(w) /\ UnderWay(d)

(* From the question to the end of the write the source stays as the       *)
(* dialog showed it: the worker reads the mode, the medium and the record  *)
(* of the image again (controller.py).  Beside a second write, which       *)
(* defeats the lock, there is one exception: a tick that dies has enabled  *)
(* controls that it does not come to disable.  Under the writes it leaves  *)
(* behind, and no later one, the source may then become the running system *)
(* or a medium that is validated, or the record of the image be forgotten, *)
(* and nothing else.                                                       *)
SettingsKept ==
    [][settings' # settings =>
          \/ overlap
          \/ /\ dialog = None
             /\ \A w \in Write : UnderWay(w) =>
                   /\ w \in stranded
                   /\ \/ mode' \in {"RUNNING", "ATTACHED"} /\ UNCHANGED verified
                      \/ ~verified' /\ UNCHANGED <<mode, attached>>]_vars

(* What app.py's message promises of closing: "A Tails write operation is  *)
(* still running. Keep this window open until it completes."               *)
NeverClosedWhileWriting ==
    [][open' # open => \A w \in Write : ~UnderWay(w)]_vars

(* A refusal to close has a reason: a job is there whose result is awaited *)
(* or was lost with a record that could not be written.                    *)
Awaited(j) == job[j] \notin {"new", "shown"}
RefusalJustified ==
    /\ writing => \E w \in Write : Awaited(w)
    /\ downloading => \E d \in Download : Awaited(d)

(* What app.py's message says when it refuses: "A verified Tails image     *)
(* download is still running."                                             *)
DownloadRefusalTruthful ==
    downloading => \E d \in Download : job[d] \in {"queued", "working", "over"}

(* Every write and download is reported to the operator, whatever waits in *)
(* the pool before it and whichever dialogs are open, unless its record    *)
(* was lost, the tick has died or the window is closed.                    *)
ResultReported ==
    \A j \in Write \cup Download :
        job[j] = "queued" ~>
            job[j] \in {"shown", "lost"} \/ tick = "dead" \/ ~open

=============================================================================
