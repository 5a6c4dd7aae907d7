----------------------------- MODULE CommandLine -----------------------------
(***************************************************************************)
(* One run of the command line (cli.py, cli_events.py): a handler that     *)
(* reports every step as a record, to a log file and to its output, before *)
(* it takes the next one, and a verdict: a last record and an exit code.   *)
(* The reader of the output may leave, the log may be full, the operator   *)
(* may interrupt and the process may be killed at any step; the dd that    *)
(* writes the drive is another process, and outlives this one.             *)
(***************************************************************************)
EXTENDS Integers, Sequences, FiniteSets

CONSTANTS
    MaxProgress,    \* progress records of one download or one write
    MaxFaults       \* how often the log cannot be written

ASSUME CommandLineAssumption == MaxProgress \in Nat /\ MaxFaults \in Nat

VARIABLES
    command,        \* the command, its output mode and whether it has a log file
    at,             \* the step it has come to
    saying,         \* the records to be emitted before the next step
    sequence,       \* the number of the last record
    log, stream,    \* the records in the log file, those the reader was given
    reader,         \* somebody reads the output
    faults,
    drive,          \* the target: "untouched", "part" since dd was started, "whole"
    child,          \* dd is running
    code            \* the exit code

commandVars == <<command, at, saying, sequence, log, stream, reader, faults,
                 drive, child, code>>

Command == [kind: {"versions", "devices", "status", "source", "download", "plan",
                   "install", "upgrade"},
            mode: {"human", "json", "jsonl"}, logs: BOOLEAN]

Success == 0  Usage == 2  InvalidInput == 3  SafetyRefusal == 4
VerificationFailed == 5  DownloadFailed == 6  InternalError == 9
OperationFailed == IF command.kind = "install" THEN 7 ELSE 8
\* The interpreter's own exit codes, and the end by a signal.
Died == 1

Executes == command.kind \in {"install", "upgrade"}
Terminal == {"completion", "failure"}
NothingToSay == [records |-> <<>>, then |-> "ended", code |-> Success, logged |-> FALSE]

\* The log is one text file that every run adds to.  A record that is cut short
\* has no newline, so that the one after it joins its line.
Record(line) == [sequence |-> sequence + 1, kind |-> saying.records[1],
                 code |-> saying.code, line |-> line]
Torn == log # <<>> /\ log[Len(log)].line = "cut"
NextLine == IF Torn THEN "joined" ELSE "own"
LeftOver == [sequence |-> 0, kind |-> "earlier", code |-> Died, line |-> "cut"]

CommandInit ==
    /\ command \in Command
    /\ at = "parse" /\ saying = NothingToSay /\ sequence = 0
    /\ log \in IF command.logs THEN {<<>>, <<LeftOver>>} ELSE {<<>>}
    /\ stream = <<>> /\ reader = TRUE /\ faults = 0
    /\ drive = "untouched" /\ child = FALSE /\ code = Success

-----------------------------------------------------------------------------
(***************************************************************************)
(* main and the event sink.                                                *)
(***************************************************************************)

Pending(records, then, result) ==
    [records |-> records, then |-> then, code |-> result, logged |-> FALSE]

Say(records, then) ==
    IF records = <<>> THEN at' = then /\ UNCHANGED saying
    ELSE at' = "say" /\ saying' = Pending(records, then, Success)

\* What main does with a CliError of the handler.
FailWith(result) == at' = "say" /\ saying' = Pending(<<"failure">>, "ended", result)
Complete(result) == at' = "say" /\ saying' = Pending(<<"completion">>, "ended", result)

\* Mutant: the completion is reported within the try.
OutsideTryFailuresOnly ==
    \/ at = "parse"
    \/ at = "say" /\ (saying.then = "prepare" \/ saying.records[1] = "failure")

\* The start record and the verdict are emitted outside the try of main.
OutsideTry == at = "parse" \/ (at = "say" /\ saying.then \in {"prepare", "ended"})

\* An exception that no handler expects.
Throw(result) ==
    IF OutsideTry THEN at' = "ended" /\ code' = Died /\ UNCHANGED saying
    ELSE FailWith(result) /\ UNCHANGED code

\* A record that cannot be emitted raises in the middle of what it reports:
\* a download calls that its own failure, the controller a missing program.
CodeOfLostRecord ==
    CASE saying.then = "load" -> {DownloadFailed}
      [] saying.then \in {"hash", "verify"} -> {VerificationFailed}
      [] saying.then \in {"open", "write", "settle"} -> {OperationFailed, InternalError}
      [] OTHER -> {InternalError}

\* It is numbered and logged, then printed.
Emitting(logged) ==
    /\ at = "say" /\ saying.logged = logged
    /\ UNCHANGED <<command, reader, drive, child>>

WriteLog ==
    /\ Emitting(FALSE)
    /\ sequence' = sequence + 1
    /\ log' = IF command.logs THEN Append(log, Record(NextLine)) ELSE log
    /\ saying' = [saying EXCEPT !.logged = TRUE]
    /\ UNCHANGED <<at, stream, faults, code>>

\* Mutant: a record that cannot be logged is skipped.
LogFailureIgnored ==
    /\ Emitting(FALSE) /\ command.logs
    /\ faults < MaxFaults /\ faults' = faults + 1
    /\ sequence' = sequence + 1
    /\ log' \in {log, Append(log, Record("cut"))}
    /\ saying' = [saying EXCEPT !.logged = TRUE]
    /\ UNCHANGED <<at, stream, code>>

LogFails ==
    /\ Emitting(FALSE) /\ command.logs
    /\ faults < MaxFaults /\ faults' = faults + 1
    /\ sequence' = sequence + 1
    /\ log' \in {log, Append(log, Record("cut"))}
    /\ \E result \in CodeOfLostRecord : Throw(result)
    /\ UNCHANGED stream

\* What a mode prints of a record; the verdict is not flushed but as JSONL and
\* as an error line.
Printed(kind) ==
    CASE command.mode = "jsonl" -> TRUE
      [] command.mode = "json" -> kind \in Terminal
      [] command.mode = "human" -> kind \in Terminal \cup {"warning", "progress",
                                                        "verification", "write_boundary"}
Buffered(kind) == \/ command.mode = "json"
                  \/ command.mode = "human" /\ kind = "completion"

Proceed == IF Len(saying.records) > 1
         THEN /\ saying' = [saying EXCEPT !.records = Tail(@), !.logged = FALSE]
              /\ UNCHANGED <<at, code>>
         ELSE at' = saying.then /\ saying' = NothingToSay
              /\ code' = IF saying.then = "ended" THEN saying.code ELSE code

PrintRecord ==
    /\ Emitting(TRUE)
    /\ LET kind == saying.records[1]
           given == Append(stream, [Record("own") EXCEPT !.sequence = sequence])
       IN  IF ~Printed(kind) THEN Proceed /\ UNCHANGED stream
           ELSE IF reader THEN Proceed /\ stream' = given
           ELSE /\ UNCHANGED stream
                /\ IF Buffered(kind)      \* the flush at exit fails
                   THEN at' = "ended" /\ code' = Died /\ UNCHANGED saying
                   ELSE \E result \in CodeOfLostRecord : Throw(result)
    /\ UNCHANGED <<sequence, log, faults>>

Ended == at = "ended"

ReaderLeaves ==
    /\ ~Ended /\ reader /\ reader' = FALSE
    /\ UNCHANGED <<command, at, saying, sequence, log, stream, faults, drive, child, code>>

\* KeyboardInterrupt.
Interrupt ==
    /\ ~Ended
    /\ Throw(InternalError)
    /\ UNCHANGED <<command, sequence, log, stream, reader, faults, drive, child>>

Killed ==
    /\ ~Ended /\ at' = "ended" /\ code' = Died
    /\ UNCHANGED <<command, saying, sequence, log, stream, reader, faults, drive, child>>

-----------------------------------------------------------------------------
(***************************************************************************)
(* The handlers: what they report, in which order, and how they may end.   *)
(***************************************************************************)

Handler(step) ==
    /\ at = step
    /\ UNCHANGED <<command, sequence, log, stream, reader, faults, drive, child, code>>

For(kinds) == Handler("prepare") /\ command.kind \in kinds

\* argparse answers a wrong command, --help and --version itself.
Parse ==
    /\ at = "parse"
    /\ \/ Say(<<"start">>, "prepare") /\ UNCHANGED code
       \/ at' = "ended" /\ code' \in {Usage, Success} /\ UNCHANGED saying
    /\ UNCHANGED <<command, sequence, log, stream, reader, faults, drive, child>>

\* _catalog, _select_version.
Catalogued(records, then) ==
    \/ FailWith(DownloadFailed)
    \/ at' = "say" /\ saying' = Pending(<<"discovery">>, "notfound", Success)
    \/ Say(<<"discovery">> \o records, then)

\* An empty catalog, no such version, no such device.
NotFound == Handler("notfound") /\ FailWith(InvalidInput)

Versions ==
    /\ For({"versions"})
    /\ \/ Catalogued(<<>>, "answered") \/ Catalogued(<<"resolution">>, "answered")

\* Inspection of what a drive holds is best effort.
Devices ==
    /\ For({"devices"})
    /\ \/ FailWith(InvalidInput)
       \/ Say(<<"discovery">>, "answered") \/ Say(<<"discovery">>, "notfound")

Status ==
    /\ For({"status"})
    /\ \/ FailWith(InvalidInput) \/ Say(<<"discovery">>, "answered")

\* A source that is not there is an answer too, with another code.
Source ==
    /\ For({"source"})
    /\ \/ Complete(Success) \/ Complete(InvalidInput)
       \/ Say(<<"resolution">>, "answered")

Answer == Handler("answered") /\ Complete(Success)

Download ==
    /\ For({"download"})
    /\ Catalogued(<<"resolution", "resolution">>, "request")

Progress(n) == [i \in 1..n |-> "progress"]

\* _download_selected_version, by the calls of VerifiedImageDownloader: the
\* transfer of the image and the verification turn an exception of the sink into
\* one of their own.
Request ==
    /\ Handler("request")
    /\ FailWith(DownloadFailed) \/ FailWith(InternalError) \/ Say(<<"progress">>, "checksum")

RetrieveChecksum ==
    /\ Handler("checksum")
    /\ \/ FailWith(DownloadFailed) \/ FailWith(VerificationFailed) \/ FailWith(InternalError)
       \/ Say(<<"progress">>, "signature")

\* A file found in place is verified again; anything else there is an error.
RetrieveSignature ==
    /\ Handler("signature")
    /\ \/ FailWith(DownloadFailed) \/ FailWith(VerificationFailed) \/ FailWith(InternalError)
       \/ Say(<<"progress">>, "reuse")
       \/ \E n \in 0..MaxProgress : Say(Progress(n), "load")

Reuse == Handler("reuse") /\ Say(<<"verification">>, "hash")

LoadImage ==
    /\ Handler("load")
    /\ FailWith(DownloadFailed) \/ Say(<<"verification">>, "hash")

HashImage ==
    /\ Handler("hash")
    /\ FailWith(VerificationFailed) \/ Say(<<"verification">>, "verify")

VerifyImage ==
    /\ Handler("verify")
    /\ \/ FailWith(VerificationFailed) \/ FailWith(InternalError)
       \/ Say(<<"verification">> \o (IF Executes THEN <<"resolution">> ELSE <<>>),
              IF Executes THEN "scan" ELSE "answered")

\* _prepare_source, after _post_write_options of an installation.
LocalImage ==
    /\ For({"plan", "install", "upgrade"})
    /\ \/ FailWith(InvalidInput)                                \* no such file, half a check
       \/ FailWith(VerificationFailed)  \* unverified and not allowed, or it does not verify
       \/ Say(<<"warning", "resolution">>, "scan")
       \/ Say(<<"verification", "resolution">>, "scan")

CatalogImage ==
    /\ For({"plan", "install", "upgrade"})
    /\ Catalogued(<<"resolution", "resolution">>, IF Executes THEN "request" ELSE "scan")

LiveSource ==
    /\ For({"plan", "install", "upgrade"})
    /\ FailWith(InvalidInput) \/ Say(<<"resolution">>, "scan")

Scan ==
    /\ Handler("scan")
    /\ FailWith(InvalidInput) \/ Say(<<"discovery">>, "plan")

Warnings == {<<>>, <<"warning">>}
Blockers == {InvalidInput, SafetyRefusal}

\* A blocked plan is the answer of plan and the failure of the others.
PlanOperation ==
    /\ Handler("plan")
    /\ \/ FailWith(InvalidInput) \/ FailWith(InternalError)
       \/ Executes /\ \E blocked \in Blockers : FailWith(blocked)
       \/ \E warned \in Warnings :
             Say(IF Executes THEN warned ELSE Append(warned, "resolution"),
                 IF Executes THEN "acknowledge" ELSE "planned")

Planned == Handler("planned") /\ \E result \in {Success} \cup Blockers : Complete(result)

Acknowledge ==
    /\ Handler("acknowledge")
    /\ FailWith(SafetyRefusal) \/ Say(<<"resolution", "write_boundary">>, "controller")

\* The controller hashes, scans and plans again, and prepares the target.
Revalidated ==
    /\ Handler("controller")
    /\ \/ \E result \in {SafetyRefusal, VerificationFailed, OperationFailed, InternalError} :
            FailWith(result)
       \/ \E n \in 0..MaxProgress : Say(Progress(n), "open")

\* The write service of the controller: what it does to the drive is what it
\* promises, and what it reports is what the next steps say.
Service == INSTANCE MediumWrite WITH
    Part <- {}, medium <- drive, writing <- child, outcome <- "none",
    inUse <- {}, excused <- {}

OpenDrive ==
    /\ at = "open"
    /\ Service!Open
    /\ \E n \in 0..MaxProgress : Say(Progress(n), "write")
    /\ UNCHANGED <<command, sequence, log, stream, reader, faults, code>>

\* dd goes on whether or not anybody reads what it prints.
ChildEnds ==
    /\ Service!Finish
    /\ UNCHANGED <<command, at, saying, sequence, log, stream, reader, faults, code>>

\* Mutant: the exit status of dd is not looked at.
WriteEndsUnchecked == Handler("write") /\ ~child /\ Say(<<"progress">>, "settle")

WriteEnds ==
    /\ Handler("write") /\ ~child
    /\ IF drive = "whole" THEN Say(<<"progress">>, "settle") ELSE FailWith(OperationFailed)

\* What follows the copy: the table, the checks of an upgrade, customizations.
Settle ==
    /\ Handler("settle")
    /\ FailWith(OperationFailed) \/ FailWith(InternalError) \/ Complete(Success)

Records == WriteLog \/ LogFails \/ PrintRecord
Answers == Versions \/ Devices \/ Status \/ Source \/ Download \/ NotFound \/ Answer
Downloads == \/ Request \/ RetrieveChecksum \/ RetrieveSignature \/ Reuse
             \/ LoadImage \/ HashImage \/ VerifyImage
Prepares == LocalImage \/ CatalogImage \/ LiveSource \/ Scan \/ PlanOperation \/ Planned
Executing == Acknowledge \/ Revalidated \/ OpenDrive \/ WriteEnds \/ Settle
Outside == ReaderLeaves \/ Interrupt \/ Killed \/ ChildEnds

CommandNext == Parse \/ Records \/ Answers \/ Downloads \/ Prepares \/ Executing \/ Outside

CommandSpec == CommandInit /\ [][CommandNext]_commandVars

-----------------------------------------------------------------------------
(***************************************************************************)
(* Properties                                                              *)
(***************************************************************************)

Step == {"parse", "say", "prepare", "notfound", "answered", "request", "checksum",
         "signature", "reuse", "load", "hash", "verify", "scan", "plan", "planned",
         "acknowledge", "controller", "open", "write", "settle", "ended"}

Code == {Success, Died} \cup 2..9

(* Every variable has its type.                                            *)
CommandTypeOK ==
    /\ command \in Command /\ at \in Step
    /\ saying.then \in Step /\ saying.code \in Code /\ saying.logged \in BOOLEAN
    /\ (at = "say") = (saying.records # <<>>) \/ Ended
    /\ sequence \in Nat /\ faults \in 0..MaxFaults
    /\ drive \in {"untouched", "part", "whole"} /\ {reader, child} \subseteq BOOLEAN
    /\ code \in Code

\* The exit code of a command that was understood.
Verdict == IF Ended /\ sequence > 0 THEN code ELSE Died

(* What the exit code says of the target is so: 0 from install or upgrade  *)
(* means a whole system and no dd left behind, 2 to 6 an untouched drive,  *)
(* and only these two commands ever touch one.  Interrupts, a lost reader  *)
(* and a full log may hit any step.                                        *)
ExitTellsEffect ==
    /\ Verdict = Success /\ Executes => drive = "whole" /\ ~child
    /\ Verdict \in 2..6 => drive = "untouched" /\ ~child
    /\ ~Executes => drive = "untouched" /\ ~child

(* A command is a write service too, for who calls it: it starts dd once   *)
(* at most, and its exit code is one report, in which 0 stands for a whole *)
(* copy and 2 to 6 for a drive that was never opened.                      *)
Promised == INSTANCE MediumWrite WITH
    Part <- {}, medium <- drive, writing <- child,
    outcome <- IF ~(Ended /\ Executes) THEN "none"
               ELSE CASE Verdict = Success -> "ok" [] Verdict \in 2..6 -> "refused"
                      [] OTHER -> "failed",
    inUse <- {}, excused <- {}

KeepsPromise == Promised!Spec

Announced(records) == \E i \in 1..Len(records) :
                         records[i].kind = "write_boundary" /\ records[i].line = "own"

(* Nothing is written that the audit log, and the stream, did not announce *)
(* first, on a line that can be read: a record that cannot be emitted      *)
(* stops the command.                                                      *)
AnnouncedBeforeWrite ==
    child \/ drive # "untouched"
    => /\ command.logs => Announced(log)
       /\ command.mode = "jsonl" => Announced(stream)

OneVerdict(records) ==
    /\ \A i, j \in 1..Len(records) : i < j => records[i].sequence < records[j].sequence
    /\ \A i \in 1..Len(records) : records[i].kind \in Terminal => i = Len(records)

\* A record is whole, on a line of its own but for the one after a record that
\* was cut short.
Entire(records, n) ==
    \/ records[n].line = "own"
    \/ records[n].line = "joined" /\ n > 1 /\ records[n - 1].line = "cut"

VerdictGiven(records) ==
    /\ records # <<>> /\ Entire(records, Len(records))
    /\ LET last == records[Len(records)]
       IN  last.kind \in Terminal /\ last.code = code

SameRecord(r, s) == r.sequence = s.sequence /\ r.kind = s.kind /\ r.code = s.code

(* The log and the output hold their records in the order of their numbers *)
(* and one verdict at most, as the last of them.  An exit code of the      *)
(* program's own is the code of that verdict, in both, whatever failed on  *)
(* the way: in the output as a whole record, in the log too, and there on  *)
(* a line of its own unless the record before it was cut short, in this    *)
(* run or as the last of an earlier one; then it shares the line of that   *)
(* one, and a reader of the log that takes it by lines finds no verdict.   *)
(* The reader of the output saw no record that the log lacks.              *)
VerdictIsLast ==
    /\ OneVerdict(log) /\ OneVerdict(stream)
    /\ Verdict # Died
       => VerdictGiven(stream) /\ (command.logs => VerdictGiven(log))
    /\ command.logs => \A i \in 1..Len(stream) : \E j \in 1..Len(log) :
                          SameRecord(stream[i], log[j]) /\ log[j].line # "cut"
=============================================================================
