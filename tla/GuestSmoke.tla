----------------------------- MODULE GuestSmoke -----------------------------
(***************************************************************************)
(* The lab's smoke test of the AppImage in a guest (real-boot-lane).  A    *)
(* run takes the lock of its lane, starts QEMU and waits for the line the  *)
(* guest prints when the test has passed there.  The login lane drives the *)
(* guest through its serial socket; in the capture lane the operator works *)
(* in the guest, and its serial line goes to a log that all runs share.    *)
(* QEMU is a grandchild of the run, and may outlive it.                    *)
(***************************************************************************)
EXTENDS Integers, Sequences, SequencesExt

CONSTANTS Smoke, Free

ASSUME SmokeAssumption == Free \notin Smoke

VARIABLES
    lane,           \* of each run: "login" or "capture"
    runner,         \* where each run is
    guest,          \* where each guest is
    input,          \* what a guest was sent and has not read
    console,        \* what each guest has printed
    heard,          \* how much of that its run has received
    secured,        \* the account of the image has a password
    lock,           \* the holder of each lane's lock
    serialLog,      \* the lines of the log of the capture lane, and whose they are
    transcript,     \* the run whose transcript is in the output directory
    said,           \* what each run has found out
    evidence,       \* the evidence in the output directory
    met             \* history: runs whose guest was beside another of the lane

smokeVars == <<lane, runner, guest, input, console, heard, secured, lock, serialLog,
               transcript, said, evidence, met>>
guestVars == <<guest, input, console, serialLog, met>>

Lanes == {"login", "capture"}

\* "#" stands for "#" and "$", which the kernel prints as well as a shell.
\* The line of the test comes in two parts.
Token == {"#", "login:", "Password:", "incorrect", "marker", "passed", "failed"}

Alive(r) == guest[r] \notin {"none", "starting", "off"}
Started(r) == guest[r] \notin {"none", "off"}

NoFindings == [login |-> FALSE, failed |-> FALSE, password |-> FALSE, shell |-> FALSE,
               marker |-> FALSE, valid |-> FALSE, status |-> "none"]
NoEvidence == [run |-> Free, status |-> "none", transcript |-> Free]

SmokeInit ==
    /\ lane \in [Smoke -> Lanes]
    /\ runner = [r \in Smoke |-> "idle"] /\ guest = [r \in Smoke |-> "none"]
    /\ input = [r \in Smoke |-> <<>>] /\ console = [r \in Smoke |-> <<>>]
    /\ heard = [r \in Smoke |-> 0] /\ secured \in BOOLEAN
    /\ lock = [l \in Lanes |-> Free]
    /\ serialLog \in {<<>>, <<[run |-> Free, token |-> "marker"],
                              [run |-> Free, token |-> "passed"]>>}
    /\ transcript = Free /\ evidence = NoEvidence
    /\ said = [r \in Smoke |-> NoFindings] /\ met = {}

-----------------------------------------------------------------------------
(***************************************************************************)
(* The guests.                                                             *)
(***************************************************************************)

Guest(r, from) == /\ guest[r] = from
                  /\ UNCHANGED <<lane, runner, heard, secured, lock, transcript, said,
                                 evidence>>

Prints(r, tokens) ==
    /\ console' = [console EXCEPT ![r] = @ \o tokens]
    /\ serialLog' = IF lane[r] = "capture"
                    THEN serialLog \o [i \in 1..Len(tokens) |->
                                          [run |-> r, token |-> tokens[i]]]
                    ELSE serialLog

Becomes(r, to) == guest' = [guest EXCEPT ![r] = to]

\* QEMU truncates its serial log before it answers on the QMP socket.
StartGuest(r) ==
    /\ Guest(r, "starting")
    /\ Becomes(r, "kernel")
    /\ serialLog' = IF lane[r] = "capture" THEN <<>> ELSE serialLog
    /\ LET beside == {q \in Smoke \ {r} : lane[q] = lane[r] /\ Started(q)}
       IN  met' = IF beside = {} THEN met ELSE met \cup beside \cup {r}
    /\ UNCHANGED <<input, console>>

BootGuest(r) ==
    /\ Guest(r, "kernel")
    /\ Becomes(r, "login")
    /\ Prints(r, <<"login:">>) \/ Prints(r, <<"#", "login:">>)
    /\ UNCHANGED <<input, met>>

\* A login or a shell reads the next line, whatever it was meant for.
ReadsLine(r, from) ==
    /\ Guest(r, from) /\ input[r] # <<>>
    /\ input' = [input EXCEPT ![r] = Tail(@)]
    /\ UNCHANGED met

ReadUser(r) ==
    /\ ReadsLine(r, "login")
    /\ IF Head(input[r]) = "user" /\ ~secured
       THEN Becomes(r, "shell") /\ Prints(r, <<"#">>)
       ELSE Becomes(r, "password") /\ Prints(r, <<"Password:">>)

ReadPassword(r) ==
    /\ ReadsLine(r, "password")
    /\ IF Head(input[r]) = "password"
       THEN Becomes(r, "shell") /\ Prints(r, <<"#">>)
       ELSE Becomes(r, "login") /\ Prints(r, <<"incorrect", "login:">>)

ReadCommand(r) ==
    /\ ReadsLine(r, "shell")
    /\ Becomes(r, IF Head(input[r]) = "command" THEN "test" ELSE "shell")
    /\ UNCHANGED <<console, serialLog>>

OperatorRuns(r) ==
    /\ Guest(r, "login") /\ lane[r] = "capture"
    /\ Becomes(r, "test")
    /\ UNCHANGED <<input, console, serialLog, met>>

TestPrints(r) ==
    /\ Guest(r, "test") /\ Becomes(r, "printing")
    /\ Prints(r, <<"marker">>)
    /\ UNCHANGED <<input, met>>

TestEnds(r) ==
    /\ Guest(r, "printing") /\ Becomes(r, "done")
    /\ Prints(r, <<"passed">>) \/ Prints(r, <<"failed">>)
    /\ UNCHANGED <<input, met>>

\* It may fail to start, crash, be closed, or reach the limit of timeout(1).
GuestStops(r) ==
    /\ Started(r) /\ Guest(r, guest[r])
    /\ Becomes(r, "off")
    /\ UNCHANGED <<input, console, serialLog, met>>

-----------------------------------------------------------------------------
(***************************************************************************)
(* The runs.                                                               *)
(***************************************************************************)

Goes(r, from, to) == /\ runner[r] = from
                     /\ runner' = [runner EXCEPT ![r] = to]
                     /\ UNCHANGED <<lane, secured>>

GuestsAlone == UNCHANGED guestVars
Same == UNCHANGED <<transcript, evidence, lock>>

\* Mutant: the lock file may exist.
LockHeldIgnored(l) == TRUE
LockFree(l) == lock[l] = Free

TakeLock(r) ==
    /\ LockFree(lane[r])
    /\ Goes(r, "idle", "connect")
    /\ lock' = [lock EXCEPT ![lane[r]] = r]
    /\ Becomes(r, "starting")
    /\ UNCHANGED <<input, console, serialLog, met, heard, transcript, said, evidence>>

LockRefused(r) ==
    /\ lock[lane[r]] # Free
    /\ Goes(r, "idle", "refused")
    /\ GuestsAlone /\ Same /\ UNCHANGED <<heard, said>>

\* Mutant: the run does not wait for QMP.
AnswersAtOnce(r) == TRUE
\* QmpClient.connect, and the serial socket of the login lane.
Answers(r) == Alive(r)

Connect(r) ==
    /\ Answers(r)
    /\ Goes(r, "connect", IF lane[r] = "login" THEN "login" ELSE "watch")
    /\ GuestsAlone /\ Same /\ UNCHANGED <<heard, said>>

Heard(r) == SubSeq(console[r], 1, heard[r])

Waiting == {"login", "prompt", "secret", "marker"}
WaitsFor(step) ==
    CASE step = "login" -> <<"login:">>
      [] step = "prompt" -> <<"Password:", "#", "incorrect", "login:">>
      [] step = "secret" -> <<"#", "incorrect", "login:">>
      [] step = "marker" -> <<"marker">>

\* The first of the patterns that is anywhere in what was heard so far.
Seen(r) == SelectSeq(WaitsFor(runner[r]), LAMBDA token : Contains(Heard(r), token))

Receive(r) ==
    /\ runner[r] \in Waiting /\ Seen(r) = <<>>
    /\ \E n \in heard[r] + 1 .. Len(console[r]) : heard' = [heard EXCEPT ![r] = n]
    /\ GuestsAlone /\ Same /\ UNCHANGED <<lane, secured, runner, said>>

\* A deadline of the connection that passes, an error of a socket or of a file
\* or an interrupt raises past quit_qemu.
RunRaises(r) ==
    /\ runner[r] \in Waiting \cup {"connect", "record", "watch", "validate", "quit"}
    /\ Goes(r, runner[r], "raising")
    /\ GuestsAlone /\ Same /\ UNCHANGED <<heard, said>>

\* What the run does on the first pattern it sees, and what it notes.
Send(r, line) == input' = [input EXCEPT ![r] = Append(@, line)]

React(r) ==
    /\ runner[r] \in Waiting /\ Seen(r) # <<>>
    /\ LET token == Seen(r)[1]
           note(field) == said' = [said EXCEPT ![r][field] = TRUE]
       IN  \/ /\ runner[r] = "login"
              /\ Goes(r, "login", "prompt") /\ Send(r, "user") /\ note("login")
           \/ /\ runner[r] = "prompt" /\ token = "Password:"
              /\ Goes(r, "prompt", "secret") /\ Send(r, "password") /\ note("password")
           \/ /\ runner[r] \in {"prompt", "secret"} /\ token = "#"
              /\ Goes(r, runner[r], "marker") /\ Send(r, "command") /\ note("shell")
           \/ /\ runner[r] \in {"prompt", "secret"} /\ token \in {"incorrect", "login:"}
              /\ Goes(r, runner[r], "record") /\ note("failed") /\ UNCHANGED input
           \/ /\ runner[r] = "marker"
              /\ Goes(r, "marker", "record") /\ note("marker") /\ UNCHANGED input
    /\ UNCHANGED <<guest, console, serialLog, met, heard>> /\ Same

TimesOut(r) ==
    /\ runner[r] \in Waiting /\ Seen(r) = <<>>
    /\ Goes(r, runner[r], "record")
    /\ GuestsAlone /\ Same /\ UNCHANGED <<heard, said>>

\* validate_transcript: the last line with the marker, as far as it was heard.
RecordTranscript(r) ==
    /\ Goes(r, "record", "quit")
    /\ transcript' = r
    /\ said' = [said EXCEPT ![r].valid = said[r].marker /\ Contains(Heard(r), "passed")]
    /\ GuestsAlone /\ UNCHANGED <<heard, lock, evidence>>

\* wait_for_marker and validate_serial_log read the log one after the other.
LastLine(log) ==
    \E i \in 1..Len(log) : /\ log[i].token = "passed"
                          /\ \A j \in i+1..Len(log) : log[j].token \notin {"marker", "failed"}

WatchLog(r) ==
    /\ Goes(r, "watch", "validate")
    /\ \E i \in 1..Len(serialLog) : serialLog[i].token = "marker"
    /\ said' = [said EXCEPT ![r].marker = TRUE]
    /\ GuestsAlone /\ Same /\ UNCHANGED heard

WatchTimesOut(r) ==
    /\ Goes(r, "watch", "quit")
    /\ GuestsAlone /\ Same /\ UNCHANGED <<heard, said>>

ValidateLog(r) ==
    /\ Goes(r, "validate", "quit")
    /\ said' = [said EXCEPT ![r].valid = LastLine(serialLog)]
    /\ GuestsAlone /\ Same /\ UNCHANGED heard

\* quit_qemu is an attempt.
QuitGuest(r) ==
    /\ Goes(r, "quit", "reap")
    /\ guest' \in {guest, [guest EXCEPT ![r] = "off"]}
    /\ Same /\ UNCHANGED <<input, console, serialLog, met, heard, said>>

LockReleased(r) == lock' = [lock EXCEPT ![lane[r]] = Free]

\* communicate returns when QEMU has closed its pipes; what kill ends after 20
\* seconds is the timeout command that QEMU runs under.
Reap(r) ==
    /\ guest[r] = "off"
    /\ Goes(r, "reap", "report")
    /\ GuestsAlone /\ Same /\ UNCHANGED <<heard, said>>

ReapAfterError(r) ==
    /\ guest[r] = "off"
    /\ Goes(r, "raising", "gone") /\ LockReleased(r)
    /\ GuestsAlone /\ UNCHANGED <<heard, said, transcript, evidence>>

ReapFails(r) ==
    /\ guest[r] # "off"
    /\ runner[r] \in {"reap", "raising"} /\ Goes(r, runner[r], "gone") /\ LockReleased(r)
    /\ GuestsAlone /\ UNCHANGED <<heard, said, transcript, evidence>>

Status(found) ==
    IF found.valid THEN "passed"
    ELSE IF found.marker THEN "marker-invalid"
    ELSE IF found.shell THEN "command-sent-no-marker"
    ELSE IF found.failed THEN "login-failed"
    ELSE IF found.password THEN "password-required-no-shell"
    ELSE IF found.login THEN "login-seen-command-not-sent"
    ELSE "no-marker"

\* The evidence of the login lane quotes the transcript in the directory.
Report(r) ==
    /\ Goes(r, "report", "ended") /\ LockReleased(r)
    /\ said' = [said EXCEPT ![r].status = Status(said[r])]
    /\ evidence' = IF lane[r] = "login"
                   THEN [run |-> r, status |-> Status(said[r]), transcript |-> transcript]
                   ELSE evidence
    /\ GuestsAlone /\ UNCHANGED <<heard, transcript>>

SmokeOver == {"refused", "ended", "gone", "killed"}

\* A run that is killed leaves its lock behind.
KillRun(r) ==
    /\ runner[r] \notin SmokeOver \cup {"idle"}
    /\ Goes(r, runner[r], "killed")
    /\ GuestsAlone /\ Same /\ UNCHANGED <<heard, said>>

GuestStep(r) ==
    \/ StartGuest(r) \/ BootGuest(r) \/ ReadUser(r) \/ ReadPassword(r) \/ ReadCommand(r)
    \/ OperatorRuns(r) \/ TestPrints(r) \/ TestEnds(r) \/ GuestStops(r)

LoginLane(r) == Receive(r) \/ React(r) \/ TimesOut(r) \/ RecordTranscript(r)
CaptureLane(r) == WatchLog(r) \/ WatchTimesOut(r) \/ ValidateLog(r)

RunStep(r) ==
    \/ TakeLock(r) \/ LockRefused(r) \/ Connect(r) \/ RunRaises(r)
    \/ LoginLane(r) \/ CaptureLane(r)
    \/ QuitGuest(r) \/ Reap(r) \/ ReapAfterError(r) \/ ReapFails(r) \/ Report(r) \/ KillRun(r)

SmokeNext == \E r \in Smoke : GuestStep(r) \/ RunStep(r)

SmokeSpec == SmokeInit /\ [][SmokeNext]_smokeVars

-----------------------------------------------------------------------------
(***************************************************************************)
(* Properties                                                              *)
(***************************************************************************)

(* Every variable has its type.                                            *)
SmokeTypeOK ==
    /\ lane \in [Smoke -> Lanes] /\ lock \in [Lanes -> Smoke \cup {Free}]
    /\ \A r \in Smoke : /\ console[r] \in Seq(Token) /\ heard[r] \in 0..Len(console[r])
                      /\ input[r] \in Seq({"user", "password", "command"})
    /\ transcript \in Smoke \cup {Free} /\ met \subseteq Smoke

(* A run that reports "passed" had a guest of its own in which the test    *)
(* passed, neither the log of an earlier run nor another guest's line,     *)
(* unless a guest that outlived its run wrote to the same log; and the     *)
(* evidence quotes the transcript of the run it is of.                     *)
PassedInTheGuest ==
    /\ \A r \in Smoke : said[r].status = "passed" =>
                         Contains(console[r], "passed") \/ (lane[r] = "capture" /\ r \in met)
    /\ evidence.transcript = evidence.run
    /\ evidence.run # Free => evidence.status = said[evidence.run].status

(* Two guests of one lane are up at a time only when the run of one could  *)
(* not end its QEMU and gave its lock away.                                *)
OneGuestPerLock ==
    \A q, r \in Smoke : q # r /\ lane[q] = lane[r] /\ Started(q) /\ Started(r)
                      => "gone" \in {runner[q], runner[r]}
=============================================================================
