-------------------------- MODULE GuestSmokeProofs --------------------------
(***************************************************************************)
(* The lock of a lane, for every number of runs: what it excludes, and     *)
(* what it does not; and what a run that reports "passed" has seen.        *)
(***************************************************************************)
EXTENDS GuestSmoke, SequenceTheorems, TLAPS

\* A run has the lock from the start of QEMU until it has given it back; one
\* that is killed keeps it.
WithoutLock == {"idle", "refused", "ended", "gone"}
RunnerStep == WithoutLock \cup Waiting
              \cup {"connect", "watch", "record", "validate", "quit", "reap", "report",
                    "raising", "killed"}

Kinds ==
    /\ lane \in [Smoke -> Lanes] /\ lock \in [Lanes -> Smoke \cup {Free}]
    /\ runner \in [Smoke -> RunnerStep]
    /\ guest \in [Smoke -> {"none", "starting", "kernel", "login", "password", "shell",
                            "test", "printing", "done", "off"}]

\* The holder of a lock is one, and the guest of a run that has given its lock
\* back is off, unless the run is gone.
LockInv ==
    \A r \in Smoke :
        /\ runner[r] \notin WithoutLock => lock[lane[r]] = r
        /\ runner[r] \in {"idle", "refused"} => guest[r] = "none"
        /\ runner[r] \in {"report", "ended"} => guest[r] = "off"

SmokeInv == Kinds /\ LockInv

-----------------------------------------------------------------------------
LEMMA InitSmoke == ASSUME SmokeInit PROVE SmokeInv
<1>1. Kinds
  BY DEF SmokeInit, Kinds, RunnerStep, WithoutLock
<1>2. LockInv
  BY DEF SmokeInit, LockInv, WithoutLock
<1>3. QED BY <1>1, <1>2 DEF SmokeInv

(***************************************************************************)
(* A step moves one run, one guest, or both.                               *)
(***************************************************************************)

Live == {"starting", "kernel", "login", "password", "shell", "test", "printing", "done"}

LEMMA GuestMoves ==
    ASSUME SmokeInv, NEW r \in Smoke, GuestStep(r)
    PROVE  /\ UNCHANGED <<lane, runner, lock>>
           /\ \E to \in Live \cup {"off"} : guest' = [guest EXCEPT ![r] = to]
           /\ guest[r] \in Live
BY DEF SmokeInv, Kinds, GuestStep, StartGuest, BootGuest, ReadUser, ReadPassword,
       ReadCommand, OperatorRuns, TestPrints, TestEnds, GuestStops, ReadsLine, Guest,
       Becomes, Live, Started

Takes(r) ==
    /\ runner[r] = "idle" /\ lock[lane[r]] = Free
    /\ runner' = [runner EXCEPT ![r] = "connect"]
    /\ lock' = [lock EXCEPT ![lane[r]] = r]
    /\ guest' = [guest EXCEPT ![r] = "starting"]

Waits(r) ==
    /\ runner[r] = "idle"
    /\ runner' = [runner EXCEPT ![r] = "refused"]
    /\ UNCHANGED <<lock, guest>>

Keeps(r) ==
    /\ runner[r] \notin WithoutLock
    /\ \E to \in RunnerStep \ WithoutLock :
          /\ runner' = [runner EXCEPT ![r] = to]
          /\ to = "report" => guest[r] = "off"
    /\ UNCHANGED lock
    /\ guest' \in {guest, [guest EXCEPT ![r] = "off"]}

Releases(r) ==
    /\ runner[r] \notin WithoutLock
    /\ \/ runner' = [runner EXCEPT ![r] = "gone"]
       \/ runner[r] = "report" /\ runner' = [runner EXCEPT ![r] = "ended"]
    /\ lock' = [lock EXCEPT ![lane[r]] = Free]
    /\ UNCHANGED guest

LEMMA RunMoves ==
    ASSUME SmokeInv, NEW r \in Smoke, RunStep(r)
    PROVE  UNCHANGED lane /\ (Takes(r) \/ Waits(r) \/ Keeps(r) \/ Releases(r))
<1> USE DEF Goes, GuestsAlone, guestVars, Same, WithoutLock, RunnerStep, Waiting
<1>1. CASE TakeLock(r)
  BY <1>1 DEF TakeLock, LockFree, Becomes, Takes
<1>2. CASE LockRefused(r)
  BY <1>2 DEF LockRefused, Waits
<1>3. CASE Report(r) \/ ReapAfterError(r) \/ ReapFails(r)
  BY <1>3 DEF Report, ReapAfterError, ReapFails, LockReleased, Releases
<1>4. CASE Reap(r)
  BY <1>4 DEF Reap, Keeps
<1>5. CASE QuitGuest(r)
  <2>1. /\ runner[r] = "quit" /\ runner' = [runner EXCEPT ![r] = "reap"]
        /\ UNCHANGED <<lane, lock>>
        /\ guest' \in {guest, [guest EXCEPT ![r] = "off"]}
    BY <1>5 DEF QuitGuest
  <2>2. "reap" \in RunnerStep \ WithoutLock /\ "quit" \notin WithoutLock
    OBVIOUS
  <2>3. QED BY <2>1, <2>2 DEF Keeps
<1>6. CASE Connect(r) \/ RunRaises(r) \/ CaptureLane(r)
  BY <1>6 DEF Connect, RunRaises, Waiting, CaptureLane, WatchLog, WatchTimesOut, ValidateLog, Keeps
<1>7. CASE KillRun(r)
  <2>1. runner[r] \in RunnerStep \ WithoutLock
    BY <1>7 DEF KillRun, SmokeOver, SmokeInv, Kinds
  <2>2. runner' = [runner EXCEPT ![r] = "killed"] /\ UNCHANGED <<lane, lock, guest>>
    BY <1>7 DEF KillRun
  <2>3. "killed" \in RunnerStep \ WithoutLock /\ "killed" # "report"
    OBVIOUS
  <2>4. \E to \in RunnerStep \ WithoutLock :
            /\ runner' = [runner EXCEPT ![r] = to]
            /\ to = "report" => guest[r] = "off"
    BY <2>2, <2>3
  <2>5. QED BY <2>1, <2>2, <2>4 DEF Keeps
<1>8. CASE TimesOut(r) \/ RecordTranscript(r)
  BY <1>8 DEF TimesOut, RecordTranscript, Keeps
<1>9. CASE Receive(r)
  <2>1. runner' = [runner EXCEPT ![r] = runner[r]]
    BY <1>9 DEF Receive, SmokeInv, Kinds
  <2>2. QED BY <1>9, <2>1 DEF Receive, Keeps
<1>10. CASE React(r)
  BY <1>10 DEF React, Keeps
<1>11. QED
  BY <1>1, <1>2, <1>3, <1>4, <1>5, <1>6, <1>7, <1>8, <1>9, <1>10 DEF RunStep, LoginLane

(***************************************************************************)
(* The invariant is kept by every kind of step.                            *)
(***************************************************************************)

LEMMA StepSmoke == ASSUME SmokeInv, [SmokeNext]_smokeVars PROVE SmokeInv'
<1>1. ASSUME NEW r \in Smoke, GuestStep(r)
      PROVE  SmokeInv'
  <2>1. Kinds'
    BY <1>1, GuestMoves DEF SmokeInv, Kinds, Live
  <2>2. LockInv'
    BY <1>1, GuestMoves DEF SmokeInv, Kinds, LockInv, WithoutLock, Live
  <2>3. QED BY <2>1, <2>2 DEF SmokeInv
<1>2. ASSUME NEW r \in Smoke, RunStep(r)
      PROVE  SmokeInv'
  <2> USE DEF SmokeInv, Kinds, LockInv, WithoutLock
  <2>1. CASE Takes(r)
    <3>1. Kinds'
      BY <1>2, <2>1, RunMoves DEF Takes, RunnerStep
    <3>2. LockInv'
      BY <1>2, <2>1, RunMoves, SmokeAssumption DEF Takes
    <3>3. QED BY <3>1, <3>2
  <2>2. CASE Waits(r)
    BY <1>2, <2>2, RunMoves DEF Waits, RunnerStep
  <2>3. CASE Keeps(r)
    BY <1>2, <2>3, RunMoves DEF Keeps, RunnerStep
  <2>4. CASE Releases(r)
    <3>1. Kinds'
      BY <1>2, <2>4, RunMoves DEF Releases, RunnerStep
    <3>2. LockInv'
      BY <1>2, <2>4, RunMoves DEF Releases
    <3>3. QED BY <3>1, <3>2
  <2>5. QED BY <1>2, <2>1, <2>2, <2>3, <2>4, RunMoves
<1>3. CASE UNCHANGED smokeVars
  BY <1>3 DEF smokeVars, SmokeInv, Kinds, LockInv
<1>4. QED BY <1>1, <1>2, <1>3 DEF SmokeNext

(* At any number of runs, two guests of one lane are up together only when *)
(* the run of one could not end its QEMU and gave its lock away.           *)
THEOREM LockExcludesGuests == SmokeSpec => []OneGuestPerLock
<1>1. SmokeInv => OneGuestPerLock
  BY DEF SmokeInv, Kinds, LockInv, OneGuestPerLock, Started, WithoutLock
<1>2. SmokeInv /\ [SmokeNext]_smokeVars => SmokeInv'
  BY StepSmoke
<1>3. QED BY <1>1, <1>2, InitSmoke, PTL DEF SmokeSpec

-----------------------------------------------------------------------------
(***************************************************************************)
(* What a run has seen of the test.                                        *)
(***************************************************************************)

Line == [run: Smoke \cup {Free}, token: Token]
Sent == {"user", "password", "command"}
Verdict == {"none", "passed", "marker-invalid", "command-sent-no-marker", "login-failed",
            "password-required-no-shell", "login-seen-command-not-sent", "no-marker"}
Finding == [login: BOOLEAN, failed: BOOLEAN, password: BOOLEAN, shell: BOOLEAN,
            marker: BOOLEAN, valid: BOOLEAN, status: Verdict]

Records ==
    /\ console \in [Smoke -> Seq(Token)] /\ serialLog \in Seq(Line)
    /\ input \in [Smoke -> Seq(Sent)] /\ said \in [Smoke -> Finding]
    /\ heard \in [Smoke -> Nat] /\ \A r \in Smoke : heard[r] <= Len(console[r])
    /\ transcript \in Smoke \cup {Free} /\ met \subseteq Smoke
    /\ evidence \in [run: Smoke \cup {Free}, status: Verdict, transcript: Smoke \cup {Free}]

\* Each lane has steps of its own.
RoleInv ==
    \A r \in Smoke :
        /\ runner[r] \in Waiting \cup {"record"} => lane[r] = "login"
        /\ runner[r] \in {"watch", "validate"} => lane[r] = "capture"

Printed(r, token) == \E i \in 1..Len(console[r]) : console[r][i] = token

\* What a line of the log says, the guest whose line it is has printed.
LineInv ==
    \A i \in 1..Len(serialLog) :
        serialLog[i].run \in Smoke => Printed(serialLog[i].run, serialLog[i].token)

\* A run that watches its guest has the log to itself, or the guests have met.
Watched(r) == runner[r] \in {"watch", "validate"} \/ (runner[r] = "connect" /\ Alive(r))
OwnLogInv ==
    \A r \in Smoke : lane[r] = "capture" /\ Watched(r) /\ r \notin met =>
        /\ \A q \in Smoke \ {r} : lane[q] = "capture" => ~Started(q)
        /\ \A i \in 1..Len(serialLog) : serialLog[i].run = r

\* What a run has found valid, its guest has printed, or the guests have met.
Vouched(r) == Printed(r, "passed") \/ (lane[r] = "capture" /\ r \in met)
VouchInv ==
    \A r \in Smoke : said[r].valid \/ said[r].status = "passed" => Vouched(r)

\* The transcript in the directory is of the run that is about to report.
EvidenceInv ==
    /\ \A r \in Smoke : lane[r] = "login" /\ runner[r] \in {"quit", "reap", "report"} =>
                            transcript = r
    /\ evidence.transcript = evidence.run
    /\ evidence.run # Free => /\ runner[evidence.run] = "ended"
                              /\ evidence.status = said[evidence.run].status

TestInv == SmokeInv /\ Records /\ RoleInv /\ LineInv /\ OwnLogInv /\ VouchInv /\ EvidenceInv

LEMMA InitTest == ASSUME SmokeInit PROVE TestInv
<1>1. Records
  <2>1. /\ console = [r \in Smoke |-> <<>>] /\ input = [r \in Smoke |-> <<>>]
        /\ heard = [r \in Smoke |-> 0] /\ said = [r \in Smoke |-> NoFindings]
        /\ transcript = Free /\ met = {} /\ evidence = NoEvidence
    BY DEF SmokeInit
  <2>2. NoFindings \in Finding
    BY DEF NoFindings, Finding, Verdict
  <2>3. serialLog \in Seq(Line)
    <3>1. /\ [run |-> Free, token |-> "marker"] \in Line
          /\ [run |-> Free, token |-> "passed"] \in Line
      BY DEF Line, Token
    <3>2. ASSUME NEW a \in Line, NEW b \in Line
          PROVE  <<a, b>> \in Seq(Line)
      OBVIOUS
    <3>3. <<>> \in Seq(Line)
      OBVIOUS
    <3> QED  BY <3>1, <3>2, <3>3, Zenon DEF SmokeInit
  <2>4. evidence \in [run: Smoke \cup {Free}, status: Verdict, transcript: Smoke \cup {Free}]
    BY <2>1 DEF NoEvidence, Verdict
  <2>5. /\ console \in [Smoke -> Seq(Token)] /\ input \in [Smoke -> Seq(Sent)]
        /\ \A r \in Smoke : heard[r] <= Len(console[r])
    BY <2>1
  <2> QED  BY <2>1, <2>2, <2>3, <2>4, <2>5 DEF Records
<1>2. RoleInv /\ OwnLogInv
  BY DEF SmokeInit, RoleInv, OwnLogInv, Watched, Waiting
<1>3. LineInv
  BY SmokeAssumption DEF SmokeInit, LineInv
<1>4. VouchInv /\ EvidenceInv
  BY DEF SmokeInit, VouchInv, EvidenceInv, NoFindings, NoEvidence
<1> QED  BY <1>1, <1>2, <1>3, <1>4, InitSmoke DEF TestInv

(***************************************************************************)
(* The guests.                                                             *)
(***************************************************************************)

LEMMA PrintsLines ==
    ASSUME Records, Kinds, NEW r \in Smoke, NEW tokens \in Seq(Token), Prints(r, tokens)
    PROVE  /\ console' \in [Smoke -> Seq(Token)] /\ serialLog' \in Seq(Line)
           /\ \A q \in Smoke : Len(console[q]) <= Len(console'[q])
           /\ \A q \in Smoke, token \in Token : Printed(q, token) => Printed(q, token)'
           /\ lane[r] # "capture" => serialLog' = serialLog
           /\ \A i \in 1..Len(serialLog') :
                 \/ i \in 1..Len(serialLog) /\ serialLog'[i] = serialLog[i]
                 \/ serialLog'[i].run = r /\ Printed(r, serialLog[i].token)'
<1> DEFINE printed == [i \in 1..Len(tokens) |-> [run |-> r, token |-> tokens[i]]]
<1>1. /\ console' = [console EXCEPT ![r] = @ \o tokens]
      /\ serialLog' = IF lane[r] = "capture" THEN serialLog \o printed ELSE serialLog
  BY DEF Prints
<1>2. /\ console[r] \in Seq(Token) /\ serialLog \in Seq(Line)
      /\ Len(console[r]) \in Nat /\ Len(tokens) \in Nat /\ Len(serialLog) \in Nat
  BY LenProperties DEF Records
<1>3. /\ console[r] \o tokens \in Seq(Token)
      /\ Len(console[r] \o tokens) = Len(console[r]) + Len(tokens)
      /\ \A i \in 1..Len(console[r]) : (console[r] \o tokens)[i] = console[r][i]
      /\ \A i \in 1..Len(tokens) : (console[r] \o tokens)[Len(console[r]) + i] = tokens[i]
  BY <1>2
<1>4. printed \in Seq(Line) /\ Len(printed) = Len(tokens)
  <2>1. printed \in [1..Len(tokens) -> Line]
    <3>1. \A i \in 1..Len(tokens) : [run |-> r, token |-> tokens[i]] \in Line
      BY <1>2 DEF Line
    <3> QED  BY <3>1, Zenon
  <2> HIDE DEF printed
  <2>2. printed \in Seq(Line) /\ Len(printed) \in Nat /\ DOMAIN printed = 1..Len(printed)
    BY <1>2, <2>1
  <2>3. 1..Len(printed) = 1..Len(tokens)
    BY <2>1, <2>2, Zenon
  <2> QED  BY <1>2, <2>2, <2>3
<1>5. /\ serialLog \o printed \in Seq(Line)
      /\ Len(serialLog \o printed) = Len(serialLog) + Len(tokens)
      /\ \A i \in 1..Len(serialLog) : (serialLog \o printed)[i] = serialLog[i]
      /\ \A i \in 1..Len(tokens) : (serialLog \o printed)[Len(serialLog) + i] = printed[i]
  <2> HIDE DEF printed
  <2>1. /\ serialLog \o printed \in Seq(Line)
        /\ Len(serialLog \o printed) = Len(serialLog) + Len(printed)
        /\ \A i \in 1..Len(serialLog) + Len(printed) : (serialLog \o printed)[i] =
              IF i <= Len(serialLog) THEN serialLog[i] ELSE printed[i - Len(serialLog)]
    BY <1>2, <1>4, ConcatProperties
  <2>2. ASSUME NEW i \in 1..Len(serialLog)
        PROVE  (serialLog \o printed)[i] = serialLog[i]
    <3>1. i \in 1..Len(serialLog) + Len(printed) /\ i <= Len(serialLog)
      BY <1>2, <1>4
    <3> QED  BY <2>1, <3>1, Zenon
  <2>3. ASSUME NEW i \in 1..Len(tokens)
        PROVE  (serialLog \o printed)[Len(serialLog) + i] = printed[i]
    <3>1. /\ Len(serialLog) + i \in 1..Len(serialLog) + Len(printed)
          /\ ~(Len(serialLog) + i <= Len(serialLog))
          /\ (Len(serialLog) + i) - Len(serialLog) = i
      BY <1>2, <1>4
    <3> QED  BY <2>1, <3>1
  <2> QED  BY <1>4, <2>1, <2>2, <2>3
<1>6. console' \in [Smoke -> Seq(Token)] /\ serialLog' \in Seq(Line)
  BY <1>1, <1>3, <1>5 DEF Records
<1>7. console'[r] = console[r] \o tokens /\ \A q \in Smoke \ {r} : console'[q] = console[q]
  BY <1>1 DEF Records
<1>8. \A q \in Smoke, token \in Token : Printed(q, token) => Printed(q, token)'
  BY <1>2, <1>3, <1>7 DEF Printed
<1>9. \A q \in Smoke : Len(console[q]) <= Len(console'[q])
  <2> SUFFICES ASSUME NEW q \in Smoke
               PROVE  Len(console[q]) <= Len(console'[q])
    OBVIOUS
  <2>1. Len(console[q]) \in Nat
    BY LenProperties DEF Records
  <2>2. CASE q = r
    <3>1. Len(console'[r]) = Len(console[r]) + Len(tokens)
      BY <1>3, <1>7, Zenon
    <3> QED  BY <1>2, <2>2, <3>1
  <2>3. CASE q # r
    <3>1. console'[q] = console[q]
      BY <1>7, <2>3, Zenon
    <3> QED  BY <2>1, <3>1
  <2> QED  BY <2>2, <2>3
<1>10. ASSUME NEW i \in 1..Len(tokens)
       PROVE  Printed(r, tokens[i])'
  <2>1. Len(console[r]) + i \in 1..Len(console'[r])
    BY <1>2, <1>3, <1>7
  <2>2. console'[r][Len(console[r]) + i] = tokens[i]
    BY <1>3, <1>7
  <2> QED  BY <2>1, <2>2 DEF Printed
<1>11. ASSUME lane[r] = "capture", NEW i \in 1..Len(serialLog'), i \notin 1..Len(serialLog)
       PROVE  serialLog'[i].run = r /\ Printed(r, serialLog[i].token)'
  <2>1. serialLog' = serialLog \o printed
    BY <1>1, <1>11
  <2>2. i - Len(serialLog) \in 1..Len(tokens)
    BY <1>2, <1>5, <1>11, <2>1
  <2>3. serialLog'[i] = printed[i - Len(serialLog)]
    BY <1>2, <1>5, <1>11, <2>1, <2>2
  <2>4. serialLog'[i] = [run |-> r, token |-> tokens[i - Len(serialLog)]]
    BY <2>2, <2>3
  <2>5. serialLog'[i].run = r /\ serialLog'[i].token = tokens[i - Len(serialLog)]
    BY <2>4
  <2> QED  BY <1>10, <2>2, <2>5
<1>12. \A i \in 1..Len(serialLog') :
          \/ i \in 1..Len(serialLog) /\ serialLog'[i] = serialLog[i]
          \/ serialLog'[i].run = r /\ Printed(r, serialLog[i].token)'
  <2>1. lane[r] # "capture" => serialLog' = serialLog
    BY <1>1
  <2>2. lane[r] = "capture" => \A i \in 1..Len(serialLog) : serialLog'[i] = serialLog[i]
    BY <1>1, <1>5
  <2> QED  BY <1>11, <2>1, <2>2
<1> QED  BY <1>1, <1>6, <1>8, <1>9, <1>12

\* What a guest may do to its lines, to the log and to its input.
GuestWrites(r) == \E tokens \in Seq(Token) : Prints(r, tokens) /\ UNCHANGED met
GuestSilent == UNCHANGED <<console, serialLog, met>>

LEMMA GuestPrints ==
    ASSUME Records, NEW r \in Smoke, GuestStep(r)
    PROVE  /\ UNCHANGED <<heard, transcript, said, evidence>>
           /\ input' \in [Smoke -> Seq(Sent)]
           /\ StartGuest(r) \/ GuestWrites(r) \/ GuestSilent
<1>1. UNCHANGED <<heard, transcript, said, evidence>>
  BY DEF GuestStep, StartGuest, BootGuest, ReadUser, ReadPassword, ReadCommand, OperatorRuns,
         TestPrints, TestEnds, GuestStops, ReadsLine, Guest
<1>2. /\ <<"#">> \in Seq(Token) /\ <<"login:">> \in Seq(Token)
      /\ <<"Password:">> \in Seq(Token) /\ <<"marker">> \in Seq(Token)
      /\ <<"passed">> \in Seq(Token) /\ <<"failed">> \in Seq(Token)
      /\ <<"#", "login:">> \in Seq(Token) /\ <<"incorrect", "login:">> \in Seq(Token)
  BY DEF Token
<1>3. CASE StartGuest(r) \/ OperatorRuns(r) \/ GuestStops(r)
  BY <1>1, <1>3 DEF StartGuest, OperatorRuns, GuestStops, GuestSilent, Records
<1>4. CASE BootGuest(r) \/ TestPrints(r) \/ TestEnds(r)
  BY <1>1, <1>2, <1>4 DEF BootGuest, TestPrints, TestEnds, GuestWrites, Records
<1>5. CASE ReadUser(r) \/ ReadPassword(r) \/ ReadCommand(r)
  <2>1. input[r] # <<>> /\ input' = [input EXCEPT ![r] = Tail(@)] /\ UNCHANGED met
    BY <1>5 DEF ReadUser, ReadPassword, ReadCommand, ReadsLine
  <2>2. input[r] \in Seq(Sent)
    BY DEF Records
  <2>3. input' \in [Smoke -> Seq(Sent)]
    BY <2>1, <2>2 DEF Records
  <2>4. GuestWrites(r) \/ GuestSilent
    BY <1>2, <1>5, <2>1 DEF ReadUser, ReadPassword, ReadCommand, GuestWrites, GuestSilent
  <2> QED  BY <1>1, <2>3, <2>4
<1> QED  BY <1>3, <1>4, <1>5 DEF GuestStep

LEMMA GuestKeeps ==
    ASSUME TestInv, NEW r \in Smoke, GuestStep(r), SmokeInv'
    PROVE  TestInv'
<1>1. /\ UNCHANGED <<lane, runner, lock, heard, transcript, said, evidence>>
      /\ guest[r] \in Live /\ \A q \in Smoke \ {r} : guest'[q] = guest[q]
      /\ input' \in [Smoke -> Seq(Sent)] /\ Records /\ Kinds
      /\ StartGuest(r) \/ GuestWrites(r) \/ GuestSilent
  BY GuestMoves, GuestPrints DEF TestInv, SmokeInv, Kinds
<1>2. Started(r)
  BY <1>1 DEF Started, Live
<1>3. /\ met' \subseteq Smoke /\ met \subseteq met'
      /\ console' \in [Smoke -> Seq(Token)] /\ serialLog' \in Seq(Line)
      /\ \A q \in Smoke : Len(console[q]) <= Len(console'[q])
      /\ \A q \in Smoke, token \in Token : Printed(q, token) => Printed(q, token)'
  <2>1. CASE StartGuest(r)
    <3>1. UNCHANGED console /\ serialLog' \in {<<>>, serialLog}
      BY <2>1 DEF StartGuest
    <3>2. met' \subseteq Smoke /\ met \subseteq met'
      BY <1>1, <2>1 DEF StartGuest, Records
    <3>3. serialLog' \in Seq(Line)
      <4>1. <<>> \in Seq(Line)
        OBVIOUS
      <4> QED  BY <1>1, <3>1, <4>1 DEF Records
    <3>4. \A q \in Smoke : Len(console[q]) <= Len(console'[q])
      <4>1. \A q \in Smoke : Len(console[q]) \in Nat
        BY <1>1, LenProperties DEF Records
      <4> QED  BY <3>1, <4>1
    <3>5. \A q \in Smoke, token \in Token : Printed(q, token) => Printed(q, token)'
      BY <3>1 DEF Printed
    <3> QED  BY <1>1, <3>1, <3>2, <3>3, <3>4, <3>5 DEF Records
  <2>2. CASE GuestWrites(r)
    BY <1>1, <2>2, PrintsLines DEF GuestWrites, Records
  <2>3. CASE GuestSilent
    <3>1. UNCHANGED <<console, serialLog, met>>
      BY <2>3 DEF GuestSilent
    <3>2. \A q \in Smoke : Len(console[q]) \in Nat
      BY <1>1, LenProperties DEF Records
    <3>3. \A q \in Smoke, token \in Token : Printed(q, token) => Printed(q, token)'
      BY <3>1 DEF Printed
    <3> QED  BY <1>1, <3>1, <3>2, <3>3 DEF Records
  <2> QED  BY <1>1, <2>1, <2>2, <2>3
<1>4. Records'
  <2>1. ASSUME NEW q \in Smoke
        PROVE  heard'[q] <= Len(console'[q])
    <3>1. heard[q] \in Nat /\ Len(console[q]) \in Nat /\ Len(console'[q]) \in Nat
      BY <1>1, <1>3, LenProperties DEF Records
    <3> QED  BY <1>1, <1>3, <3>1 DEF Records
  <2> QED  BY <1>1, <1>3, <2>1 DEF Records
<1>5. RoleInv'
  BY <1>1 DEF TestInv, RoleInv
<1>6. LineInv'
  <2> SUFFICES ASSUME NEW i \in 1..Len(serialLog'), serialLog'[i].run \in Smoke
               PROVE  Printed(serialLog[i].run, serialLog[i].token)'
    BY DEF LineInv
  <2>1. serialLog'[i].token \in Token
    <3>1. serialLog'[i] \in Line
      BY <1>3, ElementOfSeq
    <3> QED  BY <3>1 DEF Line
  <2>2. CASE i \in 1..Len(serialLog) /\ serialLog'[i] = serialLog[i]
    <3>1. Printed(serialLog[i].run, serialLog[i].token)
      BY <2>2 DEF TestInv, LineInv
    <3>2. serialLog[i].run \in Smoke /\ serialLog[i].token \in Token
      BY <2>1, <2>2
    <3>3. PICK q \in Smoke, token \in Token :
             serialLog'[i].run = q /\ serialLog'[i].token = token /\ Printed(q, token)
      BY <2>2, <3>1, <3>2
    <3>4. Printed(q, token)'
      BY <1>3, <3>3, Zenon
    <3> QED  BY <3>3, <3>4 DEF Printed
  <2>3. CASE GuestWrites(r)
    <3>1. \/ i \in 1..Len(serialLog) /\ serialLog'[i] = serialLog[i]
          \/ serialLog'[i].run = r /\ Printed(r, serialLog[i].token)'
      BY <1>1, <2>3, PrintsLines DEF GuestWrites
    <3> QED  BY <2>2, <3>1 DEF Printed
  <2>4. CASE StartGuest(r)
    <3>1. serialLog' = <<>> \/ serialLog' = serialLog
      BY <2>4 DEF StartGuest
    <3> QED  BY <2>2, <3>1
  <2>5. CASE GuestSilent
    BY <2>2, <2>5 DEF GuestSilent
  <2> QED  BY <1>1, <2>3, <2>4, <2>5
<1>7. OwnLogInv'
  <2> SUFFICES ASSUME NEW q \in Smoke, lane[q] = "capture", Watched(q)', q \notin met'
               PROVE  /\ \A p \in Smoke \ {q} : lane[p] = "capture" => ~Started(p)'
                      /\ \A i \in 1..Len(serialLog') : serialLog'[i].run = q
    BY <1>1 DEF OwnLogInv
  <2>1. q \notin met
    BY <1>3
  <2>2. CASE Watched(q)
    <3>1. /\ \A p \in Smoke \ {q} : lane[p] = "capture" => ~Started(p)
          /\ \A i \in 1..Len(serialLog) : serialLog[i].run = q
      BY <2>1, <2>2 DEF TestInv, OwnLogInv
    <3>2. lane[r] # "capture" \/ r = q
      BY <1>2, <3>1
    <3>3. \A p \in Smoke \ {q} : lane[p] = "capture" => ~Started(p)'
      BY <1>1, <3>1, <3>2 DEF Started
    <3>4. \A i \in 1..Len(serialLog') : serialLog'[i].run = q
      <4>1. CASE StartGuest(r)
        <5>1. serialLog' = <<>> \/ serialLog' = serialLog
          BY <4>1 DEF StartGuest
        <5> QED  BY <3>1, <5>1
      <4>2. CASE GuestWrites(r)
        BY <1>1, <3>1, <3>2, <4>2, PrintsLines DEF GuestWrites
      <4>3. CASE GuestSilent
        BY <3>1, <4>3 DEF GuestSilent
      <4> QED  BY <1>1, <4>1, <4>2, <4>3
    <3> QED  BY <3>3, <3>4
  <2>3. CASE ~Watched(q)
    <3>1. r = q /\ guest[r] = "starting"
      BY <1>1, <2>3 DEF Watched, Alive, Live
    <3>2. guest'[r] # "off"
      BY <1>1, <2>3, <3>1 DEF Watched, Alive
    <3>3. ~GuestStops(r)
      BY <1>1, <3>2 DEF GuestStops, Becomes, Kinds
    <3>4. StartGuest(r)
      BY <3>1, <3>3 DEF GuestStep, StartGuest, BootGuest, ReadUser, ReadPassword, ReadCommand,
                        OperatorRuns, TestPrints, TestEnds, ReadsLine, Guest
    <3>5. {p \in Smoke \ {r} : lane[p] = lane[r] /\ Started(p)} = {} /\ serialLog' = <<>>
      BY <3>1, <3>4 DEF StartGuest
    <3>6. \A p \in Smoke \ {q} : lane[p] = "capture" => ~Started(p)'
      BY <1>1, <3>1, <3>5 DEF Started
    <3> QED  BY <3>5, <3>6
  <2> QED  BY <2>2, <2>3
<1>8. VouchInv'
  <2>1. \A q \in Smoke : Vouched(q) => Vouched(q)'
    BY <1>1, <1>3 DEF Vouched, Token
  <2> QED  BY <1>1, <2>1 DEF TestInv, VouchInv
<1>9. EvidenceInv'
  BY <1>1 DEF TestInv, EvidenceInv
<1> QED  BY <1>4, <1>5, <1>6, <1>7, <1>8, <1>9 DEF TestInv

(***************************************************************************)
(* The runs.                                                               *)
(***************************************************************************)

LEMMA RunFrame ==
    ASSUME Records, Kinds, NEW r \in Smoke, RunStep(r)
    PROVE  /\ UNCHANGED <<lane, console, serialLog, met>>
           /\ \A q \in Smoke \ {r} : runner'[q] = runner[q] /\ guest'[q] = guest[q]
<1>1. UNCHANGED lane /\ \E to : runner' = [runner EXCEPT ![r] = to]
  BY DEF RunStep, TakeLock, LockRefused, Connect, RunRaises, LoginLane, Receive, React,
         TimesOut, RecordTranscript, CaptureLane, WatchLog, WatchTimesOut, ValidateLog,
         QuitGuest, Reap, ReapAfterError, ReapFails, Report, KillRun, Goes, Kinds
<1>2. /\ UNCHANGED <<console, serialLog, met>>
      /\ guest' = guest \/ \E to : guest' = [guest EXCEPT ![r] = to]
  BY DEF RunStep, TakeLock, LockRefused, Connect, RunRaises, LoginLane, Receive, React,
         TimesOut, RecordTranscript, CaptureLane, WatchLog, WatchTimesOut, ValidateLog,
         QuitGuest, Reap, ReapAfterError, ReapFails, Report, KillRun, GuestsAlone, guestVars,
         Becomes
<1> QED  BY <1>1, <1>2 DEF Kinds

LEMMA StatusIsVerdict ==
    ASSUME NEW found
    PROVE  Status(found) \in Verdict /\ (Status(found) = "passed" => found.valid)
  BY DEF Status, Verdict

LEMMA HeardIsPrinted ==
    ASSUME Records, NEW r \in Smoke, NEW token, Contains(Heard(r), token)
    PROVE  Printed(r, token)
<1>1. /\ console[r] \in Seq(Token) /\ Len(console[r]) \in Nat
      /\ heard[r] \in Nat /\ heard[r] <= Len(console[r])
  BY LenProperties DEF Records
<1>2. /\ Len(Heard(r)) = heard[r]
      /\ \A i \in 1..heard[r] : Heard(r)[i] = console[r][i]
  BY <1>1 DEF Heard
<1>3. PICK i \in 1..heard[r] : Heard(r)[i] = token
  BY <1>2 DEF Contains
<1> QED  BY <1>1, <1>2, <1>3 DEF Printed

LEMMA RunRecords ==
    ASSUME Records, Kinds, NEW r \in Smoke, RunStep(r)
    PROVE  Records'
<1>1. UNCHANGED <<console, serialLog, met>>
  BY RunFrame
<1>2. input' \in [Smoke -> Seq(Sent)]
  <2>1. CASE TakeLock(r) \/ QuitGuest(r)
    BY <2>1 DEF TakeLock, QuitGuest, Records
  <2>2. CASE React(r)
    <3>1. input' = input \/ \E line \in Sent : Send(r, line)
      BY <2>2 DEF React, Sent
    <3>2. ASSUME NEW line \in Sent, Send(r, line)
          PROVE  input' \in [Smoke -> Seq(Sent)]
      <4>1. input[r] \in Seq(Sent)
        BY DEF Records
      <4>2. Append(input[r], line) \in Seq(Sent)
        BY <4>1
      <4> QED  BY <3>2, <4>2 DEF Send, Records
    <3> QED  BY <3>1, <3>2 DEF Records
  <2>3. CASE ~(TakeLock(r) \/ QuitGuest(r) \/ React(r))
    BY <2>3 DEF RunStep, LockRefused, Connect, RunRaises, LoginLane, Receive, TimesOut,
         RecordTranscript, CaptureLane, WatchLog, WatchTimesOut, ValidateLog, Reap,
         ReapAfterError, ReapFails, Report, KillRun, GuestsAlone, guestVars, Records
  <2> QED  BY <2>1, <2>2, <2>3
<1>3. heard' \in [Smoke -> Nat] /\ \A q \in Smoke : heard'[q] <= Len(console'[q])
  <2>1. CASE Receive(r)
    <3>1. PICK n \in heard[r] + 1 .. Len(console[r]) : heard' = [heard EXCEPT ![r] = n]
      BY <2>1 DEF Receive
    <3>2. heard[r] \in Nat /\ Len(console[r]) \in Nat
      BY LenProperties DEF Records
    <3> QED  BY <1>1, <3>1, <3>2 DEF Records
  <2>2. CASE ~Receive(r)
    <3>1. UNCHANGED heard
      BY <2>2 DEF RunStep, TakeLock, LockRefused, Connect, RunRaises, LoginLane, React,
           TimesOut, RecordTranscript, CaptureLane, WatchLog, WatchTimesOut, ValidateLog,
           QuitGuest, Reap, ReapAfterError, ReapFails, Report, KillRun
    <3> QED  BY <1>1, <3>1 DEF Records
  <2> QED  BY <2>1, <2>2
<1>4. said' \in [Smoke -> Finding]
  <2>1. said[r] \in Finding
    BY DEF Records
  <2>2. CASE React(r)
    <3>1. \E field \in {"login", "password", "shell", "failed", "marker"} :
             said' = [said EXCEPT ![r][field] = TRUE]
      BY <2>2 DEF React
    <3>2. \A field \in {"login", "password", "shell", "failed", "marker"} :
             [said[r] EXCEPT ![field] = TRUE] \in Finding
      BY <2>1 DEF Finding
    <3> QED  BY <3>1, <3>2 DEF Records
  <2>3. CASE RecordTranscript(r) \/ ValidateLog(r) \/ WatchLog(r)
    <3>1. \A v \in BOOLEAN : /\ [said[r] EXCEPT !.valid = v] \in Finding
                             /\ [said[r] EXCEPT !.marker = v] \in Finding
      BY <2>1 DEF Finding
    <3>2. (said[r].marker /\ Contains(Heard(r), "passed")) \in BOOLEAN
          /\ LastLine(serialLog) \in BOOLEAN
      BY DEF LastLine
    <3>3. \/ \E v \in BOOLEAN : said' = [said EXCEPT ![r].valid = v]
          \/ said' = [said EXCEPT ![r].marker = TRUE]
      BY <2>3, <3>2 DEF RecordTranscript, ValidateLog, WatchLog
    <3> QED  BY <3>1, <3>3 DEF Records
  <2>4. CASE Report(r)
    <3>1. [said[r] EXCEPT !.status = Status(said[r])] \in Finding
      BY <2>1, StatusIsVerdict DEF Finding
    <3> QED  BY <2>4, <3>1 DEF Report, Records
  <2>5. CASE ~(React(r) \/ RecordTranscript(r) \/ ValidateLog(r) \/ WatchLog(r) \/ Report(r))
    <3>1. UNCHANGED said
      BY <2>5 DEF RunStep, TakeLock, LockRefused, Connect, RunRaises, LoginLane, Receive,
           TimesOut, CaptureLane, WatchTimesOut, QuitGuest, Reap, ReapAfterError, ReapFails,
           KillRun
    <3> QED  BY <3>1 DEF Records
  <2> QED  BY <2>2, <2>3, <2>4, <2>5
<1>5. /\ transcript' \in Smoke \cup {Free}
      /\ evidence' \in [run: Smoke \cup {Free}, status: Verdict, transcript: Smoke \cup {Free}]
  <2>1. CASE RecordTranscript(r)
    BY <2>1 DEF RecordTranscript, Records
  <2>2. CASE Report(r)
    <3>1. Status(said[r]) \in Verdict
      BY StatusIsVerdict
    <3> QED  BY <2>2, <3>1 DEF Report, Records
  <2>3. CASE ~(RecordTranscript(r) \/ Report(r))
    <3>1. UNCHANGED <<transcript, evidence>>
      BY <2>3 DEF RunStep, TakeLock, LockRefused, Connect, RunRaises, LoginLane, Receive,
           React, TimesOut, CaptureLane, WatchLog, WatchTimesOut, ValidateLog, QuitGuest, Reap,
           ReapAfterError, ReapFails, KillRun, Same
    <3> QED  BY <3>1 DEF Records
  <2> QED  BY <2>1, <2>2, <2>3
<1> QED  BY <1>1, <1>2, <1>3, <1>4, <1>5 DEF Records

\* Where a run gets to, and from where.
LEMMA RunPlaces ==
    ASSUME Kinds, RoleInv, NEW r \in Smoke, RunStep(r)
    PROVE  /\ runner'[r] \in Waiting \cup {"record"} => lane[r] = "login"
           /\ runner'[r] \in {"watch", "validate"} => lane[r] = "capture"
           /\ Watched(r)' => Watched(r)
           /\ lane[r] = "login" /\ runner'[r] \in {"quit", "reap", "report"} =>
                 RecordTranscript(r) \/ runner[r] \in {"quit", "reap", "report"}
<1> USE DEF Goes, Waiting
<1>1. CASE TakeLock(r)
  BY <1>1 DEF TakeLock, Kinds, Watched, Alive, Becomes
<1>2. CASE LockRefused(r) \/ RunRaises(r)
  BY <1>2 DEF LockRefused, RunRaises, Kinds, Watched
<1>3. CASE Connect(r)
  BY <1>3 DEF Connect, Answers, Kinds, Watched, Lanes
<1>4. CASE Receive(r)
  BY <1>4 DEF Receive, Kinds, RoleInv, Watched
<1>5. CASE React(r)
  <2>1. runner[r] \in Waiting /\ runner'[r] \in Waiting \cup {"record"}
    BY <1>5 DEF React, Kinds
  <2> QED  BY <2>1 DEF RoleInv, Watched
<1>6. CASE TimesOut(r) \/ RecordTranscript(r)
  BY <1>6 DEF TimesOut, RecordTranscript, Kinds, RoleInv, Watched
<1>7. CASE CaptureLane(r)
  BY <1>7 DEF CaptureLane, WatchLog, WatchTimesOut, ValidateLog, Kinds, RoleInv, Watched
<1>8. CASE QuitGuest(r) \/ Reap(r) \/ ReapAfterError(r) \/ ReapFails(r) \/ Report(r)
  BY <1>8 DEF QuitGuest, Reap, ReapAfterError, ReapFails, Report, Kinds, Watched
<1>9. CASE KillRun(r)
  BY <1>9 DEF KillRun, Kinds, Watched
<1> QED  BY <1>1, <1>2, <1>3, <1>4, <1>5, <1>6, <1>7, <1>8, <1>9 DEF RunStep, LoginLane

\* Whoever has a lane's lock is the only one at work there.
LEMMA LaneIsOwn ==
    ASSUME SmokeInv, NEW q \in Smoke, NEW r \in Smoke, lane[q] = lane[r],
           runner[q] \notin WithoutLock, runner[r] \notin WithoutLock
    PROVE  q = r
  BY DEF SmokeInv, LockInv

LEMMA OwnLogKept ==
    ASSUME TestInv, NEW r \in Smoke, RunStep(r)
    PROVE  OwnLogInv'
<1>1. /\ UNCHANGED <<lane, serialLog, met>> /\ SmokeInv /\ Kinds /\ RoleInv /\ Records
      /\ \A q \in Smoke \ {r} : runner'[q] = runner[q] /\ guest'[q] = guest[q]
  BY RunFrame DEF TestInv, SmokeInv
<1> SUFFICES ASSUME NEW q \in Smoke, lane[q] = "capture", Watched(q)', q \notin met
             PROVE  /\ \A p \in Smoke \ {q} : lane[p] = "capture" => ~Started(p)'
                    /\ \A i \in 1..Len(serialLog) : serialLog[i].run = q
  BY <1>1 DEF OwnLogInv
<1>2. Watched(q)
  <2>1. CASE q = r
    BY <1>1, <2>1, RunPlaces
  <2>2. CASE q # r
    BY <1>1, <2>2 DEF Watched, Alive
  <2> QED  BY <2>1, <2>2
<1>3. /\ \A p \in Smoke \ {q} : lane[p] = "capture" => ~Started(p)
      /\ \A i \in 1..Len(serialLog) : serialLog[i].run = q
  BY <1>2 DEF TestInv, OwnLogInv
<1>4. ASSUME NEW p \in Smoke \ {q}, lane[p] = "capture"
      PROVE  ~Started(p)'
  <2>1. CASE p # r
    BY <1>1, <1>3, <1>4, <2>1 DEF Started
  <2>2. CASE p = r /\ ~Takes(r)
    <3>1. guest' \in {guest, [guest EXCEPT ![r] = "off"]}
      BY <1>1, <2>2, RunMoves DEF Waits, Keeps, Releases
    <3> QED  BY <1>1, <1>3, <1>4, <2>2, <3>1 DEF Started, Kinds
  <2>3. CASE p = r /\ Takes(r)
    <3>1. lock["capture"] = Free /\ lock["capture"] = q
      BY <1>1, <1>2, <1>4, <2>3 DEF Takes, SmokeInv, LockInv, Watched, WithoutLock
    <3> QED  BY <3>1, SmokeAssumption
  <2> QED  BY <2>1, <2>2, <2>3
<1> QED  BY <1>3, <1>4

LEMMA VouchKept ==
    ASSUME TestInv, NEW r \in Smoke, RunStep(r)
    PROVE  VouchInv'
<1>1. /\ UNCHANGED <<lane, console, serialLog, met>> /\ SmokeInv /\ Kinds /\ RoleInv
      /\ Records
  BY RunFrame DEF TestInv, SmokeInv
<1>2. \A q \in Smoke : Vouched(q)' <=> Vouched(q)
  BY <1>1 DEF Vouched, Printed
<1>3. \A q \in Smoke : said[q].valid \/ said[q].status = "passed" => Vouched(q)
  BY DEF TestInv, VouchInv
<1> SUFFICES ASSUME NEW q \in Smoke, said'[q].valid \/ said'[q].status = "passed"
             PROVE  Vouched(q)
  BY <1>2 DEF VouchInv
<1>4. said[r] \in Finding
  BY <1>1 DEF Records
<1>5. CASE React(r)
  <2>1. \E field \in {"login", "password", "shell", "failed", "marker"} :
           said' = [said EXCEPT ![r][field] = TRUE]
    BY <1>5 DEF React
  <2>2. \A field \in {"login", "password", "shell", "failed", "marker"} :
           LET now == [said[r] EXCEPT ![field] = TRUE]
           IN  now.valid = said[r].valid /\ now.status = said[r].status
    BY <1>4 DEF Finding
  <2> QED  BY <1>1, <1>3, <2>1, <2>2 DEF Records
<1>6. CASE RecordTranscript(r)
  <2>1. said' = [said EXCEPT ![r].valid = said[r].marker /\ Contains(Heard(r), "passed")]
    BY <1>6 DEF RecordTranscript
  <2>2. Contains(Heard(r), "passed") => Vouched(r)
    BY <1>1, HeardIsPrinted DEF Vouched
  <2> DEFINE v == said[r].marker /\ Contains(Heard(r), "passed")
  <2>3. said'[r] = [said[r] EXCEPT !.valid = v] /\ \A p \in Smoke \ {r} : said'[p] = said[p]
    BY <1>1, <2>1 DEF Records
  <2>4. said'[r].valid = v /\ said'[r].status = said[r].status
    BY <1>4, <2>3 DEF Finding
  <2> QED  BY <1>3, <2>2, <2>3, <2>4
<1>7. CASE ValidateLog(r)
  <2>1. said' = [said EXCEPT ![r].valid = LastLine(serialLog)] /\ runner[r] = "validate"
    BY <1>7 DEF ValidateLog, Goes
  <2>2. said'[r] = [said[r] EXCEPT !.valid = LastLine(serialLog)]
        /\ \A p \in Smoke \ {r} : said'[p] = said[p]
    BY <1>1, <2>1 DEF Records
  <2>3. said'[r].valid = LastLine(serialLog) /\ said'[r].status = said[r].status
    BY <1>4, <2>2 DEF Finding
  <2>4. ASSUME LastLine(serialLog)
        PROVE  Vouched(r)
    <3>1. lane[r] = "capture"
      BY <1>1, <2>1 DEF RoleInv
    <3>2. PICK i \in 1..Len(serialLog) : serialLog[i].token = "passed"
      BY <2>4 DEF LastLine
    <3>3. CASE r \notin met
      <4>1. serialLog[i].run = r
        BY <2>1, <3>1, <3>3 DEF TestInv, OwnLogInv, Watched
      <4>2. Printed(serialLog[i].run, serialLog[i].token)
        BY <4>1 DEF TestInv, LineInv
      <4> QED  BY <3>2, <4>1, <4>2 DEF Vouched
    <3> QED  BY <3>1, <3>3 DEF Vouched
  <2> QED  BY <1>3, <2>2, <2>3, <2>4
<1>8. CASE WatchLog(r)
  <2>1. said' = [said EXCEPT ![r].marker = TRUE]
    BY <1>8 DEF WatchLog
  <2>2. said'[r] = [said[r] EXCEPT !.marker = TRUE]
        /\ \A p \in Smoke \ {r} : said'[p] = said[p]
    BY <1>1, <2>1 DEF Records
  <2>3. said'[r].valid = said[r].valid /\ said'[r].status = said[r].status
    BY <1>4, <2>2 DEF Finding
  <2> QED  BY <1>3, <2>2, <2>3
<1>9. CASE Report(r)
  <2>1. said' = [said EXCEPT ![r].status = Status(said[r])]
    BY <1>9 DEF Report
  <2>2. said'[r] = [said[r] EXCEPT !.status = Status(said[r])]
        /\ \A p \in Smoke \ {r} : said'[p] = said[p]
    BY <1>1, <2>1 DEF Records
  <2>3. said'[r].valid = said[r].valid /\ said'[r].status = Status(said[r])
    BY <1>4, <2>2 DEF Finding
  <2> QED  BY <1>3, <2>2, <2>3, StatusIsVerdict
<1>10. CASE ~(React(r) \/ RecordTranscript(r) \/ ValidateLog(r) \/ WatchLog(r) \/ Report(r))
  <2>1. UNCHANGED said
    BY <1>10 DEF RunStep, TakeLock, LockRefused, Connect, RunRaises, LoginLane, Receive,
         TimesOut, CaptureLane, WatchTimesOut, QuitGuest, Reap, ReapAfterError, ReapFails,
         KillRun
  <2> QED  BY <1>3, <2>1
<1> QED  BY <1>5, <1>6, <1>7, <1>8, <1>9, <1>10

LEMMA NotesOwn ==
    ASSUME Records, NEW r \in Smoke, RunStep(r), NEW q \in Smoke \ {r}
    PROVE  said'[q] = said[q]
  BY DEF RunStep, TakeLock, LockRefused, Connect, RunRaises, LoginLane, Receive, React,
         TimesOut, RecordTranscript, CaptureLane, WatchLog, WatchTimesOut, ValidateLog,
         QuitGuest, Reap, ReapAfterError, ReapFails, Report, KillRun, Records

LEMMA EvidenceKept ==
    ASSUME TestInv, NEW r \in Smoke, RunStep(r)
    PROVE  EvidenceInv'
<1>1. /\ UNCHANGED lane /\ SmokeInv /\ Kinds /\ RoleInv /\ Records /\ EvidenceInv
      /\ \A q \in Smoke \ {r} : runner'[q] = runner[q]
  BY RunFrame DEF TestInv, SmokeInv
<1>2. runner[r] # "ended"
  BY DEF RunStep, TakeLock, LockRefused, Connect, RunRaises, LoginLane, Receive, React,
         TimesOut, RecordTranscript, CaptureLane, WatchLog, WatchTimesOut, ValidateLog,
         QuitGuest, Reap, ReapAfterError, ReapFails, Report, KillRun, Goes, Waiting, SmokeOver
<1>3. ~RecordTranscript(r) => UNCHANGED transcript
  BY DEF RunStep, TakeLock, LockRefused, Connect, RunRaises, LoginLane, Receive, React,
         TimesOut, CaptureLane, WatchLog, WatchTimesOut, ValidateLog, QuitGuest, Reap,
         ReapAfterError, ReapFails, Report, KillRun, Same
<1>4. ASSUME NEW q \in Smoke, lane[q] = "login", runner'[q] \in {"quit", "reap", "report"}
      PROVE  transcript' = q
  <2>1. CASE RecordTranscript(r)
    <3>1. transcript' = r /\ runner[r] = "record"
      BY <2>1 DEF RecordTranscript, Goes
    <3>2. CASE q # r
      <4>1. runner[q] \notin WithoutLock /\ runner[r] \notin WithoutLock
        BY <1>1, <1>4, <3>1, <3>2 DEF WithoutLock
      <4>2. lane[r] = "login"
        BY <1>1, <3>1 DEF RoleInv
      <4> QED  BY <1>1, <1>4, <3>2, <4>1, <4>2, LaneIsOwn
    <3> QED  BY <3>1, <3>2
  <2>2. CASE ~RecordTranscript(r)
    <3>1. runner[q] \in {"quit", "reap", "report"}
      BY <1>1, <1>4, <2>2, RunPlaces
    <3> QED  BY <1>1, <1>3, <1>4, <2>2, <3>1 DEF EvidenceInv
  <2> QED  BY <2>1, <2>2
<1>5. CASE Report(r) /\ lane[r] = "login"
  <2>1. /\ runner[r] = "report" /\ runner' = [runner EXCEPT ![r] = "ended"]
        /\ said' = [said EXCEPT ![r].status = Status(said[r])]
        /\ evidence' = [run |-> r, status |-> Status(said[r]), transcript |-> transcript]
    BY <1>5 DEF Report, Goes
  <2>2. transcript = r /\ said'[r].status = Status(said[r]) /\ runner'[r] = "ended"
    BY <1>1, <1>5, <2>1 DEF EvidenceInv, Records, Finding, Kinds
  <2> QED  BY <1>1, <1>4, <2>1, <2>2 DEF EvidenceInv
<1>6. CASE ~(Report(r) /\ lane[r] = "login")
  <2>1. UNCHANGED evidence
    BY <1>6 DEF RunStep, TakeLock, LockRefused, Connect, RunRaises, LoginLane, Receive,
         React, TimesOut, RecordTranscript, CaptureLane, WatchLog, WatchTimesOut, ValidateLog,
         QuitGuest, Reap, ReapAfterError, ReapFails, Report, KillRun, Same
  <2>2. ASSUME evidence.run # Free
        PROVE  /\ runner'[evidence.run] = "ended"
               /\ evidence.status = said'[evidence.run].status
    <3>1. evidence.run \in Smoke /\ evidence.run # r
      BY <1>1, <1>2, <2>2 DEF EvidenceInv, Records
    <3>2. said'[evidence.run] = said[evidence.run]
      BY <1>1, <3>1, NotesOwn
    <3> QED  BY <1>1, <2>2, <3>1, <3>2 DEF EvidenceInv
  <2> QED  BY <1>1, <1>4, <2>1, <2>2 DEF EvidenceInv
<1> QED  BY <1>5, <1>6

LEMMA StepTest == ASSUME TestInv, [SmokeNext]_smokeVars PROVE TestInv'
<1>1. SmokeInv' /\ Records /\ Kinds /\ RoleInv
  BY StepSmoke DEF TestInv, SmokeInv
<1>2. ASSUME NEW r \in Smoke, RunStep(r)
      PROVE  TestInv'
  <2>1. /\ UNCHANGED <<lane, console, serialLog>>
        /\ \A q \in Smoke \ {r} : runner'[q] = runner[q]
    BY <1>1, <1>2, RunFrame
  <2>2. RoleInv'
    <3>1. /\ runner'[r] \in Waiting \cup {"record"} => lane[r] = "login"
          /\ runner'[r] \in {"watch", "validate"} => lane[r] = "capture"
      BY <1>1, <1>2, RunPlaces
    <3> QED  BY <1>1, <2>1, <3>1 DEF RoleInv
  <2>3. LineInv'
    BY <2>1 DEF TestInv, LineInv, Printed
  <2> QED  BY <1>1, <1>2, <2>2, <2>3, RunRecords, OwnLogKept, VouchKept, EvidenceKept DEF TestInv
<1>3. CASE UNCHANGED smokeVars
  <2>1. Records' /\ RoleInv' /\ LineInv'
    BY <1>3 DEF smokeVars, TestInv, Records, RoleInv, LineInv, Printed
  <2>2. OwnLogInv' /\ VouchInv' /\ EvidenceInv'
    BY <1>3 DEF smokeVars, TestInv, OwnLogInv, VouchInv, EvidenceInv, Watched, Alive, Started,
                Vouched, Printed
  <2> QED  BY <1>1, <2>1, <2>2 DEF TestInv
<1> QED  BY <1>1, <1>2, <1>3, GuestKeeps DEF SmokeNext

LEMMA TestAlways == SmokeSpec => []TestInv
  BY InitTest, StepTest, PTL DEF SmokeSpec

\* Every variable keeps its type, and no run has heard what was not printed.
THEOREM SmokeTypes == SmokeSpec => []SmokeTypeOK
<1>1. TestInv => SmokeTypeOK
  <2> SUFFICES ASSUME TestInv
               PROVE  SmokeTypeOK
    OBVIOUS
  <2>1. Records /\ Kinds
    BY DEF TestInv, SmokeInv
  <2>2. ASSUME NEW r \in Smoke
        PROVE  /\ console[r] \in Seq(Token) /\ heard[r] \in 0..Len(console[r])
               /\ input[r] \in Seq({"user", "password", "command"})
    <3>1. console[r] \in Seq(Token) /\ Len(console[r]) \in Nat /\ heard[r] \in Nat
      BY <2>1, LenProperties DEF Records
    <3> QED  BY <2>1, <3>1 DEF Records, Sent
  <2> QED  BY <2>1, <2>2 DEF SmokeTypeOK, Records, Kinds
<1> QED  BY <1>1, TestAlways, PTL

\* A run that reports "passed" saw the test pass in its own guest, at any
\* number of runs: what an earlier run left in the log, another guest's line
\* and another run's transcript do not count, unless a guest outlived its run.
THEOREM PassedWasSeen == SmokeSpec => []PassedInTheGuest
<1>1. TestInv => PassedInTheGuest
  <2> SUFFICES ASSUME TestInv
               PROVE  PassedInTheGuest
    OBVIOUS
  <2>1. \A r \in Smoke : Vouched(r) =>
           Contains(console[r], "passed") \/ (lane[r] = "capture" /\ r \in met)
    BY DEF Vouched, Printed, Contains
  <2> QED  BY <2>1 DEF TestInv, VouchInv, EvidenceInv, PassedInTheGuest
<1> QED  BY <1>1, TestAlways, PTL
=============================================================================
