------------------------- MODULE CommandLineProofs -------------------------
(***************************************************************************)
(* What the records and the exit code of a command tell of the drive, for  *)
(* any number of progress records and of failures of the log.              *)
(***************************************************************************)
EXTENDS MCVerifiedImage, DownloadProofs, TLAPS

\* Where the command is, or will be when it has said what it is saying.
Heading == IF at = "say" THEN saying.then ELSE at

Touched == child \/ drive # "untouched"
Done == drive = "whole" /\ ~child

IsSeq(s) == \E S : s \in Seq(S)

AnnouncedToAll ==
    /\ command.logs => Announced(log)
    /\ command.mode = "jsonl" => Announced(stream)

\* The boundary is announced by the last record before the controller runs.
Announcing ==
    at = "say" /\ saying.then = "controller" =>
        \/ saying.records = <<"resolution", "write_boundary">>
        \/ /\ saying.records = <<"write_boundary">>
           /\ saying.logged /\ command.logs => Announced(log)

AnnouncedInv ==
    /\ IsSeq(log) /\ IsSeq(stream)
    /\ Announcing
    /\ Heading \in {"open", "write", "settle"} \/ at = "controller" \/ Touched
       => AnnouncedToAll

\* Which commands come where, and from where on the drive may be touched.
HeadingInv ==
    /\ at = "say" => saying.then \notin {"say", "parse"}
    /\ Heading \in {"acknowledge", "controller", "open", "write", "settle"} => Executes
    /\ Heading \in {"answered", "planned"} => ~Executes
    /\ Touched => Executes /\ Heading \in {"write", "settle", "ended"}
    /\ Heading = "settle" => Done

\* What an exit code means, from the moment it is decided.
Tells(result) ==
    /\ Executes /\ result = Success => Done
    /\ result \in 2..6 => ~Touched

CodeInv ==
    /\ sequence \in Nat
    /\ at = "parse" => sequence = 0
    /\ at = "say" /\ saying.then = "ended" => Tells(saying.code)
    /\ at = "ended" /\ sequence > 0 => Tells(code)

\* What there is to say is a record of the four fields.
Shaped == \E r, t, c, l : saying = [records |-> r, then |-> t, code |-> c, logged |-> l]

\* A record cut short is the last thing in the log only before the first record
\* of a command and when the command is about to end.
LinesInv ==
    /\ ~command.logs => log = <<>>
    /\ \/ ~Torn \/ at \in {"parse", "ended"}
       \/ at = "say" /\ saying.then = "ended"
       \/ at = "say" /\ saying.then = "prepare" /\ ~saying.logged

CommandInv == AnnouncedInv /\ HeadingInv /\ CodeInv /\ Shaped

-----------------------------------------------------------------------------
LEMMA SeqOver ==
    ASSUME NEW S, NEW T, NEW s \in Seq(S), \A i \in 1..Len(s) : s[i] \in T
    PROVE  s \in Seq(T)
OBVIOUS

LEMMA AppendFacts ==
    ASSUME NEW S, NEW s \in Seq(S), NEW e \in S
    PROVE  /\ Append(s, e) \in Seq(S) /\ Len(Append(s, e)) = Len(s) + 1
           /\ \A i \in 1..Len(s) : Append(s, e)[i] = s[i]
           /\ Append(s, e)[Len(s) + 1] = e
OBVIOUS

\* A record that is added hides none, and announces if it is the boundary.
LEMMA Added ==
    ASSUME NEW s, IsSeq(s), NEW e
    PROVE  /\ IsSeq(Append(s, e))
           /\ Announced(s) => Announced(Append(s, e))
           /\ e.kind = "write_boundary" /\ e.line = "own" => Announced(Append(s, e))
<1>1. PICK S : s \in Seq(S)
  BY DEF IsSeq
<1>2. s \in Seq(S \cup {e}) /\ e \in S \cup {e}
  BY <1>1, SeqOver
<1>3. /\ Append(s, e) \in Seq(S \cup {e}) /\ Len(Append(s, e)) = Len(s) + 1
      /\ \A i \in 1..Len(s) : Append(s, e)[i] = s[i]
      /\ Append(s, e)[Len(s) + 1] = e
  BY <1>2, AppendFacts
<1>4. Len(s) \in Nat
  BY <1>1
<1>5. \A i \in 1..Len(s) : i \in 1..Len(Append(s, e))
  BY <1>3, <1>4
<1>6. Len(s) + 1 \in 1..Len(Append(s, e))
  BY <1>3, <1>4
<1>7. QED BY <1>3, <1>5, <1>6, Zenon DEF IsSeq, Announced

LEMMA CommandStart == ASSUME CommandInit PROVE CommandInv
<1> USE DEF CommandInit
<1>1. IsSeq(log) /\ IsSeq(stream)
  <2>1. <<>> \in Seq({}) /\ <<LeftOver>> \in Seq({LeftOver})
    OBVIOUS
  <2>2. QED BY <2>1, Zenon DEF IsSeq
<1>2. at = "parse" /\ ~Touched
  BY DEF Touched
<1>3. Shaped
  BY DEF Shaped, NothingToSay
<1>4. QED
  BY <1>1, <1>2, <1>3
     DEF CommandInv, AnnouncedInv, Announcing, HeadingInv, CodeInv, Heading

-----------------------------------------------------------------------------
(***************************************************************************)
(* The steps of the handlers.  Each ends the command with a verdict that   *)
(* tells the truth, or goes on to a step that it may go on to.             *)
(***************************************************************************)

\* The drive is left alone, and what was recorded stays recorded.
Grows ==
    /\ UNCHANGED <<command, drive, child>>
    /\ sequence' \in Nat /\ IsSeq(log)' /\ IsSeq(stream)'
    /\ Announced(log) => Announced(log)'
    /\ Announced(stream) => Announced(stream)'

Stays == UNCHANGED <<command, sequence, log, stream, reader, faults, drive, child>>

LEMMA StaysGrows == ASSUME CommandInv, Stays PROVE Grows
BY DEF CommandInv, AnnouncedInv, CodeInv, Stays, Grows, IsSeq, Announced

\* The verdict is on its way.
Concludes ==
    /\ at' = "say" /\ saying'.then = "ended"
    /\ Tells(saying'.code)
    /\ Shaped'

\* It goes on to g, perhaps with something to say before.
GoesOn(g) ==
    /\ g \notin {"say", "ended", "parse"}
    /\ Heading' = g
    /\ g \in {"acknowledge", "controller", "open", "write", "settle"} => Executes
    /\ g \in {"answered", "planned"} => ~Executes
    /\ Touched => g \in {"write", "settle"}
    /\ g = "settle" => Done
    /\ g \in {"open", "write", "settle"} => AnnouncedToAll
    /\ g = "controller" => at' = "say" /\ saying'.records = <<"resolution", "write_boundary">>
    /\ at' \in {"say", g}
    /\ Shaped => Shaped'

\* It ends without one.
Aborts ==
    /\ at' = "ended" /\ UNCHANGED saying
    /\ sequence' > 0 => Tells(code')

Outcome == Concludes \/ \E g : GoesOn(g)

\* What a step that leaves the drive alone does not change.
LEMMA GrowsFacts ==
    ASSUME Grows
    PROVE  /\ Touched' <=> Touched
           /\ Done' <=> Done
           /\ Executes' <=> Executes
           /\ AnnouncedToAll => AnnouncedToAll'
           /\ \A result : Tells(result)' <=> Tells(result)
BY Zenon DEF Grows, Touched, Done, Executes, AnnouncedToAll, Tells, Success

LEMMA OutcomeKeeps ==
    ASSUME CommandInv, Grows, at # "ended", Outcome \/ Aborts
    PROVE  CommandInv'
<1> USE DEF CommandInv
<1>1. /\ Touched' <=> Touched
      /\ Done' <=> Done
      /\ Executes' <=> Executes
      /\ AnnouncedToAll => AnnouncedToAll'
      /\ IsSeq(log)' /\ IsSeq(stream)' /\ sequence' \in Nat
  BY GrowsFacts, Zenon DEF Grows
<1>2. \A result : Tells(result)' <=> Tells(result)
  BY GrowsFacts, Zenon
<1>3. CASE Concludes
  <2>1. Heading' = "ended" /\ at' = "say"
    BY <1>3 DEF Concludes, Heading
  <2>2. AnnouncedInv'
    BY <1>1, <1>3, <2>1, Zenon DEF AnnouncedInv, Announcing, Concludes, HeadingInv
  <2>3. HeadingInv'
    BY <1>1, <1>3, <2>1, Zenon DEF HeadingInv, Concludes
  <2>4. CodeInv'
    BY <1>1, <1>2, <1>3, <2>1, Zenon DEF CodeInv, Concludes
  <2>5. QED BY <1>3, <2>2, <2>3, <2>4, Zenon DEF Concludes
<1>4. ASSUME NEW g, GoesOn(g) PROVE CommandInv'
  <2>1. AnnouncedInv'
    BY <1>1, <1>4, Zenon DEF AnnouncedInv, Announcing, GoesOn, Heading
  <2>2. HeadingInv'
    BY <1>1, <1>4, Zenon DEF HeadingInv, GoesOn, Heading
  <2>3. CodeInv'
    BY <1>1, <1>4, Zenon DEF CodeInv, GoesOn, Heading
  <2>4. QED BY <1>4, <2>1, <2>2, <2>3, Zenon DEF GoesOn
<1>5. CASE Aborts
  <2>1. Heading' = "ended" /\ at' = "ended"
    BY <1>5 DEF Aborts, Heading
  <2>2. AnnouncedInv'
    BY <1>1, <2>1, Zenon DEF AnnouncedInv, Announcing, HeadingInv
  <2>3. HeadingInv'
    BY <1>1, <2>1, Zenon DEF HeadingInv
  <2>4. CodeInv'
    <3>1. sequence' > 0 => Tells(code)'
      BY <1>5, <1>2, Zenon DEF Aborts
    <3>2. QED BY <1>1, <2>1, <3>1, Zenon DEF CodeInv
  <2>5. Shaped'
    BY <1>5 DEF Aborts, Shaped
  <2>6. QED BY <2>2, <2>3, <2>4, <2>5
<1>6. QED BY <1>3, <1>4, <1>5, Zenon DEF Outcome

LEMMA StaysKeeps == ASSUME CommandInv, Stays, at # "ended", Outcome PROVE CommandInv'
BY StaysGrows, OutcomeKeeps, Zenon

LEMMA ByConclusion == ASSUME Concludes PROVE Outcome
BY Zenon DEF Outcome

LEMMA ByGoingOn == ASSUME NEW g, GoesOn(g) PROVE Outcome
BY Zenon DEF Outcome

LEMMA SayTo ==
    ASSUME NEW records, NEW g, Say(records, g), g \notin {"say", "ended", "parse"}
    PROVE  /\ Heading' = g /\ at' \in {"say", g}
           /\ Shaped => Shaped'
           /\ records # <<>> => at' = "say" /\ saying'.records = records
BY DEF Say, Heading, Pending, Shaped

\* The steps that anything may go on to as long as the drive is untouched.
Plain == {"prepare", "notfound", "request", "checksum", "signature", "reuse", "load", "hash",
          "verify", "scan", "plan"}

LEMMA SayPlain ==
    ASSUME NEW records, NEW g \in Plain, Say(records, g), ~Touched
    PROVE  Outcome
<1>1. GoesOn(g)
  BY SayTo DEF GoesOn, Plain
<1>2. QED BY <1>1, ByGoingOn, Zenon

LEMMA SayAnswered ==
    ASSUME NEW records, NEW g \in {"answered", "planned"}, Say(records, g), ~Touched,
           ~Executes
    PROVE  Outcome
<1>1. GoesOn(g)
  BY SayTo DEF GoesOn
<1>2. QED BY <1>1, ByGoingOn, Zenon

\* A failure is never the code of success.
LEMMA Failures ==
    /\ InvalidInput # Success /\ SafetyRefusal # Success /\ VerificationFailed # Success
    /\ DownloadFailed # Success /\ OperationFailed # Success /\ InternalError # Success
    /\ Died # Success
    /\ OperationFailed \notin 2..6 /\ InternalError \notin 2..6 /\ Died \notin 2..6
BY DEF InvalidInput, SafetyRefusal, VerificationFailed, DownloadFailed, OperationFailed,
       InternalError, Success, Died

LEMMA FailTells ==
    ASSUME NEW result, FailWith(result), result # Success, ~Touched \/ result \notin 2..6
    PROVE  Outcome
<1>1. Concludes
  BY DEF FailWith, Pending, Concludes, Tells, Shaped
<1>2. QED BY <1>1, ByConclusion, Zenon

LEMMA CompleteTells ==
    ASSUME NEW result, Complete(result), ~Executes /\ ~Touched
    PROVE  Outcome
<1>1. Concludes
  BY DEF Complete, Pending, Concludes, Tells, Shaped
<1>2. QED BY <1>1, ByConclusion, Zenon

\* Before the write, and after the drive was opened.
LEMMA AtUntouched ==
    ASSUME CommandInv, at \notin {"say", "write", "settle", "ended"}
    PROVE  ~Touched
BY DEF CommandInv, HeadingInv, Heading

LEMMA SayPending ==
    ASSUME NEW records, NEW g \in Plain, ~Touched,
           at' = "say" /\ saying' = Pending(records, g, Success)
    PROVE  Outcome
<1>1. GoesOn(g)
  BY DEF GoesOn, Pending, Heading, Plain, Shaped
<1>2. QED BY <1>1, ByGoingOn, Zenon

LEMMA CatalogOutcome ==
    ASSUME NEW records, NEW g, Catalogued(records, g), ~Touched,
           g \in Plain \/ (g = "answered" /\ ~Executes)
    PROVE  Outcome
<1>1. CASE FailWith(DownloadFailed)
  BY <1>1, FailTells, Failures, Zenon
<1>2. CASE at' = "say" /\ saying' = Pending(<<"discovery">>, "notfound", Success)
  BY <1>2, SayPending, Zenon DEF Plain
<1>3. CASE Say(<<"discovery">> \o records, g)
  BY <1>3, SayPlain, SayAnswered, Zenon
<1>4. QED BY <1>1, <1>2, <1>3, Zenon DEF Catalogued

LEMMA AnswersKeep == ASSUME CommandInv, Answers PROVE CommandInv'
<1>1. /\ Stays /\ at \in {"prepare", "notfound", "answered"} /\ ~Touched
      /\ at = "answered" => ~Executes
  <2>1. Stays /\ at \in {"prepare", "notfound", "answered"}
    BY DEF Answers, Versions, Devices, Status, Source, Download, NotFound, Answer, For,
           Handler, Stays
  <2>2. QED BY <2>1, AtUntouched DEF CommandInv, HeadingInv, Heading
<1> SUFFICES Outcome
  BY <1>1, StaysKeeps
<1>2. CASE Versions
  <2>1. ~Executes
    BY <1>2 DEF Versions, For, Executes
  <2>2. \E records : Catalogued(records, "answered")
    BY <1>2, Zenon DEF Versions
  <2>3. QED BY <1>1, <2>1, <2>2, CatalogOutcome, Zenon
<1>3. CASE Devices
  <2>1. ~Executes
    BY <1>3 DEF Devices, For, Executes
  <2>2. FailWith(InvalidInput) \/ Say(<<"discovery">>, "answered")
        \/ Say(<<"discovery">>, "notfound")
    BY <1>3, Zenon DEF Devices
  <2>3. QED BY <1>1, <2>1, <2>2, FailTells, Failures, SayAnswered, SayPlain, Zenon DEF Plain
<1>4. CASE Status
  <2>1. ~Executes
    BY <1>4 DEF Status, For, Executes
  <2>2. FailWith(InvalidInput) \/ Say(<<"discovery">>, "answered")
    BY <1>4, Zenon DEF Status
  <2>3. QED BY <1>1, <2>1, <2>2, FailTells, Failures, SayAnswered, Zenon
<1>5. CASE Source
  <2>1. ~Executes
    BY <1>5 DEF Source, For, Executes
  <2>2. Complete(Success) \/ Complete(InvalidInput) \/ Say(<<"resolution">>, "answered")
    BY <1>5, Zenon DEF Source
  <2>3. QED BY <1>1, <2>1, <2>2, CompleteTells, SayAnswered, Zenon
<1>6. CASE Download
  BY <1>1, <1>6, CatalogOutcome, Zenon DEF Download, Plain
<1>7. CASE NotFound
  BY <1>1, <1>7, FailTells, Failures, Zenon DEF NotFound
<1>8. CASE Answer
  <2>1. at = "answered"
    BY <1>8, Zenon DEF Answer, Handler
  <2>2. QED BY <1>1, <1>8, <2>1, CompleteTells, Zenon DEF Answer
<1>9. QED BY <1>2, <1>3, <1>4, <1>5, <1>6, <1>7, <1>8, Zenon DEF Answers

LEMMA DownloadsKeep == ASSUME CommandInv, Downloads PROVE CommandInv'
<1>1. Stays /\ at \in {"request", "checksum", "signature", "reuse", "load", "hash", "verify"} /\ ~Touched
  <2>1. Stays /\ at \in {"request", "checksum", "signature", "reuse", "load", "hash", "verify"}
    BY DEF Downloads, Request, RetrieveChecksum, RetrieveSignature, Reuse, LoadImage, HashImage, VerifyImage, Handler, Stays
  <2>2. QED BY <2>1, AtUntouched
<1> SUFFICES Outcome
  BY <1>1, StaysKeeps
<1>2. CASE Request \/ RetrieveChecksum \/ RetrieveSignature
  BY <1>1, <1>2, FailTells, Failures, SayPlain, Zenon
  DEF Request, RetrieveChecksum, RetrieveSignature, Plain
<1>3. CASE Reuse \/ LoadImage \/ HashImage
  BY <1>1, <1>3, FailTells, Failures, SayPlain, Zenon DEF Reuse, LoadImage, HashImage, Plain
<1>4. CASE VerifyImage
  <2>1. CASE FailWith(VerificationFailed) \/ FailWith(InternalError)
    BY <1>1, <2>1, FailTells, Failures, Zenon
  <2>2. CASE \E records : \/ Say(records, "scan")
                          \/ Say(records, "answered") /\ ~Executes
    BY <1>1, <2>2, SayPlain, SayAnswered, Zenon DEF Plain
  <2>3. QED BY <1>4, <2>1, <2>2 DEF VerifyImage
<1>5. QED BY <1>2, <1>3, <1>4, Zenon DEF Downloads

LEMMA PreparesKeep == ASSUME CommandInv, Prepares PROVE CommandInv'
<1>1. /\ Stays /\ at \in {"prepare", "scan", "plan", "planned"} /\ ~Touched
      /\ at = "planned" => ~Executes
  <2>1. Stays /\ at \in {"prepare", "scan", "plan", "planned"}
    BY DEF Prepares, LocalImage, CatalogImage, LiveSource, Scan, PlanOperation, Planned,
           For, Handler, Stays
  <2>2. QED BY <2>1, AtUntouched DEF CommandInv, HeadingInv, Heading
<1> SUFFICES Outcome
  BY <1>1, StaysKeeps
<1>2. CASE LocalImage \/ LiveSource \/ Scan
  BY <1>1, <1>2, FailTells, Failures, SayPlain, Zenon DEF LocalImage, LiveSource, Scan, Plain
<1>3. CASE CatalogImage
  <2>1. \E records : Catalogued(records, "request") \/ Catalogued(records, "scan")
    BY <1>3 DEF CatalogImage
  <2>2. QED BY <1>1, <2>1, CatalogOutcome, Zenon DEF Plain
<1>4. CASE PlanOperation
  <2>1. CASE \E result \in {InvalidInput, SafetyRefusal, InternalError} : FailWith(result)
    BY <1>1, <2>1, FailTells, Failures, Zenon
  <2>2. ASSUME NEW records, Say(records, "acknowledge"), Executes PROVE Outcome
    <3>1. GoesOn("acknowledge")
      BY <1>1, <2>2, SayTo DEF GoesOn
    <3>2. QED BY <3>1, ByGoingOn, Zenon
  <2>3. CASE \E records : Say(records, "planned") /\ ~Executes
    BY <1>1, <2>3, SayAnswered, Zenon
  <2>4. \/ \E result \in {InvalidInput, SafetyRefusal, InternalError} : FailWith(result)
        \/ \E records : Say(records, "acknowledge") /\ Executes
        \/ \E records : Say(records, "planned") /\ ~Executes
    BY <1>4 DEF PlanOperation, Blockers
  <2>5. QED BY <2>1, <2>2, <2>3, <2>4, Zenon
<1>5. CASE Planned
  <2>1. at = "planned"
    BY <1>5, Zenon DEF Planned, Handler
  <2>2. \E result : Complete(result)
    BY <1>5, Zenon DEF Planned
  <2>3. QED BY <1>1, <2>1, <2>2, CompleteTells, Zenon
<1>6. QED BY <1>2, <1>3, <1>4, <1>5, Zenon DEF Prepares

LEMMA OpenKeeps == ASSUME CommandInv, OpenDrive PROVE CommandInv'
<1>1. AnnouncedToAll /\ Executes /\ at = "open"
  BY DEF OpenDrive, CommandInv, AnnouncedInv, HeadingInv, Heading
<1>2. /\ UNCHANGED <<command, sequence, log, stream>>
      /\ Heading' = "write" /\ at' \in {"say", "write"}
      /\ Touched' /\ Shaped'
  <2>1. PICK n : Say(Progress(n), "write")
    BY DEF OpenDrive
  <2>2. child' = TRUE /\ UNCHANGED <<command, sequence, log, stream>>
    BY DEF OpenDrive, Service!Open
  <2>3. QED BY <2>1, <2>2, SayTo DEF Touched, CommandInv
<1>3. AnnouncedToAll' /\ Executes' /\ sequence \in Nat /\ IsSeq(log)' /\ IsSeq(stream)'
  BY <1>1, <1>2
     DEF AnnouncedToAll, Announced, Executes, CommandInv, CodeInv, AnnouncedInv, IsSeq
<1>4. AnnouncedInv' /\ HeadingInv' /\ CodeInv'
  BY <1>2, <1>3 DEF AnnouncedInv, Announcing, HeadingInv, CodeInv, Heading
<1>5. QED BY <1>2, <1>4 DEF CommandInv

LEMMA ExecutingKeep == ASSUME CommandInv, Executing PROVE CommandInv'
<1>1. CASE OpenDrive
  BY <1>1, OpenKeeps
<1>2. CASE Acknowledge \/ Revalidated \/ WriteEnds \/ Settle
  <2>1. /\ Stays /\ at \in {"acknowledge", "controller", "write", "settle"} /\ Executes
        /\ at \in {"acknowledge", "controller"} => ~Touched
        /\ at # "acknowledge" => AnnouncedToAll
        /\ at = "settle" => Done
    <3>1. Stays /\ at \in {"acknowledge", "controller", "write", "settle"}
      BY <1>2 DEF Acknowledge, Revalidated, WriteEnds, Settle, Handler, Stays
    <3>2. QED BY <3>1, AtUntouched DEF CommandInv, HeadingInv, AnnouncedInv, Heading
  <2> SUFFICES Outcome
    BY <2>1, StaysKeeps
  <2>2. CASE Acknowledge
    <3>1. ~Touched
      BY <2>1, <2>2, Zenon DEF Acknowledge, Handler
    <3>2. CASE FailWith(SafetyRefusal)
      BY <3>1, <3>2, FailTells, Failures, Zenon
    <3>3. CASE Say(<<"resolution", "write_boundary">>, "controller")
      <4>1. GoesOn("controller")
        BY <2>1, <3>1, <3>3, SayTo DEF GoesOn
      <4>2. QED BY <4>1, ByGoingOn, Zenon
    <3>4. QED BY <2>2, <3>2, <3>3, Zenon DEF Acknowledge
  <2>3. CASE Revalidated
    <3>1. ~Touched /\ AnnouncedToAll
      BY <2>1, <2>3, Zenon DEF Revalidated, Handler
    <3>2. CASE \E result \in {SafetyRefusal, VerificationFailed, OperationFailed,
                              InternalError} : FailWith(result)
      BY <3>1, <3>2, FailTells, Failures, Zenon
    <3>3. ASSUME NEW n, Say(Progress(n), "open") PROVE Outcome
      <4>1. GoesOn("open")
        BY <2>1, <3>1, <3>3, SayTo DEF GoesOn
      <4>2. QED BY <4>1, ByGoingOn, Zenon
    <3>4. QED BY <2>3, <3>2, <3>3, Zenon DEF Revalidated
  <2>4. CASE WriteEnds
    <3>1. AnnouncedToAll
      BY <2>1, <2>4, Zenon DEF WriteEnds, Handler
    <3>2. CASE FailWith(OperationFailed)
      BY <3>2, FailTells, Failures, Zenon
    <3>3. CASE Done /\ Say(<<"progress">>, "settle")
      <4>1. GoesOn("settle")
        BY <2>1, <3>1, <3>3, SayTo DEF GoesOn
      <4>2. QED BY <4>1, ByGoingOn, Zenon
    <3>4. QED BY <2>4, <3>2, <3>3, Zenon DEF WriteEnds, Done
  <2>5. CASE Settle
    <3>1. Done
      BY <2>1, <2>5, Zenon DEF Settle, Handler
    <3>2. CASE FailWith(OperationFailed) \/ FailWith(InternalError)
      BY <3>2, FailTells, Failures, Zenon
    <3>3. CASE Complete(Success)
      <4>1. Tells(Success)
        BY <3>1 DEF Tells, Success
      <4>2. /\ at' = "say" /\ saying'.then = "ended" /\ saying'.code = Success
            /\ Shaped'
        BY <3>3 DEF Complete, Pending, Shaped
      <4>3. Concludes
        BY <4>1, <4>2, Zenon DEF Concludes
      <4>4. QED BY <4>3, ByConclusion, Zenon
    <3>4. QED BY <2>5, <3>2, <3>3, Zenon DEF Settle
  <2>6. QED BY <1>2, <2>2, <2>3, <2>4, <2>5
<1>3. QED BY <1>1, <1>2 DEF Executing

-----------------------------------------------------------------------------
(***************************************************************************)
(* The records, and what comes from outside.                               *)
(***************************************************************************)

LEMMA ThrowKeeps ==
    ASSUME CommandInv, Grows, at # "ended", NEW result, Throw(result),
           result # Success, ~Touched \/ result \notin 2..6
    PROVE  CommandInv'
<1>1. CASE FailWith(result)
  BY <1>1, FailTells, OutcomeKeeps, Zenon
<1>2. CASE at' = "ended" /\ code' = Died /\ UNCHANGED saying
  <2>1. Tells(code')
    BY <1>2, Failures, Zenon DEF Tells
  <2>2. Aborts
    BY <1>2, <2>1, Zenon DEF Aborts
  <2>3. QED BY <2>2, OutcomeKeeps, Zenon
<1>3. QED BY <1>1, <1>2, Zenon DEF Throw

\* What is said before a step that only reads leaves the drive untouched.
LEMMA LostRecord ==
    ASSUME CommandInv, at = "say", NEW result \in CodeOfLostRecord
    PROVE  result # Success /\ (~Touched \/ result \notin 2..6)
<1>1. Touched => saying.then \in {"write", "settle", "ended"}
  BY DEF CommandInv, HeadingInv, Heading
<1>2. \/ result = DownloadFailed /\ saying.then = "load"
      \/ result = VerificationFailed /\ saying.then \in {"hash", "verify"}
      \/ result \in {OperationFailed, InternalError}
  BY DEF CodeOfLostRecord
<1>3. QED BY <1>1, <1>2, Failures

\* It says the same on, or the next record of it.
LEMMA GoesOnSaying ==
    ASSUME CommandInv, Grows, at = "say", at' = "say", Announcing', Shaped',
           saying'.then = saying.then, saying'.code = saying.code
    PROVE  CommandInv'
<1>1. /\ Touched' <=> Touched
      /\ Done' <=> Done
      /\ Executes' <=> Executes
      /\ AnnouncedToAll => AnnouncedToAll'
      /\ \A result : Tells(result)' <=> Tells(result)
  BY GrowsFacts, Zenon
<1>2. Heading' = Heading
  BY DEF Heading
<1>3. AnnouncedInv'
  BY <1>1, <1>2, Zenon DEF CommandInv, AnnouncedInv, Grows
<1>4. HeadingInv'
  BY <1>1, <1>2, Zenon DEF CommandInv, HeadingInv
<1>5. CodeInv'
  <2>1. saying'.then = "ended" => Tells(saying'.code)
    BY DEF CommandInv, CodeInv
  <2>2. QED BY <1>1, <2>1, Zenon DEF CodeInv, Grows
<1>6. QED BY <1>3, <1>4, <1>5 DEF CommandInv

\* It has said all, and takes the step.
LEMMA HasSaid ==
    ASSUME CommandInv, Grows, at = "say", at' = saying.then, saying' = NothingToSay,
           code' = (IF saying.then = "ended" THEN saying.code ELSE code),
           saying.then = "controller" => AnnouncedToAll'
    PROVE  CommandInv'
<1>1. /\ Touched' <=> Touched
      /\ Done' <=> Done
      /\ Executes' <=> Executes
      /\ AnnouncedToAll => AnnouncedToAll'
      /\ \A result : Tells(result)' <=> Tells(result)
  BY GrowsFacts, Zenon
<1>2. Heading' = Heading /\ at' = Heading /\ at' \notin {"say", "parse"}
  BY DEF Heading, CommandInv, HeadingInv
<1>3. AnnouncedInv'
  BY <1>1, <1>2, Zenon DEF CommandInv, AnnouncedInv, Announcing, Grows
<1>4. HeadingInv'
  BY <1>1, <1>2, Zenon DEF CommandInv, HeadingInv
<1>5. CodeInv'
  <2>1. at' = "ended" => Tells(code')
    BY DEF CommandInv, CodeInv
  <2>2. QED BY <1>1, <1>2, <2>1, Zenon DEF CodeInv, Grows
<1>6. Shaped'
  BY DEF Shaped, NothingToSay
<1>7. QED BY <1>3, <1>4, <1>5, <1>6 DEF CommandInv

\* The record that is said, and what becomes of the log and of the stream.
LEMMA WriteLogKeeps == ASSUME CommandInv, LinesInv, WriteLog PROVE CommandInv'
<1>1. PICK r, t, c, l : saying = [records |-> r, then |-> t, code |-> c, logged |-> l]
  BY DEF CommandInv, Shaped
<1>2. /\ at = "say" /\ at' = "say" /\ UNCHANGED <<command, stream, drive, child>>
      /\ saying' = [records |-> r, then |-> t, code |-> c, logged |-> TRUE]
      /\ sequence' = sequence + 1
      /\ log' = IF command.logs THEN Append(log, Record(NextLine)) ELSE log
  BY <1>1 DEF WriteLog, Emitting
<1>3. Grows /\ (t = "controller" /\ Record(NextLine).kind = "write_boundary" /\ command.logs
                => Announced(log)')
  <2>1. /\ IsSeq(log) /\ IsSeq(stream) /\ IsSeq(stream)' /\ sequence' \in Nat
        /\ Announced(stream) => Announced(stream)'
    BY <1>2 DEF CommandInv, AnnouncedInv, CodeInv, IsSeq, Announced
  <2>2. CASE command.logs
    <3>1. /\ log' = Append(log, Record(NextLine))
          /\ t = "controller" => Record(NextLine).line = "own"
      BY <1>1, <1>2, <2>2 DEF Record, NextLine, LinesInv
    <3>2. /\ IsSeq(Append(log, Record(NextLine)))
          /\ Announced(log) => Announced(Append(log, Record(NextLine)))
          /\ t = "controller" /\ Record(NextLine).kind = "write_boundary"
             => Announced(Append(log, Record(NextLine)))
      BY <2>1, <3>1, Added
    <3>3. /\ IsSeq(log)' /\ (Announced(log) => Announced(log)')
          /\ t = "controller" /\ Record(NextLine).kind = "write_boundary" => Announced(log)'
      BY <3>1, <3>2 DEF IsSeq, Announced
    <3>4. QED BY <1>2, <2>1, <3>3 DEF Grows
  <2>3. CASE ~command.logs
    <3>1. log' = log
      BY <1>2, <2>3
    <3>2. QED BY <1>2, <2>1, <2>3, <3>1 DEF Grows, IsSeq, Announced
  <2>4. QED BY <2>2, <2>3
<1>4. Announcing' /\ Shaped'
  <2>1. Shaped'
    BY <1>2 DEF Shaped
  <2>2. ASSUME t = "controller"
        PROVE  \/ r = <<"resolution", "write_boundary">>
               \/ r = <<"write_boundary">> /\ (command.logs => Announced(log)')
    <3>1. r = <<"resolution", "write_boundary">> \/ r = <<"write_boundary">>
      BY <1>1, <1>2, <2>2 DEF CommandInv, AnnouncedInv, Announcing
    <3>2. ASSUME r = <<"write_boundary">> PROVE Record(NextLine).kind = "write_boundary"
      BY <1>1, <3>2 DEF Record
    <3>3. QED BY <1>3, <2>2, <3>1, <3>2
  <2>3. command' = command /\ saying'.records = r /\ saying'.then = t
    BY <1>2
  <2>4. QED BY <2>1, <2>2, <2>3, Zenon DEF Announcing
<1>5. saying'.then = saying.then /\ saying'.code = saying.code
  BY <1>1, <1>2
<1>6. QED BY <1>2, <1>3, <1>4, <1>5, GoesOnSaying

LEMMA LogFailsKeeps == ASSUME CommandInv, LogFails PROVE CommandInv'
<1>1. PICK result \in CodeOfLostRecord : Throw(result)
  BY DEF LogFails
<1>2. /\ at = "say" /\ UNCHANGED <<command, stream, drive, child>>
      /\ sequence' = sequence + 1 /\ log' \in {log, Append(log, Record("cut"))}
  BY DEF LogFails, Emitting
<1>3. Grows
  <2>1. /\ IsSeq(log) /\ IsSeq(stream) /\ IsSeq(stream)' /\ sequence' \in Nat
        /\ Announced(stream) => Announced(stream)'
    BY <1>2 DEF CommandInv, AnnouncedInv, CodeInv, IsSeq, Announced
  <2>2. /\ IsSeq(Append(log, Record("cut")))
        /\ Announced(log) => Announced(Append(log, Record("cut")))
    BY <2>1, Added
  <2>3. IsSeq(log)' /\ (Announced(log) => Announced(log)')
    BY <1>2, <2>1, <2>2 DEF IsSeq, Announced
  <2>4. QED BY <1>2, <2>1, <2>3 DEF Grows
<1>4. result # Success /\ (~Touched \/ result \notin 2..6)
  BY <1>2, LostRecord
<1>5. QED BY <1>1, <1>2, <1>3, <1>4, ThrowKeeps

\* The next record, or the step when there is none.
LEMMA ProceedKeeps ==
    ASSUME CommandInv, Grows, at = "say", Proceed, saying.logged,
           saying.records[1] = "write_boundary" /\ command.mode = "jsonl"
           => Announced(stream)'
    PROVE  CommandInv'
<1>1. PICK r, t, c, l : saying = [records |-> r, then |-> t, code |-> c, logged |-> l]
  BY DEF CommandInv, Shaped
<1>2. t = "controller" =>
        \/ r = <<"resolution", "write_boundary">>
        \/ r = <<"write_boundary">> /\ (command.logs => Announced(log))
  BY <1>1 DEF CommandInv, AnnouncedInv, Announcing
<1>3. CASE Len(r) > 1
  <2>1. /\ saying' = [records |-> Tail(r), then |-> t, code |-> c, logged |-> FALSE]
        /\ at' = "say"
    BY <1>1, <1>3 DEF Proceed
  <2>2. t = "controller" => Tail(r) = <<"write_boundary">>
    <3>1. Len(<<"write_boundary">>) = 1
      OBVIOUS
    <3>2. Tail(<<"resolution", "write_boundary">>) = <<"write_boundary">>
      OBVIOUS
    <3>3. t = "controller" => r = <<"resolution", "write_boundary">>
      BY <1>2, <1>3, <3>1
    <3>4. QED BY <3>2, <3>3, Zenon
  <2>3. Announcing' /\ Shaped'
    BY <2>1, <2>2 DEF Announcing, Shaped
  <2>4. QED BY <1>1, <2>1, <2>3, GoesOnSaying
<1>4. CASE ~(Len(r) > 1)
  <2>1. /\ at' = saying.then /\ saying' = NothingToSay
        /\ code' = IF saying.then = "ended" THEN saying.code ELSE code
    BY <1>1, <1>4 DEF Proceed
  <2>2. ASSUME saying.then = "controller" PROVE AnnouncedToAll'
    <3>1. r = <<"write_boundary">> /\ (command.logs => Announced(log))
      BY <1>1, <1>2, <1>4, <2>2
    <3>2. saying.records[1] = "write_boundary"
      BY <1>1, <3>1
    <3>3. QED BY <3>1, <3>2, Zenon DEF Grows, AnnouncedToAll
  <2>3. QED BY <2>1, <2>2, HasSaid
<1>5. QED BY <1>3, <1>4

LEMMA PrintKeeps == ASSUME CommandInv, PrintRecord PROVE CommandInv'
<1> DEFINE given == Append(stream, [Record("own") EXCEPT !.sequence = sequence])
<1>1. /\ at = "say" /\ saying.logged
      /\ UNCHANGED <<command, drive, child, sequence, log>>
  BY DEF PrintRecord, Emitting
<1>2. /\ sequence' \in Nat /\ IsSeq(stream) /\ IsSeq(log)'
      /\ Announced(log) => Announced(log)'
  BY <1>1 DEF CommandInv, AnnouncedInv, CodeInv, IsSeq, Announced
<1>3. /\ IsSeq(given) /\ (Announced(stream) => Announced(given))
      /\ saying.records[1] = "write_boundary" => Announced(given)
  <2>1. /\ [Record("own") EXCEPT !.sequence = sequence].kind = saying.records[1]
        /\ [Record("own") EXCEPT !.sequence = sequence].line = "own"
    BY DEF Record
  <2>2. QED BY <1>2, <2>1, Added
<1>4. ASSUME stream' = stream PROVE Grows
  BY <1>1, <1>2, <1>4 DEF Grows, IsSeq, Announced
<1>5. ASSUME stream' = given
      PROVE  Grows /\ (saying.records[1] = "write_boundary" => Announced(stream)')
  <2>1. IsSeq(stream)' /\ (Announced(stream) => Announced(stream)')
        /\ (saying.records[1] = "write_boundary" => Announced(stream)')
    BY <1>3, <1>5 DEF IsSeq, Announced
  <2>2. QED BY <1>1, <1>2, <2>1 DEF Grows
<1>6. \/ Proceed /\ stream' = stream /\ command.mode # "jsonl"
      \/ Proceed /\ stream' = given
      \/ stream' = stream /\ \E result \in CodeOfLostRecord : Throw(result)
      \/ stream' = stream /\ at' = "ended" /\ code' = Died /\ UNCHANGED saying
  BY DEF PrintRecord, Printed
<1>7. CASE Proceed /\ stream' = stream /\ command.mode # "jsonl"
  BY <1>1, <1>4, <1>7, ProceedKeeps
<1>8. CASE Proceed /\ stream' = given
  BY <1>1, <1>5, <1>8, ProceedKeeps
<1>9. CASE stream' = stream /\ \E result \in CodeOfLostRecord : Throw(result)
  BY <1>1, <1>4, <1>9, LostRecord, ThrowKeeps
<1>10. CASE stream' = stream /\ at' = "ended" /\ code' = Died /\ UNCHANGED saying
  <2>1. Aborts
    BY <1>10, Failures, Zenon DEF Aborts, Tells
  <2>2. QED BY <1>1, <1>4, <1>10, <2>1, OutcomeKeeps
<1>11. QED BY <1>6, <1>7, <1>8, <1>9, <1>10

LEMMA ParseKeeps == ASSUME CommandInv, Parse PROVE CommandInv'
<1>1. /\ at = "parse" /\ Stays /\ sequence = 0 /\ ~Touched
  BY AtUntouched DEF Parse, Stays, CommandInv, CodeInv
<1>2. CASE Say(<<"start">>, "prepare")
  BY <1>1, <1>2, SayPlain, StaysKeeps, Zenon DEF Plain
<1>3. CASE at' = "ended" /\ UNCHANGED saying
  <2>1. Aborts
    BY <1>1, <1>3 DEF Aborts, Stays
  <2>2. QED BY <1>1, <2>1, StaysGrows, OutcomeKeeps
<1>4. QED BY <1>2, <1>3 DEF Parse

LEMMA SameKeeps ==
    ASSUME CommandInv,
           UNCHANGED <<command, at, saying, sequence, log, stream, drive, child, code>>
    PROVE  CommandInv'
<1>1. /\ Heading' = Heading
      /\ Touched' <=> Touched
      /\ Done' <=> Done
      /\ Executes' <=> Executes
      /\ AnnouncedToAll' <=> AnnouncedToAll
      /\ Announced(log)' <=> Announced(log)
      /\ IsSeq(log)' <=> IsSeq(log)
      /\ IsSeq(stream)' <=> IsSeq(stream)
      /\ Shaped' <=> Shaped
  BY DEF Heading, Touched, Done, Executes, AnnouncedToAll, Announced, IsSeq, Shaped
<1>2. \A result : Tells(result)' <=> Tells(result)
  BY <1>1, Zenon DEF Tells, Success
<1>3. AnnouncedInv'
  BY <1>1, Zenon DEF CommandInv, AnnouncedInv, Announcing
<1>4. HeadingInv'
  BY <1>1, Zenon DEF CommandInv, HeadingInv
<1>5. CodeInv'
  BY <1>2, Zenon DEF CommandInv, CodeInv
<1>6. QED BY <1>1, <1>3, <1>4, <1>5 DEF CommandInv

LEMMA OutsideKeep == ASSUME CommandInv, Outside PROVE CommandInv'
<1>1. CASE ReaderLeaves
  BY <1>1, SameKeeps DEF ReaderLeaves
<1>2. CASE Interrupt
  <2>1. Stays /\ at # "ended" /\ Throw(InternalError)
    BY <1>2 DEF Interrupt, Stays, Ended
  <2>2. QED BY <2>1, StaysGrows, Failures, ThrowKeeps
<1>3. CASE Killed
  <2>1. Stays /\ at # "ended" /\ Aborts
    BY <1>3, Failures DEF Killed, Stays, Ended, Aborts, Tells
  <2>2. QED BY <2>1, StaysGrows, OutcomeKeeps
<1>4. CASE ChildEnds
  <2>1. /\ child /\ Touched /\ ~Done
        /\ UNCHANGED <<command, at, saying, sequence, log, stream, code>>
    BY <1>4 DEF ChildEnds, Service!Finish, Touched, Done
  <2>2. Executes /\ Heading \in {"write", "ended"} /\ AnnouncedToAll
    BY <2>1 DEF CommandInv, HeadingInv, AnnouncedInv
  <2>3. \A result : ~Tells(result) \/ (result # Success /\ result \notin 2..6)
    BY <2>1, <2>2, Zenon DEF Tells
  <2>4. Heading' = Heading /\ Executes' /\ AnnouncedToAll'
    BY <2>1, <2>2 DEF Heading, Executes, AnnouncedToAll, Announced
  <2>5. AnnouncedInv'
    BY <2>1, <2>2, <2>4 DEF CommandInv, AnnouncedInv, Announcing, Heading, IsSeq
  <2>6. HeadingInv'
    BY <2>1, <2>2, <2>4 DEF CommandInv, HeadingInv
  <2>7. CodeInv'
    <3>1. \A result : Tells(result) => Tells(result)'
      BY <2>3, Zenon DEF Tells, Success
    <3>2. QED BY <2>1, <3>1, Zenon DEF CommandInv, CodeInv
  <2>8. QED BY <2>1, <2>5, <2>6, <2>7 DEF CommandInv, Shaped
<1>5. QED BY <1>1, <1>2, <1>3, <1>4 DEF Outside

-----------------------------------------------------------------------------
\* A handler takes its step when all is said, and leaves what was said.
LEMMA HandlersStand ==
    ASSUME Answers \/ Downloads \/ Prepares \/ Executing
    PROVE  /\ UNCHANGED <<command, sequence, log, stream, code>>
           /\ at \notin {"say", "ended", "parse"}
<1>1. CASE Answers
  BY <1>1 DEF Answers, Versions, Devices, Status, Source, Download, NotFound, Answer,
                For, Handler
<1>2. CASE Downloads
  BY <1>2 DEF Downloads, Request, RetrieveChecksum, RetrieveSignature, Reuse, LoadImage, HashImage, VerifyImage, Handler
<1>3. CASE Prepares
  BY <1>3 DEF Prepares, LocalImage, CatalogImage, LiveSource, Scan, PlanOperation,
                Planned, For, Handler
<1>4. CASE Executing
  BY <1>4 DEF Executing, Acknowledge, Revalidated, OpenDrive, WriteEnds, Settle, Handler
<1>5. QED BY <1>1, <1>2, <1>3, <1>4

\* A record that is lost ends the command.
LEMMA ThrowEnds ==
    ASSUME NEW result, Throw(result)
    PROVE  at' = "ended" \/ (at' = "say" /\ saying'.then = "ended")
BY DEF Throw, FailWith, Pending

LEMMA LinesStep ==
    ASSUME CommandInv, LinesInv, [CommandNext]_commandVars
    PROVE  LinesInv'
<1> DEFINE ending == at' = "ended" \/ (at' = "say" /\ saying'.then = "ended")
<1>1. ASSUME UNCHANGED <<command, log>>, ~Torn \/ ending PROVE LinesInv'
  BY <1>1 DEF LinesInv, Torn
<1>2. CASE Parse
  BY <1>1, <1>2 DEF Parse, Say, Pending, LinesInv, Torn
<1>3. CASE WriteLog
  <2>1. /\ at = "say" /\ command' = command
        /\ log' = IF command.logs THEN Append(log, Record(NextLine)) ELSE log
    BY <1>3 DEF WriteLog, Emitting
  <2>2. CASE command.logs
    <3>1. log' # <<>> /\ log'[Len(log')] = Record(NextLine)
      <4>1. PICK S : log \in Seq(S)
        BY DEF CommandInv, AnnouncedInv, IsSeq
      <4>2. /\ Len(Append(log, Record(NextLine))) = Len(log) + 1
            /\ Append(log, Record(NextLine))[Len(log) + 1] = Record(NextLine)
            /\ Len(log) \in Nat /\ Append(log, Record(NextLine)) # <<>>
        <5>1. log \in Seq(S \cup {Record(NextLine)})
          BY <4>1, SeqOver
        <5>2. QED BY <5>1, AppendFacts
      <4>3. log' = Append(log, Record(NextLine))
        BY <2>1, <2>2
      <4>4. QED BY <4>2, <4>3, Zenon
    <3>2. Record(NextLine).line # "cut"
      BY DEF Record, NextLine
    <3>3. QED BY <2>1, <2>2, <3>1, <3>2 DEF LinesInv, Torn
  <2>3. CASE ~command.logs
    BY <2>1, <2>3 DEF LinesInv, Torn
  <2>4. QED BY <2>2, <2>3
<1>4. CASE LogFails
  <2>1. command' = command /\ command.logs /\ \E result : Throw(result)
    BY <1>4 DEF LogFails, Emitting
  <2>2. QED BY <2>1, ThrowEnds DEF LinesInv
<1>5. CASE PrintRecord
  <2>1. at = "say" /\ saying.logged /\ UNCHANGED <<command, log>>
    BY <1>5 DEF PrintRecord, Emitting
  <2>2. ~Torn \/ saying.then = "ended"
    BY <2>1 DEF LinesInv
  <2>3. Proceed \/ at' = "ended" \/ \E result : Throw(result)
    BY <1>5 DEF PrintRecord
  <2>4. CASE Proceed
    <3>1. saying.then = "ended" => ending
      <4>1. ASSUME Len(saying.records) > 1 PROVE at' = at /\ saying'.then = saying.then
        <5>1. PICK r, t, c, l :
                 saying = [records |-> r, then |-> t, code |-> c, logged |-> l]
          BY DEF CommandInv, Shaped
        <5>2. at' = at /\ saying' = [saying EXCEPT !.records = Tail(@), !.logged = FALSE]
          BY <2>4, <4>1 DEF Proceed
        <5>3. saying' = [records |-> Tail(r), then |-> t, code |-> c, logged |-> FALSE]
          BY <5>1, <5>2
        <5>4. QED BY <5>1, <5>2, <5>3
      <4>2. ASSUME ~(Len(saying.records) > 1) PROVE at' = saying.then
        BY <2>4, <4>2 DEF Proceed
      <4>3. QED BY <2>1, <4>1, <4>2
    <3>2. QED BY <1>1, <2>1, <2>2, <3>1
  <2>5. QED BY <1>1, <2>1, <2>3, <2>4, ThrowEnds
<1>6. CASE Answers \/ Downloads \/ Prepares \/ Executing
  <2>1. UNCHANGED <<command, log>> /\ at \notin {"say", "ended", "parse"}
    BY <1>6, HandlersStand
  <2>2. QED BY <1>1, <2>1 DEF LinesInv
<1>7. CASE Interrupt
  BY <1>1, <1>7, ThrowEnds DEF Interrupt
<1>8. CASE Killed
  BY <1>1, <1>8 DEF Killed
<1>9. CASE ReaderLeaves \/ ChildEnds \/ UNCHANGED commandVars
  BY <1>9 DEF ReaderLeaves, ChildEnds, Service!Finish, commandVars, LinesInv, Torn
<1>10. QED
  BY <1>2, <1>3, <1>4, <1>5, <1>6, <1>7, <1>8, <1>9 DEF CommandNext, Records, Outside

LEMMA CommandStep == ASSUME CommandInv, LinesInv, [CommandNext]_commandVars PROVE CommandInv'
<1>1. CASE Parse
  BY <1>1, ParseKeeps
<1>2. CASE Records
  BY <1>2, WriteLogKeeps, LogFailsKeeps, PrintKeeps DEF Records
<1>3. CASE Answers
  BY <1>3, AnswersKeep
<1>4. CASE Downloads
  BY <1>4, DownloadsKeep
<1>5. CASE Prepares
  BY <1>5, PreparesKeep
<1>6. CASE Executing
  BY <1>6, ExecutingKeep
<1>7. CASE Outside
  BY <1>7, OutsideKeep
<1>8. CASE UNCHANGED commandVars
  BY <1>8, SameKeeps DEF commandVars
<1>9. QED BY <1>1, <1>2, <1>3, <1>4, <1>5, <1>6, <1>7, <1>8 DEF CommandNext

(* What is said, announced and decided agrees with the drive at every step *)
(* of a command: the invariant that the two theorems below follow from.    *)
THEOREM CommandInvariant == CommandSpec => [](CommandInv /\ LinesInv)
<1>1. CommandInit => CommandInv /\ LinesInv
  BY CommandStart DEF CommandInit, LinesInv
<1>2. CommandInv /\ LinesInv /\ [CommandNext]_commandVars => (CommandInv /\ LinesInv)'
  BY CommandStep, LinesStep
<1>3. QED BY <1>1, <1>2, PTL DEF CommandSpec

(* Nothing is written that the audit log and the stream of records did not *)
(* announce first (cli.py announces the write boundary before it calls the *)
(* controller), whenever the log fails, the reader leaves or the operator  *)
(* interrupts.                                                             *)
THEOREM WritesAreAnnounced == CommandSpec => []AnnouncedBeforeWrite
<1>1. CommandInv => AnnouncedBeforeWrite
  BY DEF CommandInv, AnnouncedInv, AnnouncedToAll, Touched, AnnouncedBeforeWrite
<1>2. QED BY <1>1, CommandInvariant, PTL

(* The exit code of cli.py tells the truth about the drive: 0 of install   *)
(* and upgrade means a whole system, 2 to 6 an untouched drive.            *)
THEOREM ExitCodeTellsEffect == CommandSpec => []ExitTellsEffect
<1>1. ASSUME CommandInv PROVE ExitTellsEffect
  <2>1. ~Executes => ~Touched
    BY <1>1 DEF CommandInv, HeadingInv
  <2>2. Verdict = Success \/ Verdict \in 2..6 => at = "ended" /\ sequence > 0
    BY DEF Verdict, Ended, Died, Success
  <2>3. Verdict = Success \/ Verdict \in 2..6 => Verdict = code /\ Tells(code)
    BY <1>1, <2>2 DEF Verdict, Ended, CommandInv, CodeInv
  <2>4. QED BY <2>1, <2>3, Zenon DEF ExitTellsEffect, Tells, Touched, Done
<1>2. QED BY <1>1, CommandInvariant, PTL

-----------------------------------------------------------------------------
(***************************************************************************)
(* The command as a write service.                                         *)
(***************************************************************************)

\* What the exit code of the command reports to its caller.
Exit == IF ~(Ended /\ Executes) THEN "none"
        ELSE CASE Verdict = Success -> "ok" [] Verdict \in 2..6 -> "refused"
               [] OTHER -> "failed"

\* dd is started by one step and ended by another; all others leave the drive
\* alone, and none of them is taken after the end.
LEMMA DriveLeftAlone ==
    ASSUME CommandNext
    PROVE  \/ OpenDrive \/ ChildEnds
           \/ ~Ended /\ UNCHANGED <<command, drive, child>>
<1>1. CASE Parse \/ Records
  BY <1>1 DEF Parse, Records, WriteLog, LogFails, PrintRecord, Emitting, Ended
<1>2. CASE Answers \/ Downloads
  BY <1>2 DEF Answers, Versions, Devices, Status, Source, Download, NotFound, Answer,
     Downloads, Request, RetrieveChecksum, RetrieveSignature, Reuse, LoadImage, HashImage, VerifyImage, For, Handler, Ended
<1>3. CASE Prepares
  BY <1>3 DEF Prepares, LocalImage, CatalogImage, LiveSource, Scan, PlanOperation, Planned,
     For, Handler, Ended
<1>4. CASE Acknowledge \/ Revalidated \/ WriteEnds \/ Settle
  BY <1>4 DEF Acknowledge, Revalidated, WriteEnds, Settle, Handler, Ended
<1>5. CASE ReaderLeaves \/ Interrupt \/ Killed
  BY <1>5 DEF ReaderLeaves, Interrupt, Killed
<1>6. QED
  BY <1>1, <1>2, <1>3, <1>4, <1>5 DEF CommandNext, Executing, Outside

LEMMA PromiseStep ==
    ASSUME CommandInv, ExitTellsEffect', [CommandNext]_commandVars
    PROVE  [Promised!Next]_<<drive, child, Exit, {}, {}>>
<1>1. CASE OpenDrive
  <2>1. /\ at = "open" /\ command' = command
        /\ drive = "untouched" /\ drive' = "part" /\ child' = TRUE
    BY <1>1 DEF OpenDrive, Service!Open
  <2>2. at' # "ended"
    <3>1. PICK n : Say(Progress(n), "write")
      BY <1>1 DEF OpenDrive
    <3>2. QED BY <3>1, SayTo
  <2>3. Exit = "none" /\ Exit' = "none"
    BY <2>1, <2>2 DEF Exit, Ended
  <2>4. QED BY <2>1, <2>3 DEF Promised!Next, Promised!Open, Exit
<1>2. CASE ChildEnds
  <2>1. /\ child /\ child' = FALSE /\ drive' \in {"part", "whole"}
        /\ UNCHANGED <<command, at, sequence, code>>
    BY <1>2 DEF ChildEnds, Service!Finish
  <2>2. Exit' = Exit
    BY <2>1 DEF Exit, Ended, Executes, Verdict
  <2>3. QED BY <2>1, <2>2 DEF Promised!Next, Promised!Finish, Exit
<1>3. CASE ~Ended /\ UNCHANGED <<command, drive, child>>
  <2>1. Exit = "none"
    BY <1>3 DEF Exit
  <2>2. \/ Exit' = "none"
        \/ Exit' = "ok" /\ drive = "whole" /\ ~child
        \/ Exit' = "refused" /\ drive = "untouched"
        \/ Exit' = "failed"
    BY <1>3 DEF Exit, ExitTellsEffect
  <2>3. QED BY <1>3, <2>1, <2>2 DEF Promised!Next, Promised!Report, Promised!Rest, Exit
<1>4. CASE UNCHANGED commandVars
  BY <1>4 DEF commandVars, Exit, Ended, Executes, Verdict
<1>5. QED BY <1>1, <1>2, <1>3, <1>4, DriveLeftAlone

(* A run of the command line keeps, towards who calls it, the promise that *)
(* a write service makes to the controller: dd is started once, and the    *)
(* exit code is one report, in which 0 stands for a whole copy and 2 to 6  *)
(* for a drive that was never opened (the exit codes of cli.py).           *)
THEOREM CommandIsWriteService == CommandSpec => KeepsPromise
<1>1. CommandInit => Promised!Init
  <2>1. CommandInit => drive = "untouched" /\ child = FALSE /\ Exit = "none"
    BY DEF CommandInit, Exit, Ended
  <2>2. QED BY <2>1 DEF Promised!Init, Exit
<1>2. CommandInv /\ ExitTellsEffect' /\ [CommandNext]_commandVars
      => [Promised!Next]_<<drive, child, Exit, {}, {}>>
  BY PromiseStep
<1>3. QED BY <1>1, <1>2, CommandInvariant, ExitCodeTellsEffect, PTL
          DEF CommandSpec, KeepsPromise, Promised!Spec, Exit

-----------------------------------------------------------------------------
(***************************************************************************)
(* One verdict, in order, in the log and in the stream.                    *)
(***************************************************************************)

\* Records that are no verdict.
Plainly(records) ==
    /\ IsSeq(records) /\ records # <<>>
    /\ \A i \in 1..Len(records) : records[i] \notin Terminal

Numbered(records, bound) ==
    \A i \in 1..Len(records) : records[i].sequence \in 0..bound

NoVerdict(records) == \A i \in 1..Len(records) : records[i].kind \notin Terminal

Rec(n) == [sequence |-> n, kind |-> saying.records[1], code |-> saying.code,
           line |-> "own"]

Covered == \A i \in 1..Len(stream) : \E j \in 1..Len(log) :
              SameRecord(stream[i], log[j]) /\ log[j].line # "cut"

\* What is said is a verdict or what comes before one.
SayingInv ==
    at = "say" =>
        /\ saying.then = "ended" => \E kind \in Terminal : saying.records = <<kind>>
        /\ saying.then # "ended" => Plainly(saying.records)

\* A record that is in the log is the last one there, and not yet in the stream.
LoggedInv ==
    at = "say" /\ saying.logged =>
        /\ sequence > 0
        /\ \A i \in 1..Len(stream) : stream[i].sequence < sequence
        /\ command.logs => /\ log # <<>> /\ Entire(log, Len(log))
                            /\ SameRecord(Rec(sequence), log[Len(log)])

OrderInv ==
    /\ OneVerdict(log) /\ OneVerdict(stream)
    /\ Numbered(log, sequence) /\ Numbered(stream, sequence)
    /\ command.logs => Covered
    /\ ~command.logs => log = <<>>

UndecidedInv ==
    /\ at # "ended" => NoVerdict(stream)
    /\ at # "ended" /\ ~(at = "say" /\ saying.then = "ended" /\ saying.logged)
       => NoVerdict(log)

VerdictInv ==
    /\ command \in Command
    /\ SayingInv /\ LoggedInv /\ OrderInv /\ UndecidedInv
    /\ Verdict # Died => VerdictGiven(stream) /\ (command.logs => VerdictGiven(log))

LEMMA AppendParts ==
    ASSUME NEW s, IsSeq(s), NEW e
    PROVE  /\ Len(s) \in Nat /\ Len(Append(s, e)) = Len(s) + 1
           /\ \A i \in 1..Len(s) : Append(s, e)[i] = s[i]
           /\ Append(s, e)[Len(s) + 1] = e
           /\ Append(s, e) # <<>>
<1>1. PICK S : s \in Seq(S)
  BY DEF IsSeq
<1>2. s \in Seq(S \cup {e}) /\ e \in S \cup {e}
  BY <1>1, SeqOver
<1>3. QED BY <1>2, AppendFacts

\* Adding the next record keeps the order; adding a verdict ends it.
LEMMA AppendOrder ==
    ASSUME NEW s, IsSeq(s), NEW e, NEW n \in Nat, e.sequence = n + 1,
           OneVerdict(s), Numbered(s, n), NoVerdict(s)
    PROVE  /\ OneVerdict(Append(s, e)) /\ Numbered(Append(s, e), n + 1)
           /\ e.kind \notin Terminal => NoVerdict(Append(s, e))
<1> DEFINE t == Append(s, e)
<1>1. /\ Len(s) \in Nat /\ Len(t) = Len(s) + 1
      /\ \A i \in 1..Len(s) : t[i] = s[i]
      /\ t[Len(s) + 1] = e
  BY AppendParts
<1> HIDE DEF t
<1>2. \A i \in 1..Len(t) : i \in 1..Len(s) \/ i = Len(t)
  BY <1>1
<1>3. Numbered(t, n + 1)
  BY <1>1, <1>2 DEF Numbered
<1>4. ASSUME NEW i \in 1..Len(t), NEW j \in 1..Len(t), i < j
      PROVE  t[i].sequence < t[j].sequence
  <2>1. i \in 1..Len(s) /\ t[i] = s[i] /\ s[i].sequence \in 0..n
    BY <1>1, <1>4 DEF Numbered
  <2>2. CASE j \in 1..Len(s)
    BY <1>1, <1>4, <2>1, <2>2 DEF OneVerdict
  <2>3. CASE j = Len(t)
    BY <1>1, <2>1, <2>3
  <2>4. QED BY <1>2, <2>2, <2>3
<1>5. \A i \in 1..Len(t) : t[i].kind \in Terminal => i = Len(t)
  BY <1>1, <1>2 DEF NoVerdict
<1>6. e.kind \notin Terminal => NoVerdict(t)
  BY <1>1, <1>2 DEF NoVerdict
<1>7. QED BY <1>3, <1>4, <1>5, <1>6 DEF OneVerdict, t

LEMMA NumberedMore ==
    ASSUME NEW s, NEW n \in Nat, Numbered(s, n)
    PROVE  Numbered(s, n + 1)
BY DEF Numbered

LEMMA VerdictStart == ASSUME CommandInit PROVE VerdictInv
<1> USE DEF CommandInit
<1>1. SayingInv /\ LoggedInv
  BY DEF SayingInv, LoggedInv
<1>2. OrderInv /\ UndecidedInv
  <2>1. \A i \in 1..Len(log) : log[i] = LeftOver /\ i = Len(log)
    <3>1. CASE log = <<>>
      BY <3>1
    <3>2. CASE log = <<LeftOver>>
      <4>1. Len(log) = 1 /\ log[1] = LeftOver
        BY <3>2, SMT
      <4>2. QED BY <4>1
    <3>3. log = <<>> \/ log = <<LeftOver>>
      OBVIOUS
    <3>4. QED BY <3>1, <3>2, <3>3
  <2>2. LeftOver.sequence = 0 /\ LeftOver.kind \notin Terminal
    BY DEF LeftOver, Terminal
  <2>3. OneVerdict(log) /\ Numbered(log, sequence) /\ NoVerdict(log)
    BY <2>1, <2>2 DEF OneVerdict, Numbered, NoVerdict
  <2>4. QED BY <2>3 DEF OrderInv, UndecidedInv, OneVerdict, Numbered, Covered, NoVerdict
<1>3. Verdict = Died
  BY DEF Verdict, Ended
<1>4. QED BY <1>1, <1>2, <1>3 DEF VerdictInv

\* What a handler has to say, if anything, it says from the start.
Speaks ==
    /\ at' # "ended"
    /\ at' = "say" =>
        /\ ~saying'.logged
        /\ saying'.then = "ended" => \E kind \in Terminal : saying'.records = <<kind>>
        /\ saying'.then # "ended" => Plainly(saying'.records)

LEMMA SaySpeaks ==
    ASSUME NEW records, NEW g, Say(records, g), at # "say", g \notin {"say", "ended"},
           records # <<>> => Plainly(records)
    PROVE  Speaks
BY DEF Say, Pending, Speaks

LEMMA PendingSpeaks ==
    ASSUME NEW records, NEW g, NEW c, at' = "say", saying' = Pending(records, g, c),
           g # "ended",
           Plainly(records)
    PROVE  Speaks
BY DEF Pending, Speaks

LEMMA VerdictSpeaks ==
    ASSUME NEW result, FailWith(result) \/ Complete(result)
    PROVE  Speaks
BY DEF FailWith, Complete, Pending, Speaks, Terminal

LEMMA PlainOne == ASSUME NEW k, k \notin Terminal PROVE Plainly(<<k>>)
<1>1. <<k>> \in Seq({k}) /\ Len(<<k>>) = 1 /\ <<k>>[1] = k /\ <<k>> # <<>>
  OBVIOUS
<1>2. IsSeq(<<k>>)
  BY <1>1, Zenon DEF IsSeq
<1>3. \A i \in 1..Len(<<k>>) : <<k>>[i] = k
  BY <1>1
<1>4. QED BY <1>1, <1>2, <1>3, Zenon DEF Plainly

LEMMA PlainAppend ==
    ASSUME NEW records, records = <<>> \/ Plainly(records), NEW k, k \notin Terminal
    PROVE  Plainly(Append(records, k))
<1>1. IsSeq(records) /\ \A i \in 1..Len(records) : records[i] \notin Terminal
  <2>1. <<>> \in Seq({}) /\ \A i \in 1..Len(<<>>) : <<>>[i] \notin Terminal
    OBVIOUS
  <2>2. CASE records = <<>>
    BY <2>1, <2>2, Zenon DEF IsSeq
  <2>3. CASE Plainly(records)
    BY <2>3, Zenon DEF Plainly
  <2>4. QED BY <2>2, <2>3
<1>2. /\ Len(records) \in Nat /\ Len(Append(records, k)) = Len(records) + 1
      /\ \A i \in 1..Len(records) : Append(records, k)[i] = records[i]
      /\ Append(records, k)[Len(records) + 1] = k /\ Append(records, k) # <<>>
      /\ IsSeq(Append(records, k))
  BY <1>1, AppendParts, Added
<1>3. QED BY <1>1, <1>2 DEF Plainly

LEMMA PlainConcat ==
    ASSUME NEW k, k \notin Terminal, NEW records, records = <<>> \/ Plainly(records)
    PROVE  Plainly(<<k>> \o records)
<1>1. PICK S : records \in Seq(S)
  <2>1. <<>> \in Seq({})
    OBVIOUS
  <2>2. QED BY <2>1 DEF Plainly, IsSeq
<1>2. records \in Seq(S \cup {k}) /\ <<k>> \in Seq(S \cup {k})
  BY <1>1, SeqOver
<1>3. /\ <<k>> \o records \in Seq(S \cup {k}) /\ Len(<<k>> \o records) = 1 + Len(records)
      /\ (<<k>> \o records)[1] = k
      /\ \A i \in 1..Len(records) : (<<k>> \o records)[i + 1] = records[i]
  BY <1>2
<1>4. Len(records) \in Nat /\ \A i \in 1..Len(records) : records[i] \notin Terminal
  BY <1>1 DEF Plainly
<1>5. \A i \in 1..(1 + Len(records)) : i = 1 \/ (i - 1 \in 1..Len(records) /\ (i - 1) + 1 = i)
  BY <1>4
<1>6. \A i \in 1..Len(<<k>> \o records) : (<<k>> \o records)[i] \notin Terminal
  BY <1>3, <1>4, <1>5
<1>7. <<k>> \o records # <<>>
  BY <1>3, <1>4
<1>8. QED BY <1>3, <1>6, <1>7 DEF Plainly, IsSeq

\* The records of the handlers.
LEMMA PlainRecords ==
    /\ Plainly(<<"start">>) /\ Plainly(<<"discovery">>) /\ Plainly(<<"resolution">>)
    /\ Plainly(<<"progress">>) /\ Plainly(<<"verification">>) /\ Plainly(<<"warning">>)
    /\ Plainly(<<"warning", "resolution">>) /\ Plainly(<<"verification", "resolution">>)
    /\ Plainly(<<"resolution", "resolution">>) /\ Plainly(<<"resolution", "write_boundary">>)
    /\ \A n \in 0..MaxProgress : Progress(n) = <<>> \/ Plainly(Progress(n))
<1>1. \A k \in {"start", "discovery", "resolution", "progress", "verification", "warning",
                "write_boundary"} : k \notin Terminal
  BY DEF Terminal
<1>2. /\ <<"warning", "resolution">> = Append(<<"warning">>, "resolution")
      /\ <<"verification", "resolution">> = Append(<<"verification">>, "resolution")
      /\ <<"resolution", "resolution">> = Append(<<"resolution">>, "resolution")
      /\ <<"resolution", "write_boundary">> = Append(<<"resolution">>, "write_boundary")
  OBVIOUS
<1>3. ASSUME NEW n \in 0..MaxProgress PROVE Progress(n) = <<>> \/ Plainly(Progress(n))
  <2>1. n \in Nat
    BY CommandLineAssumption
  <2>2. Progress(n) \in Seq({"progress"}) /\ Len(Progress(n)) = n
    BY <2>1 DEF Progress
  <2>3. \A i \in 1..Len(Progress(n)) : Progress(n)[i] = "progress"
    BY <2>1, <2>2 DEF Progress
  <2>4. QED BY <1>1, <2>2, <2>3 DEF Plainly, IsSeq
<1>4. QED BY <1>1, <1>2, <1>3, PlainOne, PlainAppend

LEMMA CataloguedSpeaks ==
    ASSUME NEW records, NEW g, Catalogued(records, g), at # "say",
           g \notin {"say", "ended"}, records = <<>> \/ Plainly(records)
    PROVE  Speaks
<1>1. Plainly(<<"discovery">>) /\ Plainly(<<"discovery">> \o records)
  BY PlainRecords, PlainConcat, Zenon DEF Terminal
<1>2. CASE FailWith(DownloadFailed)
  BY <1>2, VerdictSpeaks
<1>3. CASE at' = "say" /\ saying' = Pending(<<"discovery">>, "notfound", Success)
  BY <1>1, <1>3, PendingSpeaks
<1>4. CASE Say(<<"discovery">> \o records, g)
  BY <1>1, <1>4, SaySpeaks
<1>5. QED BY <1>2, <1>3, <1>4, Zenon DEF Catalogued

LEMMA AnswersSpeak == ASSUME Answers PROVE Speaks
<1> at # "say"
  BY DEF Answers, Versions, Devices, Status, Source, Download, NotFound, Answer, For, Handler
<1>1. CASE Versions \/ Download
  <2>1. \/ Catalogued(<<>>, "answered") \/ Catalogued(<<"resolution">>, "answered")
        \/ Catalogued(<<"resolution", "resolution">>, "request")
    BY <1>1, Zenon DEF Versions, Download
  <2>2. "answered" \notin {"say", "ended"} /\ "request" \notin {"say", "ended"}
    OBVIOUS
  <2>3. QED BY <2>1, <2>2, CataloguedSpeaks, PlainRecords, Zenon
<1>2. CASE Devices \/ Status \/ Source
  BY <1>2, SaySpeaks, VerdictSpeaks, PlainRecords, Zenon DEF Devices, Status, Source
<1>3. CASE NotFound \/ Answer
  BY <1>3, VerdictSpeaks, Zenon DEF NotFound, Answer
<1>4. QED BY <1>1, <1>2, <1>3, Zenon DEF Answers

LEMMA DownloadsSpeak == ASSUME Downloads PROVE Speaks
<1> at # "say"
  BY DEF Downloads, Request, RetrieveChecksum, RetrieveSignature, Reuse, LoadImage, HashImage, VerifyImage, Handler
<1>1. CASE Request \/ RetrieveChecksum \/ RetrieveSignature
  BY <1>1, SaySpeaks, VerdictSpeaks, PlainRecords, Zenon
  DEF Request, RetrieveChecksum, RetrieveSignature
<1>2. CASE Reuse \/ LoadImage \/ HashImage
  BY <1>2, SaySpeaks, VerdictSpeaks, PlainRecords, Zenon DEF Reuse, LoadImage, HashImage
<1>3. CASE VerifyImage
  <2>1. \A records \in {<<>>, <<"resolution">>} : Plainly(<<"verification">> \o records)
    BY PlainRecords, PlainConcat, Zenon DEF Terminal
  <2>2. \/ \E result : FailWith(result)
        \/ \E records \in {<<>>, <<"resolution">>}, g \in {"scan", "answered"} :
              Say(<<"verification">> \o records, g)
    BY <1>3, Zenon DEF VerifyImage
  <2>3. QED BY <2>1, <2>2, SaySpeaks, VerdictSpeaks, Zenon
<1>4. QED BY <1>1, <1>2, <1>3, Zenon DEF Downloads

LEMMA PreparesSpeak == ASSUME Prepares PROVE Speaks
<1> at # "say"
  BY DEF Prepares, LocalImage, CatalogImage, LiveSource, Scan, PlanOperation, Planned,
         For, Handler
<1>1. CASE LocalImage \/ LiveSource \/ Scan
  <2>1. \/ \E result : FailWith(result)
        \/ \E records \in {<<"warning", "resolution">>, <<"verification", "resolution">>,
                           <<"resolution">>, <<"discovery">>}, g \in {"scan", "plan"} :
              Say(records, g)
    BY <1>1 DEF LocalImage, LiveSource, Scan
  <2>2. QED BY <2>1, SaySpeaks, VerdictSpeaks, PlainRecords, Zenon
<1>2. CASE CatalogImage
  <2>1. \E g \in {"request", "scan"} : Catalogued(<<"resolution", "resolution">>, g)
    BY <1>2, Zenon DEF CatalogImage
  <2>2. QED BY <2>1, CataloguedSpeaks, PlainRecords, Zenon
<1>3. CASE PlanOperation
  <2>1. \A warned \in Warnings : /\ warned = <<>> \/ Plainly(warned)
                                 /\ Plainly(Append(warned, "resolution"))
    BY PlainRecords, PlainAppend, Zenon DEF Warnings, Terminal
  <2>2. \/ \E result : FailWith(result)
        \/ \E warned \in Warnings, g \in {"acknowledge", "planned"} :
              Say(warned, g) \/ Say(Append(warned, "resolution"), g)
    BY <1>3, Zenon DEF PlanOperation
  <2>3. QED BY <2>1, <2>2, SaySpeaks, VerdictSpeaks, Zenon
<1>4. CASE Planned
  BY <1>4, VerdictSpeaks, Zenon DEF Planned
<1>5. QED BY <1>1, <1>2, <1>3, <1>4, Zenon DEF Prepares

LEMMA ExecutingSpeak == ASSUME Executing PROVE Speaks
<1> at # "say"
  BY DEF Executing, Acknowledge, Revalidated, OpenDrive, WriteEnds, Settle, Handler
<1>1. CASE Acknowledge \/ WriteEnds
  <2>1. \/ \E result : FailWith(result)
        \/ \E records \in {<<"resolution", "write_boundary">>, <<"progress">>},
              g \in {"controller", "settle"} : Say(records, g)
    BY <1>1 DEF Acknowledge, WriteEnds
  <2>2. QED BY <2>1, SaySpeaks, VerdictSpeaks, PlainRecords, Zenon
<1>2. CASE Revalidated \/ OpenDrive
  BY <1>2, SaySpeaks, VerdictSpeaks, PlainRecords, Zenon DEF Revalidated, OpenDrive
<1>3. CASE Settle
  BY <1>3, VerdictSpeaks, Zenon DEF Settle
<1>4. QED BY <1>1, <1>2, <1>3, Zenon DEF Executing

LEMMA HandlerFrame ==
    ASSUME Answers \/ Downloads \/ Prepares \/ Executing
    PROVE  /\ UNCHANGED <<command, sequence, log, stream, code>>
           /\ at \notin {"say", "ended", "parse"}
           /\ Speaks
BY HandlersStand, AnswersSpeak, DownloadsSpeak, PreparesSpeak, ExecutingSpeak

\* The parts of OrderInv do not depend on where the command is.
LEMMA SpeaksKeeps ==
    ASSUME command' = command, command \in Command, OrderInv', NoVerdict(log)',
           NoVerdict(stream)', Speaks
    PROVE  VerdictInv'
<1>1. SayingInv' /\ LoggedInv' /\ UndecidedInv'
  BY Zenon DEF SayingInv, LoggedInv, UndecidedInv, Speaks
<1>2. Verdict' = Died
  BY DEF Verdict, Ended, Speaks
<1>3. QED BY <1>1, <1>2, Zenon DEF VerdictInv

LEMMA EndsKeeps ==
    ASSUME command' = command, command \in Command, OrderInv', at' = "ended",
           code' = Died \/ sequence' = 0
    PROVE  VerdictInv'
<1>1. SayingInv' /\ LoggedInv' /\ UndecidedInv'
  BY DEF SayingInv, LoggedInv, UndecidedInv
<1>2. Verdict' = Died
  BY DEF Verdict, Ended
<1>3. QED BY <1>1, <1>2, Zenon DEF VerdictInv

LEMMA SameOrder ==
    ASSUME UNCHANGED <<command, sequence, log, stream>>, OrderInv
    PROVE  OrderInv'
BY DEF OrderInv, OneVerdict, Numbered, Covered

LEMMA SameNoVerdict ==
    ASSUME UNCHANGED <<log, stream>>
    PROVE  /\ NoVerdict(log)' <=> NoVerdict(log)
           /\ NoVerdict(stream)' <=> NoVerdict(stream)
BY DEF NoVerdict

LEMMA HandlersKeepVerdict ==
    ASSUME VerdictInv, Answers \/ Downloads \/ Prepares \/ Executing
    PROVE  VerdictInv'
<1>1. /\ UNCHANGED <<command, sequence, log, stream, code>>
      /\ at \notin {"say", "ended", "parse"} /\ Speaks
  BY HandlerFrame
<1>2. OrderInv' /\ NoVerdict(log)' /\ NoVerdict(stream)'
  BY <1>1, SameOrder, SameNoVerdict DEF VerdictInv, UndecidedInv
<1>3. QED BY <1>1, <1>2, SpeaksKeeps DEF VerdictInv

LEMMA ThrowKeepsVerdict ==
    ASSUME VerdictInv, command' = command, OrderInv', at # "ended",
           ~OutsideTry => NoVerdict(log)' /\ NoVerdict(stream)',
           NEW result, Throw(result)
    PROVE  VerdictInv'
<1>1. CASE OutsideTry
  <2>1. at' = "ended" /\ code' = Died
    BY <1>1 DEF Throw
  <2>2. QED BY <2>1, EndsKeeps DEF VerdictInv
<1>2. CASE ~OutsideTry
  <2>1. Speaks
    BY <1>2, VerdictSpeaks DEF Throw
  <2>2. QED BY <1>2, <2>1, SpeaksKeeps DEF VerdictInv
<1>3. QED BY <1>1, <1>2

\* The log grows by the record that is said, whole or torn.
LEMMA LogGrows ==
    ASSUME CommandInv, VerdictInv, at = "say", ~saying.logged, NEW line,
           UNCHANGED <<command, stream>>, sequence' = sequence + 1,
           log' = log \/ (command.logs /\ log' = Append(log, Record(line))),
           command.logs \/ log' = log
    PROVE  /\ OrderInv'
           /\ saying.records[1] \notin Terminal => NoVerdict(log)'
           /\ NoVerdict(stream)'
<1>1. /\ IsSeq(log) /\ IsSeq(stream) /\ sequence \in Nat /\ OrderInv
      /\ NoVerdict(log) /\ NoVerdict(stream)
  BY DEF CommandInv, AnnouncedInv, CodeInv, VerdictInv, UndecidedInv
<1> DEFINE more == Append(log, Record(line))
<1>2. /\ OneVerdict(more) /\ Numbered(more, sequence + 1)
      /\ Record(line).kind \notin Terminal => NoVerdict(more)
      /\ Record(line).kind = saying.records[1]
  <2>1. Record(line).sequence = sequence + 1 /\ Record(line).kind = saying.records[1]
    BY DEF Record
  <2>2. QED BY <1>1, <2>1, AppendOrder DEF OrderInv
<1>3. /\ OneVerdict(stream)' /\ Numbered(stream, sequence)' /\ NoVerdict(stream)'
  <2>1. Numbered(stream, sequence + 1)
    BY <1>1, NumberedMore DEF OrderInv
  <2>2. QED BY <1>1, <2>1 DEF OrderInv, OneVerdict, Numbered, NoVerdict
<1>4. ~command'.logs => log' = <<>>
  BY <1>1 DEF OrderInv
<1>5. CASE log' = log
  <2>1. Numbered(log, sequence + 1)
    BY <1>1, NumberedMore DEF OrderInv
  <2>2. OneVerdict(log)' /\ Numbered(log, sequence)' /\ NoVerdict(log)'
        /\ (command'.logs => Covered')
    BY <1>1, <1>5, <2>1 DEF OrderInv, OneVerdict, Numbered, NoVerdict, Covered
  <2>3. QED BY <1>3, <1>4, <2>2 DEF OrderInv
<1>6. CASE command.logs /\ log' = more
  <2>1. /\ OneVerdict(log)' /\ Numbered(log, sequence)'
        /\ Record(line).kind \notin Terminal => NoVerdict(log)'
    <3> HIDE DEF more
    <3>1. QED BY <1>2, <1>6 DEF OneVerdict, Numbered, NoVerdict
  <2>2. Covered'
    <3>1. /\ Len(log) \in Nat /\ Len(more) = Len(log) + 1
          /\ \A i \in 1..Len(log) : more[i] = log[i]
      BY <1>1, AppendParts
    <3> HIDE DEF more
    <3>2. \A j \in 1..Len(log) : j \in 1..Len(log') /\ log'[j] = log[j]
      BY <1>6, <3>1
    <3>3. Covered /\ stream' = stream
      BY <1>1, <1>6 DEF OrderInv
    <3>4. QED BY <3>2, <3>3, Zenon DEF Covered
  <2>3. QED BY <1>2, <1>3, <1>4, <2>1, <2>2 DEF OrderInv
<1>7. QED BY <1>5, <1>6

LEMMA FirstRecord ==
    ASSUME VerdictInv, at = "say"
    PROVE  saying.then = "ended" <=> saying.records[1] \in Terminal
<1>1. ASSUME saying.then = "ended" PROVE saying.records[1] \in Terminal
  BY <1>1 DEF VerdictInv, SayingInv
<1>2. ASSUME saying.then # "ended" PROVE saying.records[1] \notin Terminal
  <2>1. PICK S : saying.records \in Seq(S)
    BY <1>2 DEF VerdictInv, SayingInv, Plainly, IsSeq
  <2>2. 1 \in 1..Len(saying.records)
    BY <1>2, <2>1 DEF VerdictInv, SayingInv, Plainly
  <2>3. QED BY <1>2, <2>2 DEF VerdictInv, SayingInv, Plainly
<1>3. QED BY <1>1, <1>2

LEMMA WriteLogKeepsVerdict == ASSUME CommandInv, VerdictInv, WriteLog PROVE VerdictInv'
<1>1. PICK r, t, c, l : saying = [records |-> r, then |-> t, code |-> c, logged |-> l]
  BY DEF CommandInv, Shaped
<1>2. /\ at = "say" /\ at' = "say" /\ UNCHANGED <<command, stream>> /\ ~saying.logged
      /\ saying' = [records |-> r, then |-> t, code |-> c, logged |-> TRUE]
      /\ sequence' = sequence + 1
      /\ log' = IF command.logs THEN Append(log, Record(NextLine)) ELSE log
  BY <1>1 DEF WriteLog, Emitting
<1>3. /\ saying'.records = saying.records /\ saying'.then = saying.then
      /\ saying'.code = saying.code
  BY <1>1, <1>2
<1>4. /\ OrderInv' /\ NoVerdict(stream)'
      /\ saying.records[1] \notin Terminal => NoVerdict(log)'
  <2>1. log' = log \/ (command.logs /\ log' = Append(log, Record(NextLine)))
    BY <1>2
  <2>2. command.logs \/ log' = log
    BY <1>2
  <2>3. QED BY <1>2, <2>1, <2>2, LogGrows
<1>5. SayingInv'
  BY <1>2, <1>3, Zenon DEF VerdictInv, SayingInv
<1>6. LoggedInv'
  <2>1. sequence' > 0 /\ \A i \in 1..Len(stream') : stream'[i].sequence < sequence'
    BY <1>2 DEF CommandInv, CodeInv, VerdictInv, OrderInv, Numbered
  <2>2. ASSUME command'.logs
        PROVE  log' # <<>> /\ Entire(log, Len(log))' /\ SameRecord(Rec(sequence), log[Len(log)])'
    <3> DEFINE more == Append(log, Record(NextLine))
    <3>1. log' = more /\ IsSeq(log)
      BY <1>2, <2>2 DEF CommandInv, AnnouncedInv
    <3>2. /\ Len(log) \in Nat /\ Len(more) = Len(log) + 1 /\ more # <<>>
          /\ \A i \in 1..Len(log) : more[i] = log[i]
          /\ more[Len(log) + 1] = Record(NextLine)
      BY <3>1, AppendParts
    <3> HIDE DEF more
    <3>3. more[Len(more)].line = NextLine
      BY <3>2 DEF Record
    <3>4. ASSUME Torn PROVE Len(more) > 1 /\ more[Len(more) - 1].line = "cut"
      <4>1. log # <<>> /\ log[Len(log)].line = "cut"
        BY <3>4 DEF Torn
      <4>2. Len(log) \in 1..Len(log)
        <5>1. PICK S : log \in Seq(S)
          BY <3>1 DEF IsSeq
        <5>2. QED BY <4>1, <5>1
      <4>3. Len(more) - 1 = Len(log)
        BY <3>2
      <4>4. QED BY <3>2, <4>1, <4>2, <4>3
    <3>5. Entire(more, Len(more))
      BY <3>3, <3>4 DEF Entire, NextLine
    <3>6. /\ Rec(sequence)'.sequence = Record(NextLine).sequence
          /\ Rec(sequence)'.kind = Record(NextLine).kind
          /\ Rec(sequence)'.code = Record(NextLine).code
      BY <1>2, <1>3 DEF Record, Rec
    <3>7. SameRecord(Rec(sequence)', more[Len(more)])
      BY <3>2, <3>6 DEF SameRecord
    <3>8. QED BY <3>1, <3>2, <3>5, <3>7 DEF Entire, SameRecord
  <2>3. QED BY <2>1, <2>2 DEF LoggedInv
<1>7. UndecidedInv'
  BY <1>2, <1>3, <1>4, FirstRecord DEF UndecidedInv
<1>8. Verdict' = Died
  BY <1>2 DEF Verdict, Ended
<1>9. QED BY <1>2, <1>4, <1>5, <1>6, <1>7, <1>8 DEF VerdictInv

LEMMA LogFailsKeepsVerdict == ASSUME CommandInv, VerdictInv, LogFails PROVE VerdictInv'
<1>1. PICK result \in CodeOfLostRecord : Throw(result)
  BY DEF LogFails
<1>2. /\ at = "say" /\ UNCHANGED <<command, stream>> /\ ~saying.logged /\ command.logs
      /\ sequence' = sequence + 1
      /\ log' = log \/ (command.logs /\ log' = Append(log, Record("cut")))
  BY DEF LogFails, Emitting
<1>3. /\ OrderInv' /\ NoVerdict(stream)'
      /\ saying.records[1] \notin Terminal => NoVerdict(log)'
  BY <1>2, LogGrows
<1>4. ~OutsideTry => saying.records[1] \notin Terminal
  BY <1>2, FirstRecord DEF OutsideTry
<1>5. QED BY <1>1, <1>2, <1>3, <1>4, ThrowKeepsVerdict

\* The record is in the stream if it is printed at all: the next one, or the step.
LEMMA ProceedKeepsVerdict ==
    ASSUME CommandInv, VerdictInv, at = "say", saying.logged, Proceed, OrderInv',
           UNCHANGED <<command, sequence, log>>,
           saying.then # "ended" => NoVerdict(stream)',
           saying.then = "ended" => stream' # <<>> /\ stream'[Len(stream')] = Rec(sequence)
    PROVE  VerdictInv'
<1>1. PICK r, t, c, l : saying = [records |-> r, then |-> t, code |-> c, logged |-> l]
  BY DEF CommandInv, Shaped
<1>2. CASE t # "ended"
  <2>1. Plainly(r) /\ NoVerdict(log) /\ NoVerdict(stream)'
    BY <1>1, <1>2 DEF VerdictInv, SayingInv, UndecidedInv
  <2>2. NoVerdict(log)'
    BY <2>1 DEF NoVerdict
  <2>3. CASE Len(r) > 1
    <3>1. /\ saying' = [records |-> Tail(r), then |-> t, code |-> c, logged |-> FALSE]
          /\ at' = "say"
      BY <1>1, <2>3 DEF Proceed
    <3>2. Plainly(Tail(r))
      <4>1. PICK S : r \in Seq(S)
        BY <2>1 DEF Plainly, IsSeq
      <4>2. /\ Tail(r) \in Seq(S) /\ Len(Tail(r)) = Len(r) - 1 /\ Len(r) \in Nat
            /\ \A i \in 1..Len(Tail(r)) : Tail(r)[i] = r[i + 1]
        BY <2>3, <4>1
      <4>3. \A i \in 1..Len(Tail(r)) : Tail(r)[i] \notin Terminal
        BY <2>1, <4>2 DEF Plainly
      <4>4. Tail(r) # <<>>
        BY <2>3, <4>2
      <4>5. QED BY <4>2, <4>3, <4>4 DEF Plainly, IsSeq
    <3>3. Speaks
      BY <1>2, <3>1, <3>2 DEF Speaks
    <3>4. QED BY <2>1, <2>2, <3>3, SpeaksKeeps DEF VerdictInv
  <2>4. CASE ~(Len(r) > 1)
    <3>1. at' = t
      BY <1>1, <2>4 DEF Proceed
    <3>2. Speaks
      BY <1>1, <1>2, <3>1 DEF Speaks, CommandInv, HeadingInv
    <3>3. QED BY <2>1, <2>2, <3>2, SpeaksKeeps DEF VerdictInv
  <2>5. QED BY <2>3, <2>4
<1>3. CASE t = "ended"
  <2>1. PICK kind \in Terminal : r = <<kind>>
    BY <1>1, <1>3 DEF VerdictInv, SayingInv
  <2>2. Len(r) = 1 /\ r[1] = kind
    BY <2>1
  <2>3. at' = "ended" /\ code' = saying.code
    <3>1. saying.records = r /\ saying.then = "ended" /\ ~(Len(r) > 1)
      BY <1>1, <1>3, <2>2
    <3>2. QED BY <3>1, Zenon DEF Proceed
  <2>4. Rec(sequence).kind \in Terminal /\ Rec(sequence).line = "own" /\ Rec(sequence).code = code'
    BY <1>1, <2>2, <2>3 DEF Rec
  <2>5. VerdictGiven(stream)'
    BY <1>1, <1>3, <2>4 DEF VerdictGiven, Entire
  <2>6. command.logs => VerdictGiven(log)'
    <3>1. command.logs => /\ log # <<>> /\ Entire(log, Len(log))
                          /\ SameRecord(Rec(sequence), log[Len(log)])
      BY DEF VerdictInv, LoggedInv
    <3>2. QED BY <2>4, <3>1 DEF VerdictGiven, SameRecord, Entire
  <2>7. SayingInv' /\ LoggedInv' /\ UndecidedInv'
    BY <2>3 DEF SayingInv, LoggedInv, UndecidedInv
  <2>8. QED BY <2>5, <2>6, <2>7 DEF VerdictInv
<1>4. QED BY <1>2, <1>3

\* The record of the log is given to the reader.
LEMMA StreamGrows ==
    ASSUME CommandInv, VerdictInv, at = "say", saying.logged,
           UNCHANGED <<command, sequence, log>>, stream' = Append(stream, Rec(sequence))
    PROVE  /\ OrderInv'
           /\ saying.records[1] \notin Terminal => NoVerdict(stream)'
           /\ stream' # <<>> /\ stream'[Len(stream')] = Rec(sequence)
<1>1. /\ IsSeq(log) /\ IsSeq(stream) /\ sequence \in Nat /\ sequence - 1 \in Nat
      /\ OrderInv /\ NoVerdict(stream)
  BY DEF CommandInv, AnnouncedInv, CodeInv, VerdictInv, LoggedInv, UndecidedInv
<1>2. Numbered(stream, sequence - 1)
  <2>1. \A i \in 1..Len(stream) : stream[i].sequence \in 0..sequence
                                  /\ stream[i].sequence < sequence
    BY DEF VerdictInv, OrderInv, LoggedInv, Numbered
  <2>2. QED BY <1>1, <2>1 DEF Numbered
<1> DEFINE more == Append(stream, Rec(sequence))
<1>3. Rec(sequence).sequence = (sequence - 1) + 1 /\ Rec(sequence).kind = saying.records[1]
  BY <1>1 DEF Rec
<1>4. /\ OneVerdict(more) /\ Numbered(more, (sequence - 1) + 1)
      /\ Rec(sequence).kind \notin Terminal => NoVerdict(more)
  BY <1>1, <1>2, <1>3, AppendOrder DEF OrderInv
<1>5. /\ Len(stream) \in Nat /\ Len(more) = Len(stream) + 1 /\ more # <<>>
      /\ \A i \in 1..Len(stream) : more[i] = stream[i]
      /\ more[Len(stream) + 1] = Rec(sequence)
  BY <1>1, AppendParts
<1> HIDE DEF more
<1>6. (sequence - 1) + 1 = sequence
  BY <1>1
<1>7. stream' = more
  BY DEF more
<1>8. OneVerdict(stream)' /\ Numbered(stream, sequence)'
  BY <1>4, <1>6, <1>7 DEF OneVerdict, Numbered
<1>9. OneVerdict(log)' /\ Numbered(log, sequence)' /\ (~command'.logs => log' = <<>>)
  BY <1>1 DEF OrderInv, OneVerdict, Numbered
<1>10. ASSUME command.logs PROVE Covered'
  <2>1. /\ Len(log) \in 1..Len(log) /\ SameRecord(Rec(sequence), log[Len(log)])
        /\ log[Len(log)].line # "cut"
    <3>1. PICK S : log \in Seq(S)
      BY <1>1 DEF IsSeq
    <3>2. /\ log # <<>> /\ SameRecord(Rec(sequence), log[Len(log)])
          /\ log[Len(log)].line # "cut"
      BY <1>10 DEF VerdictInv, LoggedInv, Entire
    <3>3. QED BY <3>1, <3>2
  <2>2. \A i \in 1..Len(more) : i \in 1..Len(stream) \/ i = Len(stream) + 1
    BY <1>5
  <2>3. \A i \in 1..Len(more) : \E j \in 1..Len(log) :
           SameRecord(more[i], log[j]) /\ log[j].line # "cut"
    BY <1>1, <1>5, <1>10, <2>1, <2>2 DEF OrderInv, Covered
  <2>4. QED BY <1>7, <2>3 DEF Covered
<1>11. QED BY <1>3, <1>4, <1>5, <1>7, <1>8, <1>9, <1>10 DEF OrderInv, NoVerdict

LEMMA PrintKeepsVerdict == ASSUME CommandInv, VerdictInv, PrintRecord PROVE VerdictInv'
<1>1. at = "say" /\ saying.logged /\ UNCHANGED <<command, sequence, log>>
  BY DEF PrintRecord, Emitting
<1>2. [Record("own") EXCEPT !.sequence = sequence] = Rec(sequence)
  <2>1. \A line : [Record(line) EXCEPT !.sequence = sequence]
                   = [sequence |-> sequence, kind |-> saying.records[1],
                      code |-> saying.code, line |-> line]
    BY DEF Record
  <2>2. QED BY <2>1, Zenon DEF Rec
<1>3. \/ Proceed /\ stream' = stream /\ ~Printed(saying.records[1])
      \/ Proceed /\ stream' = Append(stream, Rec(sequence))
      \/ stream' = stream /\ \E result \in CodeOfLostRecord : Throw(result)
      \/ stream' = stream /\ at' = "ended" /\ code' = Died
  BY <1>2 DEF PrintRecord
<1>4. ASSUME stream' = stream PROVE OrderInv'
  BY <1>1, <1>4, SameOrder DEF VerdictInv
<1>5. CASE Proceed /\ stream' = stream /\ ~Printed(saying.records[1])
  <2>1. saying.records[1] \notin Terminal
    BY <1>5 DEF Printed, VerdictInv, Command
  <2>2. saying.then # "ended" /\ NoVerdict(stream)'
    BY <1>1, <1>5, <2>1, FirstRecord DEF VerdictInv, UndecidedInv, NoVerdict
  <2>3. QED BY <1>1, <1>4, <1>5, <2>2, ProceedKeepsVerdict
<1>6. CASE Proceed /\ stream' = Append(stream, Rec(sequence))
  <2>1. /\ OrderInv'
        /\ saying.records[1] \notin Terminal => NoVerdict(stream)'
        /\ stream' # <<>> /\ stream'[Len(stream')] = Rec(sequence)
    BY <1>1, <1>6, StreamGrows
  <2>2. QED BY <1>1, <1>6, <2>1, FirstRecord, ProceedKeepsVerdict
<1>7. CASE stream' = stream /\ \E result \in CodeOfLostRecord : Throw(result)
  <2>1. ~OutsideTry => NoVerdict(log)' /\ NoVerdict(stream)'
    BY <1>1, <1>7 DEF OutsideTry, VerdictInv, UndecidedInv, NoVerdict
  <2>2. QED BY <1>1, <1>4, <1>7, <2>1, ThrowKeepsVerdict
<1>8. CASE stream' = stream /\ at' = "ended" /\ code' = Died
  BY <1>1, <1>4, <1>8, EndsKeeps DEF VerdictInv
<1>9. QED BY <1>3, <1>5, <1>6, <1>7, <1>8

LEMMA OutsideKeepVerdict ==
    ASSUME CommandInv, VerdictInv, Parse \/ Outside \/ UNCHANGED commandVars
    PROVE  VerdictInv'
<1>1. UNCHANGED <<command, sequence, log, stream>> /\ OrderInv'
  <2>1. UNCHANGED <<command, sequence, log, stream>>
    BY DEF Parse, Outside, ReaderLeaves, Interrupt, Killed, ChildEnds, Service!Finish,
           commandVars
  <2>2. QED BY <2>1, SameOrder DEF VerdictInv
<1>2. CASE Parse
  <2>1. at = "parse" /\ sequence = 0
    BY <1>2 DEF Parse, CommandInv, CodeInv
  <2>2. CASE Say(<<"start">>, "prepare")
    <3>1. Speaks
      BY <2>1, <2>2, SaySpeaks, PlainRecords
    <3>2. NoVerdict(log)' /\ NoVerdict(stream)'
      BY <1>1, <2>1 DEF VerdictInv, UndecidedInv, NoVerdict
    <3>3. QED BY <1>1, <3>1, <3>2, SpeaksKeeps DEF VerdictInv
  <2>3. CASE at' = "ended"
    BY <1>1, <2>1, <2>3, EndsKeeps DEF VerdictInv
  <2>4. QED BY <1>2, <2>2, <2>3 DEF Parse
<1>3. CASE Interrupt
  <2>1. ~OutsideTry => NoVerdict(log)' /\ NoVerdict(stream)'
    BY <1>1, <1>3 DEF OutsideTry, VerdictInv, UndecidedInv, NoVerdict, Interrupt, Ended
  <2>2. QED BY <1>1, <1>3, <2>1, ThrowKeepsVerdict DEF Interrupt, Ended
<1>4. CASE Killed
  BY <1>1, <1>4, EndsKeeps DEF Killed, VerdictInv
<1>5. CASE ReaderLeaves \/ ChildEnds \/ UNCHANGED commandVars
  <2>1. UNCHANGED <<at, saying, code>>
    BY <1>5 DEF ReaderLeaves, ChildEnds, Service!Finish, commandVars
  <2>2. SayingInv' /\ UndecidedInv'
    BY <1>1, <2>1 DEF VerdictInv, SayingInv, UndecidedInv, NoVerdict, Plainly, IsSeq
  <2>3. LoggedInv'
    BY <1>1, <2>1 DEF VerdictInv, LoggedInv, Rec, Entire, SameRecord
  <2>4. (Verdict # Died => VerdictGiven(stream) /\ (command.logs => VerdictGiven(log)))'
    BY <1>1, <2>1 DEF VerdictInv, Verdict, VerdictGiven, Entire, Ended
  <2>5. QED BY <1>1, <2>2, <2>3, <2>4 DEF VerdictInv
<1>6. QED BY <1>2, <1>3, <1>4, <1>5 DEF Outside

(* The log and the stream of a command hold their records in order and one *)
(* verdict at most, as the last; an exit code of the program's own is the  *)
(* code of that verdict in both (emit in cli_events.py, main in cli.py).   *)
(* In the log it has a line of its own unless the record before it was cut *)
(* short, in this run or an earlier one: then it shares that line.         *)
THEOREM OneLastVerdict == CommandSpec => []VerdictIsLast
<1>1. CommandInit => CommandInv /\ VerdictInv
  BY CommandStart, VerdictStart
<1>2. CommandInv /\ VerdictInv /\ [CommandNext]_commandVars => VerdictInv'
  BY HandlersKeepVerdict, WriteLogKeepsVerdict, LogFailsKeepsVerdict, PrintKeepsVerdict,
     OutsideKeepVerdict DEF CommandNext, Records
<1>3. VerdictInv => VerdictIsLast
  BY Zenon DEF VerdictInv, OrderInv, Covered, VerdictIsLast
<1>4. QED BY <1>1, <1>2, <1>3, CommandInvariant, PTL DEF CommandSpec

-----------------------------------------------------------------------------
(***************************************************************************)
(* Types.                                                                  *)
(***************************************************************************)

\* It goes on to a step, or has something to say first.
Utters ==
    \/ at' \in Step \ {"say"} /\ saying' = saying
    \/ /\ at' = "say" /\ saying'.then \in Step /\ saying'.code \in Code
       /\ saying'.logged \in BOOLEAN /\ saying'.records # <<>>

LEMMA Codes ==
    /\ {InvalidInput, SafetyRefusal, VerificationFailed, DownloadFailed, OperationFailed,
        InternalError, Success, Died, Usage} \subseteq Code
    /\ CodeOfLostRecord \subseteq Code
<1>1. {InvalidInput, SafetyRefusal, VerificationFailed, DownloadFailed, OperationFailed,
       InternalError, Success, Died, Usage} \subseteq Code
  BY DEF InvalidInput, SafetyRefusal, VerificationFailed, DownloadFailed, OperationFailed,
         InternalError, Success, Died, Usage, Code
<1>2. QED BY <1>1 DEF CodeOfLostRecord

LEMMA SayUtters ==
    ASSUME NEW records, NEW g \in Step \ {"say"}, Say(records, g)
    PROVE  Utters
<1>1. CASE records = <<>>
  BY <1>1 DEF Say, Utters
<1>2. CASE records # <<>>
  <2>1. Success \in Code
    BY Codes
  <2>2. /\ at' = "say" /\ saying'.then = g /\ saying'.code = Success
        /\ saying'.logged = FALSE /\ saying'.records = records
    BY <1>2 DEF Say, Pending
  <2>3. QED BY <1>2, <2>1, <2>2, Zenon DEF Utters
<1>3. QED BY <1>1, <1>2

LEMMA VerdictUtters ==
    ASSUME NEW result \in Code, FailWith(result) \/ Complete(result)
    PROVE  Utters
<1>1. PICK kind : saying' = Pending(<<kind>>, "ended", result) /\ at' = "say"
  BY DEF FailWith, Complete
<1>2. <<kind>> # <<>>
  OBVIOUS
<1>3. QED BY <1>1, <1>2 DEF Pending, Utters, Step

LEMMA CataloguedUtters ==
    ASSUME NEW records, NEW g \in Step \ {"say"}, Catalogued(records, g)
    PROVE  Utters
<1>1. CASE FailWith(DownloadFailed)
  BY <1>1, VerdictUtters, Codes
<1>2. CASE at' = "say" /\ saying' = Pending(<<"discovery">>, "notfound", Success)
  BY <1>2, Codes DEF Pending, Utters, Step
<1>3. CASE Say(<<"discovery">> \o records, g)
  BY <1>3, SayUtters
<1>4. QED BY <1>1, <1>2, <1>3, Zenon DEF Catalogued

LEMMA HandlersUtter ==
    ASSUME Answers \/ Downloads \/ Prepares \/ Executing
    PROVE  Utters
<1> USE Codes
<1>1. CASE Answers
  <2>1. \/ \E records : \E g \in {"answered", "request"} : Catalogued(records, g)
        \/ \E records : \E g \in {"answered", "notfound"} : Say(records, g)
        \/ \E result \in {InvalidInput, Success} : FailWith(result) \/ Complete(result)
    BY <1>1, Zenon DEF Answers, Versions, Devices, Status, Source, Download, NotFound, Answer
  <2>2. QED BY <2>1, CataloguedUtters, SayUtters, VerdictUtters DEF Step
<1>2. CASE Downloads
  <2>1. \/ \E records : \E g \in {"checksum", "signature", "reuse", "load", "hash", "verify",
                                "scan", "answered"} : Say(records, g)
        \/ \E result \in {DownloadFailed, VerificationFailed, InternalError} : FailWith(result)
    BY <1>2, Zenon DEF Downloads, Request, RetrieveChecksum, RetrieveSignature, Reuse, LoadImage, HashImage, VerifyImage
  <2>2. QED BY <2>1, SayUtters, VerdictUtters DEF Step
<1>3. CASE Prepares
  <2>1. \/ \E records : \E g \in {"request", "scan"} : Catalogued(records, g)
        \/ \E records : \E g \in {"scan", "plan", "acknowledge", "planned"} : Say(records, g)
        \/ \E result \in {InvalidInput, VerificationFailed, InternalError, SafetyRefusal,
                          Success} : FailWith(result) \/ Complete(result)
    BY <1>3, Zenon DEF Prepares, LocalImage, CatalogImage, LiveSource, Scan, PlanOperation,
                       Planned, Blockers
  <2>2. QED BY <2>1, CataloguedUtters, SayUtters, VerdictUtters DEF Step
<1>4. CASE Executing
  <2>1. \/ \E records : \E g \in {"controller", "open", "write", "settle"} : Say(records, g)
        \/ \E result \in {SafetyRefusal, VerificationFailed, OperationFailed, InternalError,
                          Success} : FailWith(result) \/ Complete(result)
    BY <1>4, Zenon DEF Executing, Acknowledge, Revalidated, OpenDrive, WriteEnds, Settle
  <2>2. QED BY <2>1, SayUtters, VerdictUtters DEF Step
<1>5. QED BY <1>1, <1>2, <1>3, <1>4

LEMMA ThrowUtters ==
    ASSUME CommandTypeOK, at # "ended", NEW result \in Code, Throw(result)
    PROVE  \/ Utters /\ code' = code
           \/ at' = "ended" /\ code' = Died /\ saying' = saying
<1>1. CASE OutsideTry
  BY <1>1 DEF Throw
<1>2. CASE ~OutsideTry
  <2>1. FailWith(result) /\ code' = code
    BY <1>2 DEF Throw
  <2>2. QED BY <2>1, VerdictUtters
<1>3. QED BY <1>1, <1>2

\* What a step may do to the variables that are not where the command is.
Carries ==
    /\ command' = command /\ sequence' \in Nat /\ faults' \in 0..MaxFaults
    /\ drive' \in {"untouched", "part", "whole"} /\ {reader', child'} \subseteq BOOLEAN

LEMMA UttersTypes ==
    ASSUME CommandTypeOK, Carries, at \notin {"ended", "say"} \/ at' = "say",
           Utters, code' = code
    PROVE  CommandTypeOK'
<1>1. CASE at' \in Step \ {"say"} /\ saying' = saying
  BY <1>1 DEF CommandTypeOK, Carries, Ended
<1>2. CASE /\ at' = "say" /\ saying'.then \in Step /\ saying'.code \in Code
           /\ saying'.logged \in BOOLEAN /\ saying'.records # <<>>
  BY <1>2 DEF CommandTypeOK, Carries, Step
<1>3. QED BY <1>1, <1>2 DEF Utters

LEMMA EndsTypes ==
    ASSUME CommandTypeOK, Carries, at' = "ended", code' \in Code, saying' = saying
    PROVE  CommandTypeOK'
BY DEF CommandTypeOK, Carries, Ended, Step

LEMMA RecordsTyped ==
    ASSUME CommandInv, VerdictInv, CommandTypeOK, Records
    PROVE  CommandTypeOK'
<1>1. /\ at = "say" /\ Carries
  <2>1. at = "say" /\ UNCHANGED <<command, reader, drive, child>>
    BY DEF Records, WriteLog, LogFails, PrintRecord, Emitting
  <2>2. sequence' \in {sequence, sequence + 1}
    BY DEF Records, WriteLog, LogFails, PrintRecord
  <2>3. faults' = faults \/ (faults < MaxFaults /\ faults' = faults + 1)
    BY DEF Records, WriteLog, LogFails, PrintRecord
  <2>4. sequence' \in Nat
    BY <2>2 DEF CommandTypeOK
  <2>5. faults' \in 0..MaxFaults
    BY <2>3, CommandLineAssumption DEF CommandTypeOK
  <2>6. QED BY <2>1, <2>4, <2>5 DEF Carries, CommandTypeOK
<1>2. PICK r, t, c, l : saying = [records |-> r, then |-> t, code |-> c, logged |-> l]
  BY DEF CommandInv, Shaped
<1>3. r # <<>> /\ t \in Step \ {"say"} /\ c \in Code /\ l \in BOOLEAN
  <2>1. t \in Step /\ c \in Code /\ l \in BOOLEAN /\ r # <<>>
    BY <1>1, <1>2 DEF CommandTypeOK, Ended
  <2>2. t # "say"
    BY <1>1, <1>2 DEF CommandInv, HeadingInv
  <2>3. QED BY <2>1, <2>2
<1>4. CASE WriteLog
  <2>1. /\ saying' = [records |-> r, then |-> t, code |-> c, logged |-> TRUE]
        /\ at' = "say" /\ code' = code
    BY <1>1, <1>2, <1>4 DEF WriteLog
  <2>2. Utters
    <3>1. /\ saying'.then = t /\ saying'.code = c /\ saying'.logged = TRUE
          /\ saying'.records = r
      BY <2>1
    <3>2. QED BY <1>3, <2>1, <3>1, Zenon DEF Utters
  <2>3. QED BY <1>1, <2>1, <2>2, UttersTypes
<1>5. ASSUME NEW result \in CodeOfLostRecord, Throw(result)
      PROVE  CommandTypeOK'
  <2>1. result \in Code /\ Died \in Code
    BY <1>5, Codes
  <2>2. CASE OutsideTry
    BY <1>1, <1>5, <2>1, <2>2, EndsTypes DEF Throw
  <2>3. CASE ~OutsideTry
    <3>1. FailWith(result) /\ code' = code
      BY <1>5, <2>3 DEF Throw
    <3>2. Utters /\ at' = "say"
      BY <2>1, <3>1, VerdictUtters DEF FailWith
    <3>3. QED BY <1>1, <3>1, <3>2, UttersTypes
  <2>4. QED BY <2>2, <2>3
<1>6. CASE Proceed
  <2>1. CASE Len(r) > 1
    <3>1. /\ saying' = [records |-> Tail(r), then |-> t, code |-> c, logged |-> FALSE]
          /\ at' = "say" /\ code' = code
      BY <1>1, <1>2, <1>6, <2>1 DEF Proceed
    <3>2. Tail(r) # <<>>
      <4>1. t # "ended" => IsSeq(r)
        BY <1>1, <1>2 DEF VerdictInv, SayingInv, Plainly
      <4>2. t # "ended"
        <5>1. t = "ended" => \E kind : r = <<kind>>
          BY <1>1, <1>2 DEF VerdictInv, SayingInv
        <5>2. \A kind : Len(<<kind>>) = 1
          OBVIOUS
        <5>3. t = "ended" => Len(r) = 1
          BY <5>1, <5>2, Zenon
        <5>4. ~(1 > 1)
          OBVIOUS
        <5>5. QED BY <2>1, <5>3, <5>4, Zenon
      <4>3. PICK S : r \in Seq(S)
        BY <4>1, <4>2 DEF IsSeq
      <4>4. Len(Tail(r)) = Len(r) - 1 /\ Len(r) \in Nat
        BY <4>3, <1>3
      <4>5. Len(<<>>) = 0
        OBVIOUS
      <4>6. Len(Tail(r)) > 0
        BY <2>1, <4>4
      <4>7. Tail(r) = <<>> => Len(Tail(r)) = 0
        BY <4>5, Zenon
      <4>8. QED BY <4>6, <4>7
    <3>3. Utters
      <4>1. /\ saying'.then = t /\ saying'.code = c /\ saying'.logged = FALSE
            /\ saying'.records = Tail(r)
        BY <3>1
      <4>2. QED BY <1>3, <3>1, <3>2, <4>1, Zenon DEF Utters
    <3>4. QED BY <1>1, <3>1, <3>3, UttersTypes
  <2>2. CASE ~(Len(r) > 1)
    <3>1. /\ at' = t /\ saying' = NothingToSay
          /\ code' = IF t = "ended" THEN c ELSE code
      BY <1>1, <1>2, <1>6, <2>2 DEF Proceed
    <3>2. /\ saying'.then = "ended" /\ saying'.code = Success /\ saying'.logged = FALSE
          /\ saying'.records = <<>>
      BY <3>1 DEF NothingToSay
    <3>3. code' \in Code
      BY <1>3, <3>1 DEF CommandTypeOK
    <3>4. saying'.logged \in BOOLEAN
      BY <3>2, Zenon
    <3>5. QED BY <1>1, <1>3, <3>1, <3>2, <3>3, <3>4, Codes
              DEF CommandTypeOK, Carries, Step, Ended
  <2>3. QED BY <2>1, <2>2
<1>7. CASE at' = "ended" /\ code' = Died /\ saying' = saying
  BY <1>1, <1>7, Codes, EndsTypes
<1>8. CASE LogFails
  BY <1>5, <1>8 DEF LogFails
<1>9. CASE PrintRecord
  BY <1>5, <1>6, <1>7, <1>9 DEF PrintRecord
<1>10. QED BY <1>4, <1>8, <1>9 DEF Records

LEMMA CommandTypesStep ==
    ASSUME CommandInv, VerdictInv, CommandTypeOK, [CommandNext]_commandVars
    PROVE  CommandTypeOK'
<1>1. CASE Records
  BY <1>1, RecordsTyped
<1>2. CASE Answers \/ Downloads \/ Prepares \/ Executing
  <2>1. /\ UNCHANGED <<command, sequence, log, stream, code>>
        /\ at \notin {"say", "ended"}
    BY <1>2, HandlerFrame
  <2>2. UNCHANGED <<reader, faults>>
    BY <1>2 DEF Answers, Versions, Devices, Status, Source, Download, NotFound, Answer,
       Downloads, Request, RetrieveChecksum, RetrieveSignature, Reuse, LoadImage, HashImage, VerifyImage, Prepares,
       LocalImage, CatalogImage, LiveSource, Scan, PlanOperation, Planned, Executing,
       Acknowledge, Revalidated, OpenDrive, WriteEnds, Settle, For, Handler
  <2>3. \/ UNCHANGED <<drive, child>>
        \/ drive' = "part" /\ child' = TRUE
    BY <1>2 DEF Answers, Versions, Devices, Status, Source, Download, NotFound, Answer,
       Downloads, Request, RetrieveChecksum, RetrieveSignature, Reuse, LoadImage, HashImage, VerifyImage, Prepares,
       LocalImage, CatalogImage, LiveSource, Scan, PlanOperation, Planned, Executing,
       Acknowledge, Revalidated, OpenDrive, Service!Open, WriteEnds, Settle, For, Handler
  <2>4. Carries
    <3>1. drive' \in {"untouched", "part", "whole"} /\ {reader', child'} \subseteq BOOLEAN
      BY <2>2, <2>3 DEF CommandTypeOK
    <3>2. QED BY <2>1, <2>2, <3>1 DEF CommandTypeOK, Carries
  <2>5. QED BY <1>2, <2>1, <2>4, HandlersUtter, UttersTypes
<1>3. CASE Parse
  <2>1. Carries /\ at = "parse"
    BY <1>3 DEF Parse, Carries, CommandTypeOK
  <2>2. CASE Say(<<"start">>, "prepare") /\ code' = code
    BY <2>1, <2>2, SayUtters, UttersTypes DEF Step
  <2>3. CASE at' = "ended" /\ code' \in {Usage, Success} /\ saying' = saying
    BY <2>1, <2>3, Codes, EndsTypes
  <2>4. QED BY <1>3, <2>2, <2>3 DEF Parse
<1>4. CASE Interrupt
  <2>1. Carries /\ at # "ended" /\ Throw(InternalError)
    BY <1>4 DEF Interrupt, Ended, Carries, CommandTypeOK
  <2>2. CASE OutsideTry
    BY <2>1, <2>2, Codes, EndsTypes DEF Throw
  <2>3. CASE ~OutsideTry
    <3>1. FailWith(InternalError) /\ code' = code
      BY <2>1, <2>3 DEF Throw
    <3>2. Utters /\ at' = "say"
      BY <3>1, Codes, VerdictUtters DEF FailWith
    <3>3. QED BY <2>1, <3>1, <3>2, UttersTypes
  <2>4. QED BY <2>2, <2>3
<1>5. CASE Killed
  <2>1. Carries
    BY <1>5 DEF Killed, Carries, CommandTypeOK
  <2>2. QED BY <1>5, <2>1, Codes, EndsTypes DEF Killed
<1>6. CASE ReaderLeaves
  BY <1>6 DEF ReaderLeaves, CommandTypeOK, Ended
<1>7. CASE ChildEnds
  <2>1. /\ child' = FALSE /\ drive' \in {"part", "whole"}
        /\ UNCHANGED <<command, at, saying, sequence, reader, faults, code>>
    BY <1>7 DEF ChildEnds, Service!Finish
  <2>2. {reader', child'} \subseteq BOOLEAN
    BY <2>1 DEF CommandTypeOK
  <2>3. QED BY <2>1, <2>2 DEF CommandTypeOK, Ended
<1>8. CASE UNCHANGED commandVars
  BY <1>8 DEF commandVars, CommandTypeOK, Ended
<1>9. QED BY <1>1, <1>2, <1>3, <1>4, <1>5, <1>6, <1>7, <1>8 DEF CommandNext, Outside

(* Every variable of a command has its type at every step.                 *)
THEOREM CommandTyped == CommandSpec => []CommandTypeOK
<1>1. CommandInit => CommandInv /\ VerdictInv /\ CommandTypeOK
  <2>1. CommandInit => CommandTypeOK
    <3> SUFFICES ASSUME CommandInit PROVE CommandTypeOK
      OBVIOUS
    <3>1. /\ saying.then = "ended" /\ saying.code = Success /\ saying.logged = FALSE
          /\ saying.records = <<>>
      BY DEF CommandInit, NothingToSay
    <3>2. saying.logged \in BOOLEAN /\ {reader, child} \subseteq BOOLEAN
      BY <3>1 DEF CommandInit
    <3>3. sequence \in Nat /\ faults \in 0..MaxFaults
      BY CommandLineAssumption DEF CommandInit
    <3>4. QED BY <3>1, <3>2, <3>3, Codes DEF CommandInit, CommandTypeOK, Step, Ended
  <2>2. QED BY <2>1, CommandStart, VerdictStart
<1>2. CommandInv /\ VerdictInv /\ [CommandNext]_commandVars => VerdictInv'
  BY HandlersKeepVerdict, WriteLogKeepsVerdict, LogFailsKeepsVerdict, PrintKeepsVerdict,
     OutsideKeepVerdict DEF CommandNext, Records
<1>3. QED BY <1>1, <1>2, CommandInvariant, CommandTypesStep, PTL DEF CommandSpec

-----------------------------------------------------------------------------
(***************************************************************************)
(* The three components side by side.                                      *)
(***************************************************************************)

LEMMA EachRuns ==
    MCSpec => CatalogSpec /\ ImageSpec /\ CommandSpec
<1>1. MCInit => CatalogInit /\ ImageInit /\ CommandInit
  BY DEF MCInit
<1>2. [MCNext]_allVars => [CatalogNext]_catalogVars /\ [ImageNext]_imageVars
                          /\ [CommandNext]_commandVars
  BY Zenon DEF MCNext, CatalogRuns, ImageRuns, CommandRuns, allVars
<1>3. QED BY <1>1, <1>2, PTL DEF MCSpec, CatalogSpec, ImageSpec, CommandSpec

(* Catalog, image files and command line, when they run side by side, keep *)
(* every variable within its type.                                         *)
THEOREM AllTyped == MCSpec => []TypesOK
<1>1. CatalogTypeOK /\ ImageTypeOK /\ CommandTypeOK => TypesOK
  BY Zenon DEF TypesOK
<1>2. QED BY <1>1, EachRuns, CatalogTyped, ImageTyped, CommandTyped, PTL
=============================================================================
