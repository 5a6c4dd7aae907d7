--------------------------- MODULE DownloadProofs ---------------------------
(***************************************************************************)
(* What is written as verified was verified, for every set of releases, of *)
(* command-line runs and of files found, and any number of files put in    *)
(* place by hand; and what is asked for download is what the window shows, *)
(* for any number of releases, of refreshes and of clicks.                 *)
(***************************************************************************)
EXTENDS VerifiedImage, Catalog, TLAPS

Maybe(S) == S \cup {Nothing}
RecordTypes == [path : Maybe(Path), sha256 : Maybe(Bytes), signature : Maybe(Bytes)]

FieldTypes ==
    /\ pc \in [Session -> Stage]
    /\ want \in [Session -> Maybe(Image)]
    /\ path \in [Session -> Maybe(Path)] /\ target \in [Session -> Maybe(Path)]
    /\ digest \in [Session -> Maybe(Bytes)] /\ signature \in [Session -> Maybe(Bytes)]
    /\ part \in [Session -> Maybe(Bytes)] /\ opened \in [Session -> Maybe(Bytes)]
    /\ record \in [Session -> RecordTypes]

Shape ==
    /\ file \in [Path -> Content] /\ changes \in Nat
    /\ FieldTypes
    /\ altered \in [Session -> BOOLEAN] /\ late \in [Session -> BOOLEAN]

\* The path in the window is the one of the latest checksum.
Latest ==
    /\ chosen \in Maybe(Path) /\ checksum \in Maybe(Path)
    /\ jobs \in Seq([path : Path, done : BOOLEAN])
    /\ jobs # << >> => /\ jobs[Len(jobs)].path = chosen
                       /\ jobs[Len(jobs)].done => checksum = chosen

\* Where a session may hold what.
Stages(s) ==
    /\ pc[s] \in InDownload \cup {"ready"} => path[s] \in Path
    /\ pc[s] \in {"planning", "written"} => target[s] \in Path
    /\ pc[s] \in {"metadata", "signing", "looking", "loading"} => want[s] \in Image
    /\ part[s] # Nothing =>
          pc[s] \in {"hashing", "checking", "promoting", "failing", "killed"}
    /\ pc[s] \in {"idle"} \cup InDownload => record[s].path = Nothing

\* What is known of the candidate at each step of its verification.
Candidates(s) ==
    /\ pc[s] = "checking" =>
          /\ digest[s] \in Bytes
          /\ part[s] # Nothing => part[s] = digest[s]
          /\ part[s] = Nothing /\ ~altered[s] => file[path[s]] = digest[s]
    /\ pc[s] = "promoting" =>
          part[s] \in Image /\ part[s] = digest[s] /\ part[s] = signature[s]
    /\ pc[s] = "verified" => /\ digest[s] \in Bytes
                             /\ ~altered[s] => digest[s] \in Image /\ digest[s] = signature[s]
    /\ pc[s] = "loading" \/ (part[s] # Nothing /\ pc[s] # "killed" /\ pc[s] # "failing") =>
          altered[s] \/ file[path[s]] = Nothing

\* What the record means, and what it means for the write.
Recordings(s) ==
    /\ record[s].path # Nothing /\ ~altered[s] =>
          record[s].sha256 \in Image /\ record[s].sha256 = record[s].signature
    /\ pc[s] = "planning" /\ Applies(s, target[s]) /\ ~late[s] =>
          file[target[s]] = record[s].sha256
    /\ pc[s] = "written" /\ Applies(s, target[s]) /\ ~late[s] =>
          opened[s] = record[s].sha256

Consistent(s) == Stages(s) /\ Candidates(s) /\ Recordings(s)

ImageInv == Shape /\ Latest /\ \A s \in Session : Consistent(s)

-----------------------------------------------------------------------------
LEMMA Names ==
    /\ Junk \notin Image /\ Nothing \notin Image /\ Folder \notin Image
    /\ Nothing \notin Bytes /\ Folder \notin Bytes /\ Path = Image
    /\ Junk \in Bytes /\ Image \subseteq Bytes /\ Gui \in Session /\ Cli \subseteq Session
BY ImageAssumption DEF Bytes, Junk, Nothing, Folder, Path, Session

LEMMA ImageStart == ASSUME ImageInit PROVE ImageInv
<1> USE DEF ImageInit
<1>1. file \in [Path -> Content] /\ changes \in Nat
  BY FoundAssumption
<1>2. FieldTypes
  BY DEF FieldTypes, Maybe, RecordTypes, Stage, NoRecord
<1>3. altered \in [Session -> BOOLEAN] /\ late \in [Session -> BOOLEAN]
  BY Zenon
<1>4. Latest
  BY DEF Latest, Maybe
<1>5. \A s \in Session : Consistent(s)
  BY DEF Consistent, Stages, Candidates, Recordings, NoRecord, InDownload, Nothing
<1>6. QED BY <1>1, <1>2, <1>3, <1>4, <1>5 DEF ImageInv, Shape

-----------------------------------------------------------------------------
\* Every step keeps the values where they belong.
LEMMA FieldsStep ==
    ASSUME ImageInv, [ImageNext]_imageVars
    PROVE  FieldTypes'
<1> USE Names DEF FieldTypes, Maybe, RecordTypes
<1>0. file \in [Path -> Content] /\ FieldTypes /\ \A s \in Session : Stages(s)
  BY DEF ImageInv, Shape, Consistent
<1>1. ASSUME NEW s \in Session, Downloading(s) PROVE FieldTypes'
  <2>1. CASE FetchChecksum(s)
    <3>1. \E q \in Stage : Goto(s, q)
      BY <2>1 DEF FetchChecksum, Stage
    <3>2. \E d \in Maybe(Bytes) : digest' = digest \/ digest' = [digest EXCEPT ![s] = d]
      <4>1. Published(s) \cup {Junk} \subseteq Bytes
        BY <1>0, <2>1 DEF FetchChecksum, Published, Stages
      <4>2. QED BY <2>1, <4>1 DEF FetchChecksum
    <3>3. UNCHANGED <<want, path, target, signature, part, opened, record>>
      BY <2>1 DEF FetchChecksum
    <3>4. QED BY <1>0, <3>1, <3>2, <3>3 DEF Goto
  <2>2. CASE FetchSignature(s)
    <3>1. \E q \in Stage : Goto(s, q)
      BY <2>2 DEF FetchSignature, Stage
    <3>2. \E g \in Maybe(Bytes) :
             signature' = signature \/ signature' = [signature EXCEPT ![s] = g]
      <4>1. Published(s) \cup {Junk} \subseteq Bytes
        BY <1>0, <2>2 DEF FetchSignature, Published, Stages
      <4>2. QED BY <2>2, <4>1 DEF FetchSignature
    <3>3. UNCHANGED <<want, path, target, digest, part, opened, record>>
      BY <2>2 DEF FetchSignature
    <3>4. QED BY <1>0, <3>1, <3>2, <3>3 DEF Goto
  <2>7. CASE Look(s) \/ Hash(s) \/ CheckSignature(s)
    <3>1. \E q \in Stage : Goto(s, q)
      <4>1. CASE Look(s)
        BY <1>0, <4>1 DEF Look, AfterFound, Stage, Content, Stages, InDownload
      <4>2. CASE Hash(s)
        BY <4>2 DEF Hash, Stage
      <4>3. CASE CheckSignature(s)
        BY <4>3 DEF CheckSignature, Stage
      <4>4. QED BY <2>7, <4>1, <4>2, <4>3
    <3>2. UNCHANGED <<want, path, target, digest, signature, part, opened, record>>
      BY <2>7 DEF Look, Hash, CheckSignature
    <3>3. QED BY <1>0, <3>1, <3>2 DEF Goto
  <2>3. CASE Load(s)
    <3>1. \E q \in Stage : Goto(s, q)
      BY <2>3 DEF Load, AfterLoad, Stage
    <3>2. \E b \in Bytes : part' = [part EXCEPT ![s] = b]
      BY <1>0, <2>3 DEF Load, Stages
    <3>3. UNCHANGED <<want, path, target, digest, signature, opened, record>>
      BY <2>3 DEF Load
    <3>4. QED BY <1>0, <3>1, <3>2, <3>3 DEF Goto
  <2>4. CASE Promote(s)
    BY <1>0, <2>4 DEF Promote, Goto, Stage
  <2>5. CASE Fail(s)
    BY <1>0, <2>5 DEF Fail, PartRemoved, Forget, ForgetPath, Goto, Stage
  <2>6. QED BY <1>1, <2>1, <2>2, <2>3, <2>4, <2>5, <2>7 DEF Downloading
<1>2. ASSUME NEW s \in Session, Kill(s) \/ OpenImage(s) PROVE FieldTypes'
  <2>1. CASE Kill(s)
    BY <1>0, <2>1 DEF Kill, Forget, ForgetPath, Goto, Stage
  <2>2. CASE OpenImage(s)
    BY <1>0, <2>2 DEF OpenImage, Goto, Stage
  <2>3. QED BY <1>2, <2>1, <2>2
<1>3. ASSUME NEW s \in Session,
             StartFromCommandLine(s) \/ StartLocal(s) \/ StartFromWindow
      PROVE  FieldTypes'
  <2>1. CASE StartFromCommandLine(s)
    BY <1>0, <2>1 DEF StartFromCommandLine, Ask, Goto, Stage
  <2>2. CASE StartFromWindow
    BY <1>0, <2>2 DEF StartFromWindow, Ask, NoRecord, Goto, Stage
  <2>3. CASE StartLocal(s)
    <3>1. \E q \in Stage : Goto(s, q)
      BY <2>3 DEF StartLocal, Stage
    <3>2. \E l \in Path : path' = [path EXCEPT ![s] = l]
      BY <2>3 DEF StartLocal
    <3>3. \/ UNCHANGED <<digest, signature>>
          \/ \E v \in Bytes : /\ digest' = [digest EXCEPT ![s] = v]
                              /\ signature' = [signature EXCEPT ![s] = v]
      BY <2>3 DEF StartLocal
    <3>4. UNCHANGED <<want, target, part, opened, record>>
      BY <2>3 DEF StartLocal
    <3>5. /\ digest' \in [Session -> Maybe(Bytes)]
          /\ signature' \in [Session -> Maybe(Bytes)]
      <4>1. CASE UNCHANGED <<digest, signature>>
        BY <1>0, <4>1
      <4>2. CASE \E v \in Bytes : /\ digest' = [digest EXCEPT ![s] = v]
                                  /\ signature' = [signature EXCEPT ![s] = v]
        BY <1>0, <4>2
      <4>3. QED BY <3>3, <4>1, <4>2, Zenon
    <3>6. pc' \in [Session -> Stage] /\ path' \in [Session -> Maybe(Path)]
      BY <1>0, <3>1, <3>2 DEF Goto
    <3>7. QED BY <1>0, <3>4, <3>5, <3>6
  <2>4. QED BY <1>3, <2>1, <2>2, <2>3
<1>4. ASSUME NEW s \in Session, FinishOnCommandLine(s) \/ (s = Gui /\ FinishInWindow)
      PROVE  FieldTypes'
  <2>1. [path |-> path[s], sha256 |-> digest[s], signature |-> signature[s]] \in RecordTypes
    BY <1>0
  <2>2. /\ \E q \in Stage : Goto(s, q)
        /\ record' = Recorded(s) /\ Forget(s) /\ UNCHANGED <<path, part, target, opened>>
    BY <1>4 DEF FinishOnCommandLine, FinishInWindow, Stage
  <2>3. record' \in [Session -> RecordTypes]
    BY <1>0, <2>1, <2>2 DEF Recorded
  <2>4. /\ want' = [want EXCEPT ![s] = Nothing] /\ digest' = [digest EXCEPT ![s] = Nothing]
        /\ signature' = [signature EXCEPT ![s] = Nothing]
    BY <2>2 DEF Forget
  <2>5. /\ want' \in [Session -> Maybe(Image)] /\ digest' \in [Session -> Maybe(Bytes)]
        /\ signature' \in [Session -> Maybe(Bytes)]
    BY <1>0, <2>4
  <2>6. pc' \in [Session -> Stage]
    BY <1>0, <2>2 DEF Goto
  <2>7. QED BY <1>0, <2>2, <2>3, <2>5, <2>6
<1>5. CASE WriteFromWindow \/ \E s \in Cli : WriteFromCommandLine(s)
  <2>1. \E s \in Session, l \in Maybe(Path) : Rehash(s, l)
    <3>1. CASE WriteFromWindow
      <4>1. chosen \in Maybe(Path)
        BY DEF ImageInv, Latest
      <4>2. QED BY <3>1, <4>1 DEF WriteFromWindow
    <3>2. ASSUME NEW s \in Cli, WriteFromCommandLine(s)
          PROVE  \E l \in Maybe(Path) : Rehash(s, l)
      BY <1>0, <3>2 DEF WriteFromCommandLine
    <3>3. QED BY <1>5, <3>1, <3>2
  <2>2. PICK s \in Session, l \in Maybe(Path) : Rehash(s, l)
    BY <2>1
  <2>3. \E q \in Stage : Goto(s, q)
    BY <2>2 DEF Rehash, Stage
  <2>4. /\ target' = [target EXCEPT ![s] = l]
        /\ UNCHANGED <<want, path, digest, signature, part, record, opened>>
    BY <2>2 DEF Rehash
  <2>5. QED BY <1>0, <2>3, <2>4 DEF Goto
<1>6. CASE \/ \E p \in Path : PickImage(p) \/ ChangeFile(p)
           \/ \E j \in DOMAIN jobs : ApplyLocalChecksum(j)
  BY <1>0, <1>6 DEF PickImage, ChangeFile, ApplyLocalChecksum, sessionVars, NoRecord
<1>7. CASE UNCHANGED imageVars
  BY <1>0, <1>7 DEF imageVars
<1>8. QED
  BY <1>1, <1>2, <1>3, <1>4, <1>5, <1>6, <1>7 DEF ImageNext, CommandLine, Window

\* The history notes every change of a file by somebody else.
Noted(s) ==
    /\ altered[s] => altered'[s]
    /\ late[s] => late'[s]
    /\ \A p \in Path : \/ file'[p] = file[p]
                       \/ /\ altered'[s] \/ pc[s] \in Over \/ path[s] # p
                          /\ late'[s] \/ pc[s] # "planning" \/ target[s] # p

Same(s) ==
    /\ pc'[s] = pc[s] /\ want'[s] = want[s] /\ path'[s] = path[s] /\ target'[s] = target[s]
    /\ digest'[s] = digest[s] /\ signature'[s] = signature[s] /\ part'[s] = part[s]
    /\ opened'[s] = opened[s] /\ record'[s] = record[s]

\* A session that does nothing stays consistent.
LEMMA StaysConsistent ==
    ASSUME NEW s \in Session, Consistent(s), Same(s), Noted(s)
    PROVE  Consistent(s)'
<1> USE DEF Consistent, Same, Noted
<1>1. Stages(s)'
  BY DEF Stages
<1>2. Candidates(s)'
  BY DEF Candidates, Stages, Over, InDownload
<1>3. Recordings(s)'
  BY DEF Recordings, Stages, Applies
<1>4. QED BY <1>1, <1>2, <1>3

LEMMA PutNotes ==
    ASSUME Shape, NEW p \in Path, NEW c \in Content, NEW except, PutFile(p, c, except),
           NEW s \in Session
    PROVE  /\ s \notin except => Noted(s)
           /\ altered[s] => altered'[s]
           /\ late[s] => late'[s]
           /\ file' = [file EXCEPT ![p] = c]
<1>1. /\ altered'[s] <=> \/ altered[s]
                         \/ pc[s] \notin Over /\ s \notin except /\ path[s] = p /\ file[p] # c
      /\ late'[s] <=> (late[s] \/ (pc[s] = "planning" /\ target[s] = p /\ file[p] # c))
  BY Zenon DEF PutFile
<1>2. file' = [file EXCEPT ![p] = c]
  BY DEF PutFile
<1>3. \A q \in Path : file'[q] = IF q = p THEN c ELSE file[q]
  BY <1>2 DEF Shape
<1>4. QED BY <1>1, <1>2, <1>3 DEF Noted

LEMMA ShapeStep ==
    ASSUME ImageInv, [ImageNext]_imageVars
    PROVE  Shape'
<1>0. Shape /\ \A s \in Session : Stages(s) /\ Candidates(s)
  BY DEF ImageInv, Consistent
<1>1. FieldTypes'
  BY FieldsStep
<1>2. CASE (\E s \in Session : Promote(s)) \/ (\E p \in Path : ChangeFile(p))
  <2>1. \E p \in Path, c \in Content, except \in SUBSET Session :
           PutFile(p, c, except) \/ UNCHANGED <<file, altered, late>>
    <3>1. ASSUME NEW s \in Session, Promote(s)
          PROVE  \E p \in Path, c \in Content, except \in SUBSET Session :
                    PutFile(p, c, except) \/ UNCHANGED <<file, altered, late>>
      <4>1. path[s] \in Path /\ part[s] \in Content
        BY <1>0, <3>1, Names DEF Promote, Stages, Candidates, InDownload, Content
      <4>2. PutFile(path[s], part[s], {s}) \/ UNCHANGED <<file, altered, late>>
        BY <3>1 DEF Promote
      <4>3. QED BY <4>1, <4>2, Zenon
    <3>2. ASSUME NEW q \in Path, ChangeFile(q)
          PROVE  \E p \in Path, c \in Content, except \in SUBSET Session :
                    PutFile(p, c, except) \/ UNCHANGED <<file, altered, late>>
      BY <3>2, Zenon DEF ChangeFile, Content
    <3>3. QED BY <1>2, <3>1, <3>2, Zenon
  <2>2. PICK p \in Path, c \in Content, except \in SUBSET Session :
            PutFile(p, c, except) \/ UNCHANGED <<file, altered, late>>
    BY <2>1
  <2>3. file' \in [Path -> Content]
    BY <1>0, <2>2 DEF PutFile, Shape
  <2>4. altered' \in [Session -> BOOLEAN] /\ late' \in [Session -> BOOLEAN]
    <3>1. CASE PutFile(p, c, except)
      BY <3>1, Zenon DEF PutFile
    <3>2. CASE UNCHANGED <<file, altered, late>>
      BY <1>0, <3>2, Zenon DEF Shape
    <3>3. QED BY <2>2, <3>1, <3>2, Zenon
  <2>5. changes' \in Nat
    <3>1. (changes' = changes \/ changes' = changes + 1) /\ changes \in Nat
      BY <1>0, <1>2, Zenon DEF Promote, ChangeFile, Shape
    <3>2. QED BY <3>1
  <2>6. QED BY <1>1, <2>3, <2>4, <2>5, Zenon DEF Shape
<1>3. ASSUME /\ UNCHANGED <<file, changes>>
             /\ UNCHANGED altered \/ \E s \in Session : altered' = [altered EXCEPT ![s] = FALSE]
             /\ UNCHANGED late \/ \E s \in Session : late' = [late EXCEPT ![s] = FALSE]
      PROVE  Shape'
  <2>1. altered' \in [Session -> BOOLEAN]
    BY <1>0, <1>3 DEF Shape
  <2>2. late' \in [Session -> BOOLEAN]
    BY <1>0, <1>3 DEF Shape
  <2>3. QED BY <1>0, <1>1, <1>3, <2>1, <2>2, Zenon DEF Shape
<1>4. ASSUME NEW s \in Session, Downloading(s), ~Promote(s) PROVE Shape'
  BY <1>3, <1>4, Zenon
     DEF Downloading, FetchChecksum, FetchSignature, Look, Load, Hash, CheckSignature, Fail,
         ForgetPath
<1>5. ASSUME NEW s \in Session, Kill(s) \/ OpenImage(s) PROVE Shape'
  BY <1>3, <1>5, Zenon DEF Kill, OpenImage, ForgetPath
<1>6. ASSUME NEW s \in Cli, CommandLine(s) PROVE Shape'
  <2>1. s \in Session
    BY Names
  <2>2. QED
    BY <1>3, <1>6, <2>1, Zenon
       DEF CommandLine, StartFromCommandLine, StartLocal, FinishOnCommandLine,
           WriteFromCommandLine, Rehash, Ask
<1>7. CASE Window
  BY <1>3, <1>7, Names, Zenon
     DEF Window, StartFromWindow, FinishInWindow, WriteFromWindow, Rehash, Ask, PickImage,
         ApplyLocalChecksum
<1>8. CASE UNCHANGED imageVars
  BY <1>3, <1>8, Zenon DEF imageVars
<1>9. QED
  BY <1>2, <1>4, <1>5, <1>6, <1>7, <1>8, Zenon DEF ImageNext

\* One element of a sequence is replaced.
LEMMA ReplaceOne ==
    ASSUME NEW R, NEW q \in Seq(R), NEW j \in 1..Len(q), NEW b \in R
    PROVE  /\ q[j] \in R /\ [q EXCEPT ![j] = b] \in Seq(R)
           /\ Len([q EXCEPT ![j] = b]) = Len(q)
           /\ \A i \in 1..Len(q) : [q EXCEPT ![j] = b][i] = IF i = j THEN b ELSE q[i]
OBVIOUS

LEMMA LatestStep ==
    ASSUME ImageInv, [ImageNext]_imageVars
    PROVE  Latest'
<1> USE DEF Latest, Maybe
<1>0. Latest
  BY DEF ImageInv
<1>1. CASE UNCHANGED windowVars
  BY <1>0, <1>1 DEF windowVars
<1>2. ASSUME NEW p \in Path, Schedule(p),
             checksum' = p \/ checksum' = checksum
      PROVE  Latest'
  <2>1. /\ chosen' = p /\ jobs' = Append(jobs, [path |-> p, done |-> FALSE])
        /\ jobs' \in Seq([path : Path, done : BOOLEAN])
    BY <1>0, <1>2 DEF Schedule
  <2>2. jobs'[Len(jobs')] = [path |-> p, done |-> FALSE]
    BY <1>0, <2>1
  <2>3. chosen' \in Path /\ checksum' \in Path \cup {Nothing}
    BY <1>0, <1>2, <2>1
  <2>4. ~jobs'[Len(jobs')].done /\ jobs'[Len(jobs')].path = chosen'
    BY <2>1, <2>2
  <2>5. QED BY <2>1, <2>3, <2>4
<1>3. ASSUME NEW j \in DOMAIN jobs, ApplyLocalChecksum(j) PROVE Latest'
  <2>1. /\ j \in 1..Len(jobs) /\ Len(jobs) \in Nat
        /\ jobs' = [jobs EXCEPT ![j].done = TRUE] /\ chosen' = chosen
        /\ checksum' = IF j = Len(jobs) THEN jobs[j].path ELSE checksum
    BY <1>0, <1>3 DEF ApplyLocalChecksum, LatestJob
  <2>2. /\ jobs' \in Seq([path : Path, done : BOOLEAN]) /\ Len(jobs') = Len(jobs)
        /\ \A i \in 1..Len(jobs) : /\ jobs'[i].path = jobs[i].path
                                   /\ i # j => jobs'[i] = jobs[i]
    <3> DEFINE R == [path : Path, done : BOOLEAN]
    <3>0. jobs \in Seq(R)
      BY <1>0
    <3> HIDE DEF R
    <3>1. jobs[j] \in R
      BY <2>1, <3>0
    <3>2. PICK b : b = [jobs[j] EXCEPT !.done = TRUE]
      OBVIOUS
    <3>3. b \in R /\ b.path = jobs[j].path
      BY <3>1, <3>2 DEF R
    <3>4. jobs' = [jobs EXCEPT ![j] = b]
      BY <2>1, <3>2
    <3>5. /\ jobs' \in Seq(R) /\ Len(jobs') = Len(jobs)
          /\ \A i \in 1..Len(jobs) : jobs'[i] = IF i = j THEN b ELSE jobs[i]
      <4>1. \A i \in 1..Len(jobs) : [jobs EXCEPT ![j] = b][i] = IF i = j THEN b ELSE jobs[i]
        BY <2>1, <3>0, <3>3, ReplaceOne
      <4>2. [jobs EXCEPT ![j] = b] \in Seq(R) /\ Len([jobs EXCEPT ![j] = b]) = Len(jobs)
        BY <2>1, <3>0, <3>3, ReplaceOne
      <4>3. QED BY <3>4, <4>1, <4>2, Zenon
    <3>6. QED BY <3>3, <3>5 DEF R
  <2>3. jobs # << >> /\ Len(jobs) \in 1..Len(jobs)
    BY <1>0, <2>1
  <2>4. QED BY <1>0, <2>1, <2>2, <2>3
<1>4. CASE jobs' = << >> /\ chosen' = Nothing /\ checksum' = Nothing
  BY <1>4
<1>5. ASSUME NEW s \in Session, Downloading(s) \/ OpenImage(s) PROVE Latest'
  BY <1>1, <1>5, Zenon
     DEF Downloading, FetchChecksum, FetchSignature, Look, Load, Hash, CheckSignature, Fail,
         Promote, OpenImage
<1>6. ASSUME NEW s \in Session, Kill(s) PROVE Latest'
  BY <1>1, <1>4, <1>6, Zenon DEF Kill
<1>7. ASSUME NEW s \in Cli, CommandLine(s) PROVE Latest'
  BY <1>1, <1>7, Zenon
     DEF CommandLine, StartFromCommandLine, StartLocal, FinishOnCommandLine,
         WriteFromCommandLine, Rehash
<1>8. CASE Window
  <2>1. CASE StartFromWindow \/ WriteFromWindow
    BY <1>1, <2>1, Zenon DEF StartFromWindow, WriteFromWindow, Rehash
  <2>2. CASE FinishInWindow
    <3>1. path[Gui] \in Path
      BY <2>2, Names DEF FinishInWindow, ImageInv, Consistent, Stages, InDownload
    <3>2. QED BY <1>2, <2>2, <3>1, Zenon DEF FinishInWindow
  <2>3. CASE \E p \in Path : PickImage(p)
    BY <1>2, <2>3, Zenon DEF PickImage
  <2>4. QED BY <1>3, <1>8, <2>1, <2>2, <2>3, Zenon DEF Window
<1>9. CASE \E p \in Path : ChangeFile(p)
  BY <1>1, <1>9, Zenon DEF ChangeFile
<1>10. CASE UNCHANGED imageVars
  BY <1>1, <1>10, Zenon DEF imageVars, windowVars
<1>11. QED BY <1>5, <1>6, <1>7, <1>8, <1>9, <1>10, Zenon DEF ImageNext

-----------------------------------------------------------------------------
(***************************************************************************)
(* One session acts, the others stay consistent: a download up to its      *)
(* verdict, the verdict, and the write.                                    *)
(***************************************************************************)

LEMMA DownloadKeeps ==
    ASSUME ImageInv,
           NEW a \in Session, Downloading(a) \/ Kill(a)
    PROVE  \A t \in Session : Consistent(t)'
<1> USE Names DEF Maybe, InDownload, Goto
<1>0. /\ Shape /\ FieldTypes
      /\ \A s \in Session : Stages(s) /\ Candidates(s) /\ Recordings(s) /\ Consistent(s)
  BY DEF ImageInv, Shape, Consistent
<1>1. ASSUME NEW s \in Session, FetchChecksum(s)
      PROVE  \A t \in Session : Consistent(t)'
  <2>1. \A t \in Session \ {s} : Same(t)
    BY <1>0, <1>1 DEF FetchChecksum, Published, Same, FieldTypes
  <2>2. \A t \in Session \ {s} : Noted(t)
    BY <1>0, <1>1 DEF FetchChecksum, Published, Noted
  <2>3. Stages(s)'
    BY <1>0, <1>1 DEF FetchChecksum, Published, FieldTypes, Stages
  <2>4. Candidates(s)'
    BY <1>0, <1>1 DEF FetchChecksum, Published, FieldTypes, Stages, Candidates
  <2>5. Recordings(s)'
    BY <1>0, <1>1 DEF FetchChecksum, Published, FieldTypes, Stages, Recordings, Applies
  <2>6. QED BY <1>0, <2>1, <2>2, <2>3, <2>4, <2>5, StaysConsistent DEF Consistent
<1>2. ASSUME NEW s \in Session, FetchSignature(s)
      PROVE  \A t \in Session : Consistent(t)'
  <2>1. \A t \in Session \ {s} : Same(t)
    BY <1>0, <1>2 DEF FetchSignature, Published, Same, FieldTypes
  <2>2. \A t \in Session \ {s} : Noted(t)
    BY <1>0, <1>2 DEF FetchSignature, Published, Noted
  <2>3. Stages(s)'
    BY <1>0, <1>2 DEF FetchSignature, Published, FieldTypes, Stages
  <2>4. Candidates(s)'
    BY <1>0, <1>2 DEF FetchSignature, Published, FieldTypes, Stages, Candidates
  <2>5. Recordings(s)'
    BY <1>0, <1>2 DEF FetchSignature, Published, FieldTypes, Stages, Recordings, Applies
  <2>6. QED BY <1>0, <2>1, <2>2, <2>3, <2>4, <2>5, StaysConsistent DEF Consistent
<1>3. ASSUME NEW s \in Session, Look(s)
      PROVE  \A t \in Session : Consistent(t)'
  <2>1. \A t \in Session \ {s} : Same(t)
    BY <1>0, <1>3 DEF Look, AfterFound, Shape, Same, FieldTypes
  <2>2. \A t \in Session \ {s} : Noted(t)
    BY <1>0, <1>3 DEF Look, AfterFound, Shape, Noted
  <2>a. /\ path[s] \in Path /\ want[s] \in Image /\ part[s] = Nothing
        /\ record[s].path = Nothing /\ pc[s] = "looking" /\ file[path[s]] \in Content
    BY <1>0, <1>3 DEF Look, Stages, Shape
  <2>b. /\ pc'[s] \in {"hashing", "failing", "loading"}
        /\ pc'[s] = "loading" => file[path[s]] = Nothing
    BY <1>0, <1>3, <2>a DEF Look, AfterFound, FieldTypes, Content
  <2>c. /\ UNCHANGED <<file, path, want, part, record, digest, signature, target, opened>>
    BY <1>3 DEF Look
  <2>3. Stages(s)'
    BY <2>a, <2>b, <2>c DEF Stages
  <2>4. Candidates(s)'
    BY <2>a, <2>b, <2>c DEF Candidates
  <2>5. Recordings(s)'
    BY <2>a, <2>b, <2>c DEF Recordings
  <2>6. QED BY <1>0, <2>1, <2>2, <2>3, <2>4, <2>5, StaysConsistent DEF Consistent
<1>4. ASSUME NEW s \in Session, Load(s)
      PROVE  \A t \in Session : Consistent(t)'
  <2>1. \A t \in Session \ {s} : Same(t)
    BY <1>0, <1>4 DEF Load, AfterLoad, Same, FieldTypes
  <2>2. \A t \in Session \ {s} : Noted(t)
    BY <1>0, <1>4 DEF Load, AfterLoad, Noted
  <2>3. Stages(s)'
    BY <1>0, <1>4 DEF Load, AfterLoad, FieldTypes, Stages
  <2>4. Candidates(s)'
    BY <1>0, <1>4 DEF Load, AfterLoad, FieldTypes, Stages, Candidates
  <2>5. Recordings(s)'
    BY <1>0, <1>4 DEF Load, AfterLoad, FieldTypes, Stages, Recordings, Applies
  <2>6. QED BY <1>0, <2>1, <2>2, <2>3, <2>4, <2>5, StaysConsistent DEF Consistent
<1>5. ASSUME NEW s \in Session, Hash(s)
      PROVE  \A t \in Session : Consistent(t)'
  <2>1. \A t \in Session \ {s} : Same(t)
    BY <1>0, <1>5 DEF Hash, Candidate, Same, FieldTypes
  <2>2. \A t \in Session \ {s} : Noted(t)
    BY <1>0, <1>5 DEF Hash, Candidate, Noted
  <2>3. Stages(s)'
    BY <1>0, <1>5 DEF Hash, Candidate, FieldTypes, Stages
  <2>4. Candidates(s)'
    BY <1>0, <1>5 DEF Hash, Candidate, FieldTypes, Stages, Candidates
  <2>5. Recordings(s)'
    BY <1>0, <1>5 DEF Hash, Candidate, FieldTypes, Stages, Recordings, Applies
  <2>6. QED BY <1>0, <2>1, <2>2, <2>3, <2>4, <2>5, StaysConsistent DEF Consistent
<1>6. ASSUME NEW s \in Session, CheckSignature(s)
      PROVE  \A t \in Session : Consistent(t)'
  <2>1. \A t \in Session \ {s} : Same(t)
    BY <1>0, <1>6 DEF CheckSignature, Signed, Candidate, Same, FieldTypes
  <2>2. \A t \in Session \ {s} : Noted(t)
    BY <1>0, <1>6 DEF CheckSignature, Signed, Candidate, Noted
  <2>3. Stages(s)'
    BY <1>0, <1>6 DEF CheckSignature, Signed, Candidate, FieldTypes, Stages
  <2>4. Candidates(s)'
    BY <1>0, <1>6 DEF CheckSignature, Signed, Candidate, FieldTypes, Stages, Candidates
  <2>5. Recordings(s)'
    BY <1>0, <1>6
       DEF CheckSignature, Signed, Candidate, FieldTypes, Stages, Recordings, Applies
  <2>6. QED BY <1>0, <2>1, <2>2, <2>3, <2>4, <2>5, StaysConsistent DEF Consistent
<1>7. ASSUME NEW s \in Session, Fail(s)
      PROVE  \A t \in Session : Consistent(t)'
  <2>1. \A t \in Session \ {s} : Same(t)
    BY <1>0, <1>7 DEF Fail, Forget, ForgetPath, PartRemoved, Shape, Same, FieldTypes
  <2>2. \A t \in Session \ {s} : Noted(t)
    BY <1>0, <1>7 DEF Fail, Forget, ForgetPath, PartRemoved, Shape, Noted
  <2>3. Stages(s)'
    BY <1>0, <1>7 DEF Fail, Forget, ForgetPath, PartRemoved, Shape, FieldTypes, Stages
  <2>4. Candidates(s)'
    BY <1>0, <1>7
       DEF Fail, Forget, ForgetPath, PartRemoved, Shape, FieldTypes, Stages, Candidates
  <2>5. Recordings(s)'
    BY <1>0, <1>7
       DEF Fail, Forget, ForgetPath, PartRemoved, Shape, FieldTypes, Stages, Recordings,
           Applies
  <2>6. QED BY <1>0, <2>1, <2>2, <2>3, <2>4, <2>5, StaysConsistent DEF Consistent
<1>8. ASSUME NEW s \in Session, Kill(s)
      PROVE  \A t \in Session : Consistent(t)'
  <2>1. \A t \in Session \ {s} : Same(t)
    BY <1>0, <1>8 DEF Kill, Forget, ForgetPath, Shape, Same, FieldTypes
  <2>2. \A t \in Session \ {s} : Noted(t)
    BY <1>0, <1>8 DEF Kill, Forget, ForgetPath, Shape, Noted
  <2>3. Stages(s)'
    BY <1>0, <1>8 DEF Kill, Forget, ForgetPath, Shape, FieldTypes, Stages
  <2>4. Candidates(s)'
    BY <1>0, <1>8 DEF Kill, Forget, ForgetPath, Shape, FieldTypes, Stages, Candidates
  <2>5. Recordings(s)'
    BY <1>0, <1>8
       DEF Kill, Forget, ForgetPath, Shape, FieldTypes, Stages, Recordings, Applies
  <2>6. QED BY <1>0, <2>1, <2>2, <2>3, <2>4, <2>5, StaysConsistent DEF Consistent
<1>9. ASSUME NEW s \in Session, Promote(s)
      PROVE  \A t \in Session : Consistent(t)'
  <2>1. \A t \in Session \ {s} : Same(t)
    BY <1>0, <1>9 DEF Promote, Same, FieldTypes
  <2>2. path[s] \in Path /\ part[s] \in Content /\ part[s] \in Image
    BY <1>0, <1>9 DEF Promote, Stages, Candidates, Content
  <2>3. /\ \A t \in Session \ {s} : Noted(t)
        /\ altered[s] => altered'[s]
        /\ late[s] => late'[s]
    <3>1. CASE PutFile(path[s], part[s], {s})
      BY <1>0, <2>2, <3>1, PutNotes
    <3>2. CASE UNCHANGED <<file, altered, late>>
      BY <3>2 DEF Noted
    <3>3. QED BY <1>9, <3>1, <3>2 DEF Promote
  <2>4. Stages(s)'
    BY <1>0, <1>9 DEF Promote, FieldTypes, Stages
  <2>5. Candidates(s)'
    BY <1>0, <1>9 DEF Promote, FieldTypes, Stages, Candidates
  <2>6. Recordings(s)'
    BY <1>0, <1>9 DEF Promote, FieldTypes, Stages, Recordings, Applies
  <2>7. QED BY <1>0, <2>1, <2>3, <2>4, <2>5, <2>6, StaysConsistent DEF Consistent
<1>10. QED
  BY <1>1, <1>2, <1>3, <1>4, <1>5, <1>6, <1>7, <1>8, <1>9, Zenon DEF Downloading

LEMMA OwnKeeps ==
    ASSUME ImageInv,
           \/ \E a \in Cli : CommandLine(a)
           \/ StartFromWindow \/ FinishInWindow \/ WriteFromWindow
           \/ \E q \in Path : PickImage(q)
           \/ \E a \in Session : OpenImage(a)
    PROVE  \A t \in Session : Consistent(t)'
<1> USE Names DEF Maybe, InDownload, Goto
<1>0. /\ Shape /\ FieldTypes
      /\ \A s \in Session : Stages(s) /\ Candidates(s) /\ Recordings(s) /\ Consistent(s)
  BY DEF ImageInv, Shape, Consistent
<1>1. ASSUME NEW s \in Session, StartFromCommandLine(s)
      PROVE  \A t \in Session : Consistent(t)'
  <2>1. \A t \in Session \ {s} : Same(t)
    BY <1>0, <1>1 DEF StartFromCommandLine, Ask, Shape, Same, FieldTypes
  <2>2. \A t \in Session \ {s} : Noted(t)
    BY <1>0, <1>1 DEF StartFromCommandLine, Ask, Shape, Noted
  <2>3. Stages(s)'
    BY <1>0, <1>1 DEF StartFromCommandLine, Ask, Shape, FieldTypes, Stages
  <2>4. Candidates(s)'
    BY <1>0, <1>1 DEF StartFromCommandLine, Ask, Shape, FieldTypes, Stages, Candidates
  <2>5. Recordings(s)'
    BY <1>0, <1>1
       DEF StartFromCommandLine, Ask, Shape, FieldTypes, Stages, Recordings, Applies
  <2>6. QED BY <1>0, <2>1, <2>2, <2>3, <2>4, <2>5, StaysConsistent DEF Consistent
<1>2. ASSUME NEW s \in Session, s = Gui, StartFromWindow
      PROVE  \A t \in Session : Consistent(t)'
  <2>1. \A t \in Session \ {s} : Same(t)
    BY <1>0, <1>2 DEF StartFromWindow, Ask, NoRecord, Shape, Same, FieldTypes
  <2>2. \A t \in Session \ {s} : Noted(t)
    BY <1>0, <1>2 DEF StartFromWindow, Ask, NoRecord, Shape, Noted
  <2>3. Stages(s)'
    BY <1>0, <1>2 DEF StartFromWindow, Ask, NoRecord, Shape, FieldTypes, Stages
  <2>4. Candidates(s)'
    BY <1>0, <1>2 DEF StartFromWindow, Ask, NoRecord, Shape, FieldTypes, Stages, Candidates
  <2>5. Recordings(s)'
    BY <1>0, <1>2
       DEF StartFromWindow, Ask, NoRecord, Shape, FieldTypes, Stages, Recordings, Applies
  <2>6. QED BY <1>0, <2>1, <2>2, <2>3, <2>4, <2>5, StaysConsistent DEF Consistent
<1>3. ASSUME NEW s \in Session, StartLocal(s)
      PROVE  \A t \in Session : Consistent(t)'
  <2>1. \A t \in Session \ {s} : Same(t)
    BY <1>0, <1>3 DEF StartLocal, Shape, Same, FieldTypes
  <2>2. \A t \in Session \ {s} : Noted(t)
    BY <1>0, <1>3 DEF StartLocal, Shape, Noted
  <2>3. Stages(s)'
    BY <1>0, <1>3 DEF StartLocal, Shape, FieldTypes, Stages
  <2>4. Candidates(s)'
    BY <1>0, <1>3 DEF StartLocal, Shape, FieldTypes, Stages, Candidates
  <2>5. Recordings(s)'
    BY <1>0, <1>3 DEF StartLocal, Shape, FieldTypes, Stages, Recordings, Applies
  <2>6. QED BY <1>0, <2>1, <2>2, <2>3, <2>4, <2>5, StaysConsistent DEF Consistent
<1>4. ASSUME NEW s \in Session, FinishOnCommandLine(s) \/ (s = Gui /\ FinishInWindow)
      PROVE  \A t \in Session : Consistent(t)'
  <2>1. \A t \in Session \ {s} : Same(t)
    BY <1>0, <1>4
       DEF FinishOnCommandLine, FinishInWindow, Recorded, Forget, Same, FieldTypes
  <2>2. \A t \in Session \ {s} : Noted(t)
    BY <1>0, <1>4 DEF FinishOnCommandLine, FinishInWindow, Recorded, Forget, Noted
  <2>3. Stages(s)'
    BY <1>0, <1>4
       DEF FinishOnCommandLine, FinishInWindow, Recorded, Forget, FieldTypes, Stages
  <2>4. Candidates(s)'
    BY <1>0, <1>4
       DEF FinishOnCommandLine, FinishInWindow, Recorded, Forget, FieldTypes, Stages,
           Candidates
  <2>5. Recordings(s)'
    <3>1. /\ record'[s] = [path |-> path[s], sha256 |-> digest[s],
                             signature |-> signature[s]]
          /\ pc[s] = "verified" /\ pc'[s] = "ready"
          /\ UNCHANGED altered
      BY <1>0, <1>4 DEF FinishOnCommandLine, FinishInWindow, Recorded, FieldTypes
    <3>2. ~altered[s] => digest[s] \in Image /\ digest[s] = signature[s]
      BY <1>0, <3>1 DEF Candidates
    <3>3. QED BY <3>1, <3>2 DEF Recordings
  <2>6. QED BY <1>0, <2>1, <2>2, <2>3, <2>4, <2>5, StaysConsistent DEF Consistent
<1>5. ASSUME NEW s \in Session, NEW l \in Path, Rehash(s, l),
             pc[s] \in {"idle", "ready", "failed"}
      PROVE  \A t \in Session : Consistent(t)'
  <2>1. \A t \in Session \ {s} : Same(t)
    BY <1>0, <1>5 DEF Rehash, Unchanged, Applies, Shape, Same, FieldTypes
  <2>2. \A t \in Session \ {s} : Noted(t)
    BY <1>0, <1>5 DEF Rehash, Unchanged, Applies, Shape, Noted
  <2>3. Stages(s)'
    BY <1>0, <1>5 DEF Rehash, Unchanged, Applies, Shape, FieldTypes, Stages
  <2>4. Candidates(s)'
    BY <1>0, <1>5 DEF Rehash, Unchanged, Applies, Shape, FieldTypes, Stages, Candidates
  <2>5. Recordings(s)'
    BY <1>0, <1>5 DEF Rehash, Unchanged, Shape, FieldTypes, Stages, Recordings, Applies
  <2>6. QED BY <1>0, <2>1, <2>2, <2>3, <2>4, <2>5, StaysConsistent DEF Consistent
<1>6. ASSUME NEW s \in Session, NEW q \in Path, s = Gui, PickImage(q)
      PROVE  \A t \in Session : Consistent(t)'
  <2>1. \A t \in Session \ {s} : Same(t)
    BY <1>0, <1>6 DEF PickImage, NoRecord, Same, FieldTypes
  <2>2. \A t \in Session \ {s} : Noted(t)
    BY <1>0, <1>6 DEF PickImage, NoRecord, Noted
  <2>3. Stages(s)'
    BY <1>0, <1>6 DEF PickImage, NoRecord, FieldTypes, Stages
  <2>4. Candidates(s)'
    BY <1>0, <1>6 DEF PickImage, NoRecord, FieldTypes, Stages, Candidates
  <2>5. Recordings(s)'
    BY <1>0, <1>6 DEF PickImage, NoRecord, FieldTypes, Stages, Recordings, Applies
  <2>6. QED BY <1>0, <2>1, <2>2, <2>3, <2>4, <2>5, StaysConsistent DEF Consistent
<1>7. ASSUME NEW s \in Session, OpenImage(s)
      PROVE  \A t \in Session : Consistent(t)'
  <2>1. \A t \in Session \ {s} : Same(t)
    BY <1>0, <1>7 DEF OpenImage, Same, FieldTypes
  <2>2. \A t \in Session \ {s} : Noted(t)
    BY <1>0, <1>7 DEF OpenImage, Noted
  <2>3. Stages(s)'
    BY <1>0, <1>7 DEF OpenImage, FieldTypes, Stages
  <2>4. Candidates(s)'
    BY <1>0, <1>7 DEF OpenImage, FieldTypes, Stages, Candidates
  <2>5. Recordings(s)'
    BY <1>0, <1>7 DEF OpenImage, FieldTypes, Stages, Recordings, Applies
  <2>6. QED BY <1>0, <2>1, <2>2, <2>3, <2>4, <2>5, StaysConsistent DEF Consistent
<1>8. WriteFromWindow => \A t \in Session : Consistent(t)'
  BY <1>5 DEF WriteFromWindow, ImageInv, Latest
<1>9. ASSUME NEW s \in Session, WriteFromCommandLine(s) PROVE \A t \in Session : Consistent(t)'
  BY <1>0, <1>5, <1>9 DEF WriteFromCommandLine, Stages
<1>10. QED
  BY <1>1, <1>2, <1>3, <1>4, <1>6, <1>7, <1>8, <1>9, Zenon DEF CommandLine

LEMMA ImageStep == ASSUME ImageInv, [ImageNext]_imageVars PROVE ImageInv'
<1>0. Shape /\ \A s \in Session : Consistent(s)
  BY DEF ImageInv
<1>1. ASSUME NEW q \in Path, ChangeFile(q) PROVE \A s \in Session : Consistent(s)'
  <2>1. \A s \in Session : Same(s)
    BY <1>1 DEF ChangeFile, sessionVars, Same
  <2>2. PICK c \in Bytes \cup {Nothing} : PutFile(q, c, {})
    BY <1>1 DEF ChangeFile
  <2>3. c \in Content
    BY DEF Content
  <2>4. \A s \in Session : Noted(s)
    BY <1>0, <2>2, <2>3, PutNotes
  <2>5. QED BY <1>0, <2>1, <2>4, StaysConsistent
<1>2. ASSUME UNCHANGED <<file, sessionVars, altered, late>>
      PROVE  \A s \in Session : Consistent(s)'
  BY <1>0, <1>2, StaysConsistent DEF sessionVars, Same, Noted
<1>3. \A s \in Session : Consistent(s)'
  <2>1. CASE UNCHANGED imageVars
    BY <1>2, <2>1, Zenon DEF imageVars, sessionVars
  <2>2. CASE \E j \in DOMAIN jobs : ApplyLocalChecksum(j)
    BY <1>2, <2>2, Zenon DEF ApplyLocalChecksum
  <2>3. QED
    BY <1>1, <2>1, <2>2, DownloadKeeps, OwnKeeps, Zenon DEF ImageNext, Window
<1>4. QED BY <1>3, ShapeStep, LatestStep, Zenon DEF ImageInv

(* What each session, its record and the window know of the files they     *)
(* have looked at, at every step of download.py and of the controller.     *)
THEOREM ImageInvariant == ImageSpec => []ImageInv
<1>1. QED BY ImageStart, ImageStep, PTL DEF ImageSpec

(* What is written as verified is what was verified, and is signed by the  *)
(* pinned key, unless a file is changed in one of the two stated windows.  *)
THEOREM WrittenWasVerified == ImageSpec => []WrittenIsVerified
<1>1. ASSUME ImageInv PROVE WrittenIsVerified
  <2>1. \A s \in Session : Recordings(s) /\ (pc[s] = "written" => target[s] \in Path)
    BY <1>1 DEF ImageInv, Consistent, Stages
  <2>2. QED BY <2>1, Names DEF WrittenIsVerified, Recordings, Applies
<1>2. QED BY <1>1, ImageInvariant, PTL

(* Every variable has its type, and a temporary file belongs to a session  *)
(* that still runs or was killed (the finally of download.py).             *)
THEOREM ImageTyped == ImageSpec => []ImageTypeOK
<1>1. ASSUME ImageInv PROVE ImageTypeOK
  <2>1. FieldTypes /\ Latest /\ file \in [Path -> Content] /\ \A s \in Session : Stages(s)
    BY <1>1 DEF ImageInv, Shape, Consistent
  <2>2. ASSUME NEW s \in Session, part[s] # Nothing
        PROVE  pc[s] \in InDownload \cup {"killed"}
    BY <2>1, <2>2 DEF Stages, InDownload
  <2>3. QED BY <2>1, <2>2 DEF FieldTypes, Latest, Maybe, RecordTypes, ImageTypeOK
<1>2. QED BY <1>1, ImageInvariant, PTL

(* The checksum shown belongs to the path shown once its job is done.      *)
THEOREM ChecksumIsOfSelection == ImageSpec => []ChecksumOfSelection
<1>1. ASSUME ImageInv PROVE ChecksumOfSelection
  BY <1>1 DEF ImageInv, Latest, ChecksumOfSelection
<1>2. QED BY <1>1, ImageInvariant, PTL

(* Only a hand or a complete, verified download changes a file, and never  *)
(* one that was there when the download looked.                            *)
THEOREM OnlyVerifiedPromoted == ImageSpec => PromotedWhole
<1>1. ASSUME ImageInv, [ImageNext]_imageVars, file' # file, changes' = changes
      PROVE  \E s \in Session :
                /\ pc[s] = "promoting"
                /\ file' = [file EXCEPT ![path[s]] = part[s]]
                /\ part[s] \in Image /\ part[s] = digest[s] /\ part[s] = signature[s]
                /\ file[path[s]] = Nothing \/ altered[s]
  <2>1. ~ \E p \in Path : ChangeFile(p)
    <3>1. changes + 1 # changes
      BY <1>1 DEF ImageInv, Shape
    <3>2. QED BY <1>1, <3>1, Zenon DEF ChangeFile
  <2>2. PICK s \in Session : Promote(s)
    <3>1. ~ UNCHANGED imageVars /\ ~Window
      BY <1>1, Zenon DEF imageVars, Window, StartFromWindow, FinishInWindow,
                         WriteFromWindow, Rehash, PickImage, ApplyLocalChecksum
    <3>2. \A a \in Cli : ~CommandLine(a)
      BY <1>1, Zenon DEF CommandLine, StartFromCommandLine, StartLocal,
                         FinishOnCommandLine, WriteFromCommandLine, Rehash
    <3>3. \A a \in Session : Downloading(a) => Promote(a)
      BY <1>1, Zenon DEF Downloading, FetchChecksum, FetchSignature, Look, Load, Hash,
                         CheckSignature, Fail
    <3>4. \A a \in Session : ~Kill(a) /\ ~OpenImage(a)
      BY <1>1, Zenon DEF Kill, OpenImage
    <3>5. QED BY <1>1, <2>1, <3>1, <3>2, <3>3, <3>4, Zenon DEF ImageNext
  <2>3. pc[s] = "promoting" /\ file' = [file EXCEPT ![path[s]] = part[s]]
    BY <1>1, <2>2 DEF Promote, PutFile
  <2>4. Stages(s) /\ Candidates(s)
    BY <1>1 DEF ImageInv, Consistent
  <2>5. QED BY <2>3, <2>4, Names DEF Candidates
<1>2. QED BY <1>1, ImageInvariant, PTL DEF ImageSpec, PromotedWhole

-----------------------------------------------------------------------------
(***************************************************************************)
(* The version catalog: what is asked for download is what the window      *)
(* shows, for any number of releases, refreshes and clicks.                *)
(***************************************************************************)

\* A refresh, and the UI thread, as records of their types.
RefreshRecord == [stage : {"new", "fetching", "listed", "writing", "ended"},
                  entry : Release, next : 1..6]
UiRecord == [task : {"idle", "select", "show", "request"}, entry : Release, next : 1..6]

CatalogTypes ==
    /\ available \subseteq Version
    /\ selected \in [Field -> Release] /\ shown \in [Field -> Release]
    /\ request \in [Field -> Release] /\ downloading \in BOOLEAN
    /\ refresh \in [Refresh -> RefreshRecord] /\ ui \in UiRecord
    /\ preview \in Release /\ asked \in [Release -> Nat] /\ selects \in 0..MaxSelects
    /\ dirty \in BOOLEAN /\ during \in BOOLEAN /\ clash \in BOOLEAN /\ torn \in BOOLEAN

\* Everything is typed, and each thread is at a step it has.
CatalogKinds ==
    /\ CatalogTypes
    /\ \A r \in Refresh :
          /\ refresh[r].stage = "writing" => refresh[r].next \in 1..5
          /\ refresh[r].stage # "ended" =>
                refresh[r].next = 1 \/ refresh[r].stage = "writing"
          /\ refresh[r].stage = "listed" => available # {}
    /\ ui.task = "select" => ui.next \in 1..5
    /\ ui.task = "request" => ui.next \in 1..4 /\ ~downloading

Uniform(s) == \A f, g \in Field : s[f] = s[g]

\* A writer that is about to assign field n has assigned those before it.
Written(s, n, entry) ==
    /\ \A i \in 1..5 : i < n => s[Fields[i]] = entry
    /\ \A i, j \in 1..5 : i >= n /\ j >= n => s[Fields[i]] = s[Fields[j]]

\* Two writers overlap only with a clash; without, the fields are of the
\* release before and, up to the next field, of the one being assigned.
WriterInv ==
    ~clash =>
        /\ \A r \in Refresh : Refreshing(r) =>
              /\ Written(selected, refresh[r].next, refresh[r].entry)
              /\ ~Selecting /\ \A q \in Refresh \ {r} : ~Refreshing(q)
        /\ Selecting => Written(selected, ui.next, ui.entry)
        /\ ~Selecting /\ (\A r \in Refresh : ~Refreshing(r)) => Uniform(selected)

\* What a copy under way has copied, while no refresh changes a field.
CopyInv ==
    /\ during => dirty
    /\ ui.task = "show" /\ ui.next >= 2 /\ ~during => ui.entry = selected.version
    /\ ui.task = "show" /\ ui.next > 2 =>
          /\ shown.version = ui.entry
          /\ ~during \/ ~torn =>
                \A i \in 2..5 : i < ui.next - 1 => shown[Fields[i]] = selected[Fields[i]]

\* What the window shows while no refresh has changed a field since.
ShownInv ==
    ~dirty /\ ~clash =>
        /\ ui.task \in {"idle", "request"} => shown = selected
        /\ ui.task = "select" /\ ui.next = 1 => shown = selected
        /\ Selecting => Uniform(shown) /\ \A i \in 1..5 :
                            i >= ui.next => shown[Fields[i]] = selected[Fields[i]]
        /\ ui.task = "show" /\ ui.next <= 2 =>
              shown = selected \/ (Uniform(shown) /\ Uniform(selected))

\* What the handler of the button has read is what is selected.
RequestInv ==
    ui.task = "request" /\ ~dirty => \A i \in 1..4 :
        i < ui.next => request[RequestOrder[i]] = selected[RequestOrder[i]]

\* The preview is of what the window shows, or its answer is still to come.
PreviewInv ==
    ~dirty /\ ~clash /\ ~(ui.task = "show" /\ ui.next > 2) =>
        preview \in {None, shown.checksum} \/ asked[shown.checksum] > 0

\* A window whose version and ISO agree shows one release, or is a copy of what
\* a refresh has half assigned and cannot go on with unnoticed.
TornInv ==
    ~torn /\ ~clash /\ ~(ui.task = "show" /\ ui.next > 2) /\ shown.version = shown.iso =>
        \/ Uniform(shown)
        \/ /\ shown = selected
           /\ \E r \in Refresh : Refreshing(r) /\ refresh[r].next > 2

CatalogInv ==
    /\ CatalogKinds /\ WriterInv /\ CopyInv /\ ShownInv /\ RequestInv /\ PreviewInv /\ TornInv

-----------------------------------------------------------------------------
LEMMA FieldNames ==
    /\ Len(Fields) = 5 /\ DOMAIN Fields = 1..5
    /\ Fields[1] = "version" /\ Fields[2] = "iso" /\ Fields[3] = "image"
    /\ Fields[4] = "signature" /\ Fields[5] = "checksum"
    /\ Field = {"version", "iso", "image", "signature", "checksum"}
<1>1. /\ Len(Fields) = 5 /\ DOMAIN Fields = 1..5
      /\ Fields[1] = "version" /\ Fields[2] = "iso" /\ Fields[3] = "image"
      /\ Fields[4] = "signature" /\ Fields[5] = "checksum"
  BY DEF Fields
<1>2. 1..5 = {1, 2, 3, 4, 5}
  OBVIOUS
<1> QED  BY <1>1, <1>2 DEF Field

LEMMA FieldAt ==
    /\ \A i \in 1..5 : Fields[i] \in Field
    /\ \A i, j \in 1..5 : i # j => Fields[i] # Fields[j]
    /\ \A f \in Field : \E i \in 1..5 : f = Fields[i]
<1>1. 1..5 = {1, 2, 3, 4, 5}
  OBVIOUS
<1> QED  BY <1>1, FieldNames

LEMMA UniformAt ==
    ASSUME NEW s
    PROVE  Uniform(s) <=> \A i, j \in 1..5 : s[Fields[i]] = s[Fields[j]]
  BY FieldAt DEF Uniform

LEMMA WrittenFirst == ASSUME NEW s, NEW e, Uniform(s) PROVE Written(s, 1, e)
  BY UniformAt DEF Written

LEMMA WrittenLast == ASSUME NEW s, NEW e, Written(s, 6, e) PROVE Uniform(s)
<1>1. \A i \in 1..5 : s[Fields[i]] = e
  BY DEF Written
<1> QED  BY <1>1, UniformAt

LEMMA WrittenNext ==
    ASSUME NEW s \in [Field -> Release], NEW n \in 1..5, NEW e \in Release, Written(s, n, e),
           NEW t, t = [s EXCEPT ![Fields[n]] = e]
    PROVE  t \in [Field -> Release] /\ Written(t, n + 1, e)
<1>1. Fields[n] \in Field
  BY FieldAt
<1>2. t \in [Field -> Release] /\ t[Fields[n]] = e
  BY <1>1
<1>3. \A i \in 1..5 : i # n => t[Fields[i]] = s[Fields[i]]
  BY <1>1, FieldAt
<1>4. \A i \in 1..5 : i < n + 1 => t[Fields[i]] = e
  BY <1>2, <1>3 DEF Written
<1>5. \A i, j \in 1..5 : i >= n + 1 /\ j >= n + 1 => t[Fields[i]] = t[Fields[j]]
  BY <1>3 DEF Written
<1> QED  BY <1>2, <1>4, <1>5 DEF Written

LEMMA SameFields ==
    ASSUME NEW s \in [Field -> Release], NEW t \in [Field -> Release],
           \A i \in 1..5 : s[Fields[i]] = t[Fields[i]]
    PROVE  s = t
  BY FieldAt

-----------------------------------------------------------------------------
LEMMA InitCatalog == ASSUME CatalogInit PROVE CatalogInv
<1>1. CatalogKinds
  <2>1. None \in Release /\ 0 \in 0..MaxSelects
    BY CatalogAssumption DEF Release
  <2>2. /\ Empty \in [Field -> Release] /\ [v \in Release |-> 0] \in [Release -> Nat]
        /\ [stage |-> "new", entry |-> None, next |-> 1] \in RefreshRecord
        /\ [task |-> "idle", entry |-> None, next |-> 1] \in UiRecord
    BY <2>1 DEF Empty, RefreshRecord, UiRecord
  <2>3. CatalogTypes
    BY <2>1, <2>2 DEF CatalogInit, CatalogTypes
  <2> QED  BY <2>3 DEF CatalogInit, CatalogKinds
<1>2. Uniform(selected) /\ Uniform(shown) /\ shown = selected
  BY DEF CatalogInit, Empty, Uniform
<1>3. preview = None /\ ui.task = "idle" /\ \A r \in Refresh : refresh[r].stage = "new"
  BY DEF CatalogInit
<1>4. WriterInv /\ CopyInv /\ ShownInv /\ RequestInv /\ PreviewInv /\ TornInv
  BY <1>2, <1>3 DEF CatalogInit, WriterInv, CopyInv, ShownInv, RequestInv, PreviewInv, TornInv,
                    Refreshing, Selecting
<1> QED  BY <1>1, <1>4 DEF CatalogInv

\* The steps that touch neither the selection nor the window.
Bookkeeping ==
    \/ \E r \in Refresh : SubmitRefresh(r) \/ FetchVersions(r) \/ TakeNewest(r)
    \/ \E v \in Version : SelectVersion(v)
    \/ Tick \/ ClickDownload \/ DownloadEnds

\* A refresh up to the first of its assignments.
RefreshAhead(r) ==
    /\ \E step \in RefreshRecord :
          /\ refresh' = [refresh EXCEPT ![r] = step]
          /\ step.stage = "ended" \/ step.next = 1
          /\ step.stage = "listed" => available' # {}
    /\ available' \subseteq Version /\ (available # {} => available' # {})
    /\ refresh[r].stage \in {"new", "fetching", "listed"}
    /\ UNCHANGED <<selected, ui, shown, preview, asked, request, downloading, selects,
                   dirty, during, clash, torn>>

LEMMA RefreshStarts ==
    ASSUME CatalogKinds, NEW r \in Refresh,
           SubmitRefresh(r) \/ FetchVersions(r) \/ TakeNewest(r)
    PROVE  RefreshAhead(r)
<1>1. /\ refresh \in [Refresh -> RefreshRecord] /\ refresh[r] \in RefreshRecord
      /\ available \subseteq Version
  BY DEF CatalogKinds, CatalogTypes
<1>2. refresh[r].stage \in {"new", "fetching", "listed"} /\ refresh[r].next = 1
  BY DEF SubmitRefresh, FetchVersions, TakeNewest, CatalogKinds
<1>3. CASE SubmitRefresh(r)
  <2>1. [refresh[r] EXCEPT !.stage = "fetching"] \in RefreshRecord
    BY <1>1 DEF RefreshRecord
  <2>2. /\ refresh' = [refresh EXCEPT ![r] = [refresh[r] EXCEPT !.stage = "fetching"]]
        /\ UNCHANGED <<available, selected, ui, shown, preview, asked, request, downloading,
                       selects, dirty, during, clash, torn>>
    BY <1>3 DEF SubmitRefresh, selection, histories
  <2>3. /\ [refresh[r] EXCEPT !.stage = "fetching"].stage = "fetching"
        /\ [refresh[r] EXCEPT !.stage = "fetching"].next = 1
    BY <1>1, <1>2 DEF RefreshRecord
  <2> QED  BY <1>1, <1>2, <2>1, <2>2, <2>3 DEF RefreshAhead
<1>4. CASE FetchVersions(r)
  <2>1. /\ UNCHANGED <<selected, ui, shown, preview, asked, request, downloading, selects,
                       dirty, during, clash, torn>>
        /\ \E stage \in {"listed", "ended"} :
              refresh' = [refresh EXCEPT ![r] = [refresh[r] EXCEPT !.stage = stage]]
              /\ (stage = "listed" => available' # {})
        /\ available' \subseteq Version /\ (available # {} => available' # {})
    <3>1. \A stage : [refresh EXCEPT ![r].stage = stage]
                         = [refresh EXCEPT ![r] = [refresh[r] EXCEPT !.stage = stage]]
      BY <1>1
    <3>2. UNCHANGED <<selected, ui, shown, preview, asked, request, downloading, selects,
                      dirty, during, clash, torn>>
      BY <1>4 DEF FetchVersions, histories
    <3>3. CASE \E listed \in (SUBSET Version) \ {{}} :
                  /\ available' = listed
                  /\ refresh' = [refresh EXCEPT ![r].stage = "listed"]
      <4>1. PICK listed \in (SUBSET Version) \ {{}} :
               /\ available' = listed
               /\ refresh' = [refresh EXCEPT ![r].stage = "listed"]
        BY <3>3
      <4>2. refresh' = [refresh EXCEPT ![r] = [refresh[r] EXCEPT !.stage = "listed"]]
        BY <3>1, <4>1
      <4>3. available' # {} /\ available' \subseteq Version
        BY <4>1
      <4> QED  BY <3>2, <4>2, <4>3
    <3>4. CASE refresh' = [refresh EXCEPT ![r].stage = "ended"] /\ UNCHANGED available
      BY <1>1, <3>1, <3>2, <3>4
    <3> QED  BY <1>4, <3>3, <3>4 DEF FetchVersions
  <2>2. \A stage \in {"listed", "ended"} :
           LET step == [refresh[r] EXCEPT !.stage = stage]
           IN  step \in RefreshRecord /\ step.stage = stage /\ step.next = 1
    BY <1>1, <1>2 DEF RefreshRecord
  <2> QED  BY <1>2, <2>1, <2>2 DEF RefreshAhead
<1>5. CASE TakeNewest(r)
  <2>1. PICK newest \in available :
           refresh' = [refresh EXCEPT ![r].stage = "writing", ![r].entry = newest]
    BY <1>5 DEF TakeNewest
  <2> DEFINE step == [refresh[r] EXCEPT !.stage = "writing", !.entry = newest]
  <2>2. step \in RefreshRecord /\ step.stage = "writing" /\ step.next = 1
    BY <1>1, <1>2 DEF RefreshRecord, Release
  <2>3. refresh' = [refresh EXCEPT ![r] = step]
    BY <1>1, <2>1
  <2>4. UNCHANGED <<available, selected, ui, shown, preview, asked, request, downloading,
                    selects, dirty, during, clash, torn>>
    BY <1>5 DEF TakeNewest, selection, histories
  <2> QED  BY <1>1, <1>2, <2>2, <2>3, <2>4 DEF RefreshAhead
<1> QED  BY <1>3, <1>4, <1>5

\* The steps that touch neither the selection nor the window.
LEMMA RefreshStartsKeeps ==
    ASSUME CatalogInv, NEW r \in Refresh, RefreshAhead(r)
    PROVE  CatalogInv'
<1>1. PICK step \in RefreshRecord :
          /\ refresh' = [refresh EXCEPT ![r] = step]
          /\ step.stage = "ended" \/ step.next = 1
          /\ step.stage = "listed" => available' # {}
  BY DEF RefreshAhead
<1>2. /\ available' \subseteq Version /\ (available # {} => available' # {})
      /\ refresh[r].stage \in {"new", "fetching", "listed"}
      /\ UNCHANGED <<selected, ui, shown, preview, asked, request, downloading, selects,
                     dirty, during, clash, torn>>
  BY DEF RefreshAhead
<1>3. refresh \in [Refresh -> RefreshRecord] /\ CatalogTypes
  BY DEF CatalogInv, CatalogKinds, CatalogTypes
<1>4. refresh'[r] = step /\ \A q \in Refresh \ {r} : refresh'[q] = refresh[q]
  BY <1>1, <1>3
<1>5. CatalogTypes'
  <2>1. refresh' \in [Refresh -> RefreshRecord]
    BY <1>1, <1>3
  <2> QED  BY <1>2, <1>3, <2>1 DEF CatalogTypes
<1>6. CatalogKinds'
  BY <1>1, <1>2, <1>4, <1>5 DEF CatalogInv, CatalogKinds
<1>7. \A q \in Refresh : /\ Refreshing(q)' <=> Refreshing(q)
                         /\ Refreshing(q) => refresh'[q] = refresh[q]
  BY <1>1, <1>2, <1>4 DEF Refreshing, InWrites
<1>8. WriterInv'
  BY <1>2, <1>7 DEF CatalogInv, WriterInv, Selecting
<1>9. CopyInv' /\ ShownInv' /\ RequestInv' /\ PreviewInv' /\ TornInv'
  BY <1>2, <1>7 DEF CatalogInv, CopyInv, ShownInv, RequestInv, PreviewInv, TornInv, Selecting
<1> QED  BY <1>6, <1>8, <1>9 DEF CatalogInv

LEMMA UiStartsKeeps ==
    ASSUME CatalogInv,
           (\E v \in Version : SelectVersion(v)) \/ Tick \/ ClickDownload \/ DownloadEnds
    PROVE  CatalogInv'
<1>1. /\ UNCHANGED <<available, selected, refresh, shown, preview, asked, request, dirty, during,
                     clash, torn>>
      /\ ui.task = "idle"
      /\ \/ UNCHANGED ui /\ downloading' = FALSE
         \/ /\ \E task \in {"select", "show", "request"}, entry \in Release :
                  ui' = [task |-> task, entry |-> entry, next |-> 1]
            /\ UNCHANGED downloading /\ (ui'.task = "request" => ~downloading)
      /\ selects' \in 0..MaxSelects
  BY CatalogAssumption DEF CatalogInv, CatalogKinds, CatalogTypes, SelectVersion, Tick,
     ClickDownload, DownloadEnds, UiIdle, selection, histories, Release, Version, None
<1>2. CatalogTypes'
  <2>1. ui' \in UiRecord
    BY <1>1 DEF CatalogInv, CatalogKinds, CatalogTypes, UiRecord
  <2> QED  BY <1>1, <2>1 DEF CatalogInv, CatalogKinds, CatalogTypes
<1>3. UNCHANGED ui \/ (ui'.task \in {"select", "show", "request"} /\ ui'.next = 1)
  BY <1>1
<1>4. CatalogKinds'
  BY <1>1, <1>2, <1>3 DEF CatalogInv, CatalogKinds
<1>5. ~Selecting /\ ~Selecting' /\ \A r \in Refresh : Refreshing(r)' <=> Refreshing(r)
  BY <1>1, <1>3 DEF Selecting, InWrites, Refreshing
<1>6. WriterInv' /\ CopyInv' /\ RequestInv' /\ PreviewInv'
  BY <1>1, <1>3, <1>5 DEF CatalogInv, WriterInv, CopyInv, RequestInv, PreviewInv
<1>7. ShownInv' /\ TornInv'
  BY <1>1, <1>3, <1>5 DEF CatalogInv, ShownInv, TornInv
<1> QED  BY <1>4, <1>6, <1>7 DEF CatalogInv

-----------------------------------------------------------------------------
(***************************************************************************)
(* A refresh assigns a field.                                              *)
(***************************************************************************)

LEMMA RefreshWritesKeeps ==
    ASSUME CatalogInv, NEW r \in Refresh, RefreshWrites(r)
    PROVE  CatalogInv'
<1> DEFINE n == refresh[r].next
           e == refresh[r].entry
           changing == selected[Fields[n]] # e
           step == [refresh[r] EXCEPT !.next = n + 1,
                                        !.stage = IF n = 5 THEN "ended" ELSE @]
<1>1. /\ CatalogKinds /\ CatalogTypes /\ refresh[r] \in RefreshRecord
      /\ n \in 1..5 /\ e \in Release /\ refresh[r].stage = "writing" /\ Fields[n] \in Field
  BY FieldAt DEF RefreshWrites, CatalogInv, CatalogKinds, CatalogTypes, RefreshRecord
<1>2. /\ selected' = [selected EXCEPT ![Fields[n]] = e]
      /\ dirty' = (dirty \/ changing) /\ during' = (during \/ changing)
      /\ torn' = (torn \/ (changing /\ Unnoticed(n)))
      /\ clash' = (clash \/ Selecting \/ \E q \in Refresh \ {r} : Refreshing(q))
      /\ UNCHANGED <<available, ui, shown, preview, asked, request, downloading, selects>>
  BY DEF RefreshWrites
<1>3. refresh' = [refresh EXCEPT ![r] = step]
  BY <1>1, FieldNames DEF RefreshWrites, CatalogTypes
<1>4. /\ step \in RefreshRecord /\ step.next = n + 1 /\ step.entry = e
      /\ step.stage = IF n = 5 THEN "ended" ELSE "writing"
  <2>1. \A stage \in {"ended", "writing"}, next \in 1..6 :
           LET now == [refresh[r] EXCEPT !.next = next, !.stage = stage]
           IN  /\ now \in RefreshRecord /\ now.next = next /\ now.stage = stage
               /\ now.entry = e
    BY <1>1 DEF RefreshRecord
  <2>2. n + 1 \in 1..6
    BY <1>1
  <2>3. CASE n = 5
    BY <2>1, <2>2, <2>3
  <2>4. CASE n # 5
    BY <1>1, <2>1, <2>2, <2>4
  <2> QED  BY <2>3, <2>4
<1> HIDE DEF step
<1>5. /\ refresh' \in [Refresh -> RefreshRecord]
      /\ refresh'[r] = step /\ \A q \in Refresh \ {r} : refresh'[q] = refresh[q]
  BY <1>1, <1>3, <1>4 DEF CatalogTypes
<1>6. selected' \in [Field -> Release]
  BY <1>1, <1>2 DEF CatalogTypes
<1>7. changing \in BOOLEAN /\ Unnoticed(n) \in BOOLEAN /\ Selecting \in BOOLEAN
  BY DEF Unnoticed, Selecting
<1>8. CatalogKinds'
  <2>1. dirty' \in BOOLEAN /\ during' \in BOOLEAN /\ clash' \in BOOLEAN /\ torn' \in BOOLEAN
    BY <1>2
  <2>2. CatalogTypes'
    BY <1>1, <1>2, <1>5, <1>6, <2>1 DEF CatalogTypes
  <2>3. \A q \in Refresh :
          /\ refresh'[q].stage = "writing" => refresh'[q].next \in 1..5
          /\ refresh'[q].stage # "ended" =>
                refresh'[q].next = 1 \/ refresh'[q].stage = "writing"
          /\ refresh'[q].stage = "listed" => available' # {}
    BY <1>1, <1>2, <1>4, <1>5 DEF CatalogKinds
  <2> QED  BY <1>1, <1>2, <2>2, <2>3 DEF CatalogKinds
\* Where nothing changes, nothing has happened to the selection.
<1>9. ~changing => selected' = selected
  BY <1>1, <1>2 DEF CatalogTypes
<1>10. ~clash' => /\ ~clash /\ ~Selecting /\ \A q \in Refresh \ {r} : ~Refreshing(q)
                  /\ Written(selected, n, e)
  <2> SUFFICES ASSUME ~clash'
               PROVE  /\ ~clash /\ ~Selecting /\ \A q \in Refresh \ {r} : ~Refreshing(q)
                      /\ Written(selected, n, e)
    OBVIOUS
  <2>1. ~clash /\ ~Selecting /\ \A q \in Refresh \ {r} : ~Refreshing(q)
    BY <1>2
  <2>2. CASE n = 1
    <3>1. ~Refreshing(r)
      BY <2>2 DEF Refreshing, InWrites
    <3>2. Uniform(selected)
      BY <2>1, <3>1 DEF CatalogInv, WriterInv
    <3> QED  BY <2>1, <2>2, <3>2, WrittenFirst
  <2>3. CASE n # 1
    <3>1. Refreshing(r)
      BY <1>1, <2>3, FieldNames DEF Refreshing, InWrites
    <3> QED  BY <2>1, <3>1 DEF CatalogInv, WriterInv
  <2> QED  BY <2>2, <2>3
<1>11. ~clash' => Written(selected', n + 1, e)
  BY <1>1, <1>2, <1>10, WrittenNext DEF CatalogTypes
<1>12. /\ Selecting' = Selecting
       /\ \A q \in Refresh \ {r} : Refreshing(q)' <=> Refreshing(q)
       /\ Refreshing(r)' <=> n # 5
  BY <1>1, <1>2, <1>4, <1>5, FieldNames DEF Selecting, Refreshing, InWrites
<1>13. WriterInv'
  <2>1. CASE clash'
    BY <2>1 DEF WriterInv
  <2>2. CASE ~clash' /\ n = 5
    <3>1. Uniform(selected')
      BY <1>11, <2>2, WrittenLast
    <3>2. Uniform(selected)'
      BY <3>1 DEF Uniform
    <3> QED  BY <1>10, <1>12, <2>2, <3>2 DEF WriterInv
  <2>3. CASE ~clash' /\ n # 5
    <3>1. Written(selected, refresh[r].next, refresh[r].entry)'
      BY <1>4, <1>5, <1>11, <2>3 DEF Written
    <3> QED  BY <1>10, <1>12, <2>3, <3>1 DEF WriterInv
  <2> QED  BY <2>1, <2>2, <2>3
<1>14. CopyInv'
  <2>1. during' => dirty'
    BY <1>2 DEF CatalogInv, CopyInv
  <2>2. CASE ~changing
    BY <1>2, <1>9, <2>1, <2>2 DEF CatalogInv, CopyInv
  <2>3. CASE changing
    <3>1. during' /\ (ui.task = "show" /\ ui.next > 2 => torn')
      BY <1>2, <2>3 DEF Unnoticed
    <3> QED  BY <1>2, <2>1, <3>1 DEF CatalogInv, CopyInv
  <2> QED  BY <2>2, <2>3
<1>15. ShownInv' /\ RequestInv' /\ PreviewInv'
  <2>1. CASE dirty'
    BY <2>1 DEF ShownInv, RequestInv, PreviewInv
  <2>2. CASE ~dirty'
    <3>1. ~dirty /\ selected' = selected /\ (~clash' => ~clash)
      BY <1>2, <1>9, <2>2
    <3> QED  BY <1>2, <1>12, <2>2, <3>1
             DEF CatalogInv, ShownInv, RequestInv, PreviewInv, Uniform, Selecting
  <2> QED  BY <2>1, <2>2
<1>16. TornInv'
  <2> SUFFICES ASSUME ~torn', ~clash', ~(ui.task = "show" /\ ui.next > 2),
                      shown.version = shown.iso
               PROVE  \/ Uniform(shown)'
                      \/ /\ shown' = selected'
                         /\ \E q \in Refresh : Refreshing(q)' /\ refresh'[q].next > 2
    BY <1>2 DEF TornInv
  <2>1. ~torn /\ ~clash /\ (changing => ~Unnoticed(n))
    BY <1>2, <1>10
  <2>2. CASE Uniform(shown)
    BY <1>2, <2>2 DEF Uniform
  <2>3. CASE ~Uniform(shown)
    <3>1. shown = selected /\ \E q \in Refresh : Refreshing(q) /\ refresh[q].next > 2
      BY <2>1, <2>3 DEF CatalogInv, TornInv
    <3>2. Refreshing(r) /\ n > 2
      BY <1>10, <3>1
    <3>3. ~changing
      BY <2>1, <3>1, <3>2 DEF Unnoticed
    <3>4. shown' = selected'
      BY <1>2, <1>9, <3>1, <3>3
    <3>5. n # 5
      <4>1. n = 5 => Written(selected, 6, e)
        BY <1>9, <1>11, <3>3
      <4> QED  BY <2>3, <3>1, <4>1, WrittenLast
    <3> QED  BY <1>1, <1>4, <1>5, <1>12, <3>2, <3>4, <3>5
  <2> QED  BY <2>2, <2>3
<1> QED  BY <1>8, <1>13, <1>14, <1>15, <1>16 DEF CatalogInv

-----------------------------------------------------------------------------
(***************************************************************************)
(* The UI thread selects, copies, answers and requests.                    *)
(***************************************************************************)

\* The step of the UI thread at its next step.
LEMMA UiRecords ==
    ASSUME NEW u \in UiRecord, NEW next \in 1..6
    PROVE  LET now == [u EXCEPT !.next = next]
           IN  /\ now \in UiRecord /\ now.next = next
               /\ now.task = u.task /\ now.entry = u.entry
  BY DEF UiRecord

LEMMA SelectWritesKeeps == ASSUME CatalogInv, SelectWrites PROVE CatalogInv'
<1> DEFINE n == ui.next
           e == ui.entry
<1>1. /\ CatalogKinds /\ CatalogTypes /\ ui \in UiRecord /\ ui.task = "select"
      /\ n \in 1..5 /\ e \in Release
  BY DEF SelectWrites, CatalogInv, CatalogKinds, CatalogTypes, UiRecord
<1>2. /\ selected' = [selected EXCEPT ![Fields[n]] = e]
      /\ clash' = (clash \/ \E r \in Refresh : Refreshing(r))
      /\ UNCHANGED <<available, refresh, shown, preview, asked, request, downloading, selects,
                     dirty, during, torn>>
  BY DEF SelectWrites
<1>3. /\ ui' \in UiRecord
      /\ n = 5 => ui'.task = "show" /\ ui'.next = 1
      /\ n # 5 => ui'.task = "select" /\ ui'.next = n + 1 /\ ui'.entry = e
  <2>1. CASE n = 5
    <3>1. ui' = [task |-> "show", entry |-> None, next |-> 1]
      BY <2>1, FieldNames DEF SelectWrites, AfterSelect
    <3> QED  BY <2>1, <3>1 DEF UiRecord, Release
  <2>2. CASE n # 5
    <3>1. ui' = [ui EXCEPT !.next = n + 1] /\ n + 1 \in 1..6
      BY <1>1, <2>2, FieldNames DEF SelectWrites
    <3> QED  BY <1>1, <2>2, <3>1, UiRecords
  <2> QED  BY <2>1, <2>2
<1>4. CatalogKinds'
  <2>1. clash' \in BOOLEAN
    BY <1>2
  <2>2. selected' \in [Field -> Release]
    BY <1>1, <1>2, FieldAt DEF CatalogTypes
  <2>3. CatalogTypes'
    BY <1>1, <1>2, <1>3, <2>1, <2>2 DEF CatalogTypes
  <2> QED  BY <1>1, <1>2, <1>3, <2>3 DEF CatalogKinds
<1>5. /\ \A r \in Refresh : Refreshing(r)' <=> Refreshing(r)
      /\ Selecting' <=> n # 5
      /\ Selecting <=> n # 1
  BY <1>1, <1>2, <1>3, FieldNames DEF Refreshing, Selecting, InWrites
<1>6. ~clash' => /\ ~clash /\ \A r \in Refresh : ~Refreshing(r)
                 /\ n = 1 => Uniform(selected)
                 /\ Written(selected, n, e)
  <2> SUFFICES ASSUME ~clash'
               PROVE  /\ n = 1 => Uniform(selected)
                      /\ Written(selected, n, e)
    BY <1>2
  <2>1. ~clash /\ \A r \in Refresh : ~Refreshing(r)
    BY <1>2
  <2>2. CASE n = 1
    <3>1. Uniform(selected)
      BY <1>5, <2>1, <2>2 DEF CatalogInv, WriterInv
    <3> QED  BY <2>2, <3>1, WrittenFirst
  <2>3. CASE n # 1
    BY <1>5, <2>1, <2>3 DEF CatalogInv, WriterInv
  <2> QED  BY <2>2, <2>3
<1>7. ~clash' => Written(selected', n + 1, e)
  BY <1>1, <1>2, <1>6, WrittenNext DEF CatalogTypes
<1>8. ~clash' /\ n = 5 => Uniform(selected)'
  <2>1. ~clash' /\ n = 5 => Uniform(selected')
    BY <1>7, WrittenLast
  <2> QED  BY <2>1 DEF Uniform
<1>9. WriterInv'
  <2>1. ~clash' /\ n # 5 => Written(selected, ui.next, ui.entry)'
    BY <1>3, <1>7 DEF Written
  <2> QED  BY <1>5, <1>6, <1>8, <2>1 DEF WriterInv
<1>10. CopyInv' /\ RequestInv'
  BY <1>1, <1>2, <1>3 DEF CatalogInv, CopyInv, RequestInv
<1>11. ShownInv'
  <2> SUFFICES ASSUME ~dirty, ~clash'
               PROVE  ShownInv'
    BY <1>2 DEF ShownInv
  <2>1. /\ Uniform(shown)
        /\ \A i \in 1..5 : i >= n => shown[Fields[i]] = selected[Fields[i]]
    <3>1. CASE n = 1
      BY <1>1, <1>6, <3>1 DEF CatalogInv, ShownInv, Uniform
    <3>2. CASE n # 1
      BY <1>5, <1>6, <3>2 DEF CatalogInv, ShownInv
    <3> QED  BY <3>1, <3>2
  <2>2. \A i \in 1..5 : i >= n + 1 => shown[Fields[i]] = selected'[Fields[i]]
    <3>1. \A i \in 1..5 : i # n => selected'[Fields[i]] = selected[Fields[i]]
      BY <1>1, <1>2, FieldAt DEF CatalogTypes
    <3> QED  BY <1>1, <2>1, <3>1
  <2>3. Uniform(shown)'
    BY <1>2, <2>1 DEF Uniform
  <2> QED  BY <1>1, <1>2, <1>3, <1>5, <1>8, <2>2, <2>3 DEF ShownInv
<1>12. PreviewInv'
  BY <1>1, <1>2, <1>3, <1>6 DEF CatalogInv, PreviewInv
<1>13. TornInv'
  <2> SUFFICES ASSUME ~torn, ~clash', shown.version = shown.iso
               PROVE  Uniform(shown)
    BY <1>2 DEF TornInv, Uniform
  <2> QED  BY <1>1, <1>6 DEF CatalogInv, TornInv
<1> QED  BY <1>4, <1>9, <1>10, <1>11, <1>12, <1>13 DEF CatalogInv

LEMMA ReadVersionKeeps == ASSUME CatalogInv, ReadVersion PROVE CatalogInv'
<1>1. /\ ui.task = "show" /\ ui.next = 1 /\ ui \in UiRecord
      /\ ui' = [ui EXCEPT !.entry = selected.version, !.next = 2] /\ during' = FALSE
      /\ UNCHANGED <<available, selected, refresh, shown, preview, asked, request, downloading,
                     selects, dirty, clash, torn>>
      /\ CatalogTypes
  BY DEF ReadVersion, selection, CatalogInv, CatalogKinds, CatalogTypes
<1>2. selected.version \in Release
  BY <1>1, FieldNames DEF CatalogTypes
<1>3. ui' \in UiRecord /\ ui'.task = "show" /\ ui'.next = 2 /\ ui'.entry = selected.version
  <2>1. ui' = [task |-> ui.task, entry |-> selected.version, next |-> 2]
    BY <1>1 DEF UiRecord
  <2>2. ui.task \in {"idle", "select", "show", "request"} /\ 2 \in 1..6
    BY <1>1
  <2> QED  BY <1>1, <1>2, <2>1, <2>2 DEF UiRecord
<1>4. CatalogKinds'
  BY <1>1, <1>3 DEF CatalogInv, CatalogKinds, CatalogTypes
<1>5. ~Selecting /\ ~Selecting' /\ \A r \in Refresh : Refreshing(r)' <=> Refreshing(r)
  BY <1>1, <1>3 DEF Selecting, Refreshing
<1>6. WriterInv' /\ CopyInv' /\ RequestInv'
  BY <1>1, <1>3, <1>5 DEF CatalogInv, WriterInv, CopyInv, RequestInv
<1>7. ShownInv'
  BY <1>1, <1>3, <1>5 DEF CatalogInv, ShownInv, Uniform
<1>8. PreviewInv' /\ TornInv'
  BY <1>1, <1>3, <1>5 DEF CatalogInv, PreviewInv, TornInv, Uniform
<1> QED  BY <1>4, <1>6, <1>7, <1>8 DEF CatalogInv

LEMMA CompareShownKeeps == ASSUME CatalogInv, CompareShown PROVE CatalogInv'
<1>1. /\ ui.task = "show" /\ ui.next = 2 /\ ui \in UiRecord /\ ui.entry \in Release
      /\ UNCHANGED <<available, selected, refresh, preview, asked, request, downloading,
                     selects, dirty, during, clash, torn>>
      /\ CatalogTypes
  BY DEF CompareShown, selection, histories, CatalogInv, CatalogKinds, CatalogTypes, UiRecord
<1>2. ~Selecting /\ \A r \in Refresh : Refreshing(r)' <=> Refreshing(r)
  BY <1>1 DEF Selecting, Refreshing
<1>3. CASE AlreadyShown(ui.entry)
  <2>1. ui' = [task |-> "idle", entry |-> None, next |-> 1] /\ UNCHANGED shown
    BY <1>1, <1>3 DEF CompareShown
  <2>2. ui' \in UiRecord /\ ui'.task = "idle" /\ ~Selecting'
    BY <2>1 DEF UiRecord, Release, Selecting
  <2>3. CatalogKinds'
    BY <1>1, <2>1, <2>2 DEF CatalogInv, CatalogKinds, CatalogTypes
  <2>4. WriterInv' /\ CopyInv' /\ RequestInv'
    BY <1>1, <1>2, <2>1, <2>2 DEF CatalogInv, WriterInv, CopyInv, RequestInv
  <2>5. ShownInv'
    <3>1. ASSUME ~dirty, ~clash
          PROVE  shown = selected
      <4>1. ui.entry = selected.version
        BY <1>1, <3>1 DEF CatalogInv, CopyInv
      <4>2. shown.version = selected.version
        BY <1>3, <4>1 DEF AlreadyShown
      <4>3. CASE Uniform(shown) /\ Uniform(selected)
        <5>1. \A i \in 1..5 : shown[Fields[i]] = selected[Fields[i]]
          BY <4>2, <4>3, FieldNames, FieldAt DEF Uniform
        <5> QED  BY <1>1, <5>1, SameFields DEF CatalogTypes
      <4> QED  BY <1>1, <3>1, <4>3 DEF CatalogInv, ShownInv
    <3> QED  BY <1>1, <2>1, <2>2, <3>1 DEF ShownInv
  <2>6. PreviewInv' /\ TornInv'
    BY <1>1, <1>2, <2>1, <2>2 DEF CatalogInv, PreviewInv, TornInv, Uniform
  <2> QED  BY <2>3, <2>4, <2>5, <2>6 DEF CatalogInv
<1>4. CASE ~AlreadyShown(ui.entry)
  <2>1. ui' = [ui EXCEPT !.next = 3] /\ shown' = [shown EXCEPT !.version = ui.entry]
    BY <1>1, <1>4 DEF CompareShown
  <2>2. ui' \in UiRecord /\ ui'.task = "show" /\ ui'.next = 3 /\ ui'.entry = ui.entry
    <3>1. 3 \in 1..6
      OBVIOUS
    <3> QED  BY <1>1, <2>1, <3>1, UiRecords
  <2>3. shown' \in [Field -> Release] /\ shown'.version = ui.entry
    BY <1>1, <2>1, FieldNames DEF CatalogTypes
  <2>4. CatalogKinds'
    BY <1>1, <2>2, <2>3 DEF CatalogInv, CatalogKinds, CatalogTypes
  <2>5. WriterInv' /\ CopyInv' /\ RequestInv'
    BY <1>1, <1>2, <2>2, <2>3 DEF CatalogInv, WriterInv, CopyInv, RequestInv, Selecting
  <2>6. ShownInv' /\ PreviewInv' /\ TornInv'
    BY <2>2 DEF ShownInv, PreviewInv, TornInv, Selecting
  <2> QED  BY <2>4, <2>5, <2>6 DEF CatalogInv
<1> QED  BY <1>3, <1>4

LEMMA CopyFieldKeeps == ASSUME CatalogInv, CopyField PROVE CatalogInv'
<1> DEFINE n == ui.next
           f == Fields[n - 1]
<1>1. /\ ui.task = "show" /\ n \in 3..6 /\ ui \in UiRecord /\ CatalogTypes
      /\ UNCHANGED <<available, selected, refresh, preview, request, downloading, selects,
                     during, clash, torn>>
      /\ n - 1 \in 1..5 /\ f \in Field /\ f # Fields[1] /\ selected[f] \in Release
  <2>1. /\ ui.task = "show" /\ n > 2 /\ ui \in UiRecord /\ CatalogTypes
        /\ UNCHANGED <<available, selected, refresh, preview, request, downloading, selects,
                       during, clash, torn>>
    BY DEF CopyField, selection, CatalogInv, CatalogKinds, CatalogTypes
  <2>2. n \in 3..6 /\ n - 1 \in 1..5 /\ n - 1 # 1
    BY <2>1 DEF UiRecord
  <2>3. f \in Field /\ f # Fields[1]
    BY <2>2, FieldAt
  <2> QED  BY <2>1, <2>2, <2>3 DEF CatalogTypes
<1>2. /\ shown' = [shown EXCEPT ![f] = selected[f]]
      /\ asked' = IF n = 6 THEN [asked EXCEPT ![selected[f]] = @ + 1] ELSE asked
      /\ dirty' = IF n = 6 THEN during ELSE dirty
  BY <1>1, FieldNames DEF CopyField
<1>3. /\ ui' \in UiRecord
      /\ n = 6 => ui'.task = "idle"
      /\ n # 6 => ui'.task = "show" /\ ui'.next = n + 1 /\ ui'.entry = ui.entry
  <2>1. CASE n = 6
    <3>1. ui' = [task |-> "idle", entry |-> None, next |-> 1]
      BY <2>1, FieldNames DEF CopyField
    <3> QED  BY <2>1, <3>1 DEF UiRecord, Release
  <2>2. CASE n # 6
    <3>1. ui' = [ui EXCEPT !.next = n + 1] /\ n + 1 \in 1..6
      BY <1>1, <2>2, FieldNames DEF CopyField
    <3> QED  BY <1>1, <2>2, <3>1, UiRecords
  <2> QED  BY <2>1, <2>2
<1>4. /\ shown' \in [Field -> Release] /\ shown'[f] = selected[f]
      /\ \A g \in Field : g # f => shown'[g] = shown[g]
      /\ shown'.version = shown.version
  <2>1. "version" \in Field /\ "version" # f
    BY <1>1, FieldNames
  <2> QED  BY <1>1, <1>2, <2>1 DEF CatalogTypes
<1>5. CatalogKinds'
  <2>1. asked' \in [Release -> Nat] /\ dirty' \in BOOLEAN
    BY <1>1, <1>2 DEF CatalogTypes
  <2> QED  BY <1>1, <1>3, <1>4, <2>1 DEF CatalogInv, CatalogKinds, CatalogTypes
<1>6. ~Selecting /\ ~Selecting' /\ \A r \in Refresh : Refreshing(r)' <=> Refreshing(r)
  BY <1>1, <1>3 DEF Selecting, Refreshing
<1>7. WriterInv' /\ RequestInv'
  BY <1>1, <1>3, <1>6 DEF CatalogInv, WriterInv, RequestInv, Uniform
\* The fields copied so far, this one included.
<1>8. ~during \/ ~torn => \A i \in 2..5 : i < n => shown'[Fields[i]] = selected[Fields[i]]
  <2> SUFFICES ASSUME ~during \/ ~torn, NEW i \in 2..5, i < n
               PROVE  shown'[Fields[i]] = selected[Fields[i]]
    OBVIOUS
  <2>1. CASE i = n - 1
    BY <1>4, <2>1
  <2>2. CASE i # n - 1
    <3>1. i < n - 1 /\ i \in 1..5
      BY <1>1, <2>2
    <3>2. shown[Fields[i]] = selected[Fields[i]]
      BY <1>1, <3>1 DEF CatalogInv, CopyInv
    <3>3. Fields[i] # f /\ Fields[i] \in Field
      BY <1>1, <2>2, <3>1, FieldAt
    <3> QED  BY <1>4, <3>2, <3>3
  <2> QED  BY <2>1, <2>2
<1>9. CopyInv'
  <2>1. during' => dirty'
    BY <1>1, <1>2 DEF CatalogInv, CopyInv
  <2>2. CASE n = 6
    BY <1>3, <2>1, <2>2 DEF CopyInv
  <2>3. CASE n # 6
    <3>1. ~during => ui.entry = selected.version
      BY <1>1 DEF CatalogInv, CopyInv
    <3>2. shown'.version = ui.entry
      BY <1>1, <1>4 DEF CatalogInv, CopyInv
    <3>3. ui'.next - 1 = n
      BY <1>1, <1>3, <2>3
    <3> QED  BY <1>1, <1>3, <1>8, <2>1, <2>3, <3>1, <3>2, <3>3 DEF CopyInv
  <2> QED  BY <2>2, <2>3
<1>10. n = 6 => (~during \/ ~torn =>
                    \A i \in 2..5 : shown'[Fields[i]] = selected[Fields[i]])
  BY <1>8
<1>11. ShownInv'
  <2>1. CASE n = 6
    <3>1. ASSUME ~during
          PROVE  shown' = selected
      <4>1. shown'.version = selected.version
        BY <1>1, <1>4, <3>1 DEF CatalogInv, CopyInv
      <4>2. \A i \in 1..5 : shown'[Fields[i]] = selected[Fields[i]]
        BY <1>10, <2>1, <3>1, <4>1, FieldNames
      <4> QED  BY <1>1, <1>4, <4>2, SameFields DEF CatalogTypes
    <3> QED  BY <1>1, <1>2, <1>3, <1>6, <2>1, <3>1 DEF ShownInv
  <2>2. CASE n # 6
    <3>1. ui'.task = "show" /\ ~(ui'.next <= 2)
      BY <1>1, <1>3, <2>2
    <3> QED  BY <1>6, <3>1 DEF ShownInv
  <2> QED  BY <2>1, <2>2
<1>12. PreviewInv'
  <2>1. CASE n = 6
    <3>1. f = "checksum" /\ shown'.checksum = selected[f]
      BY <1>4, <2>1, FieldNames
    <3>2. asked'[selected[f]] > 0
      BY <1>1, <1>2, <2>1 DEF CatalogTypes
    <3> QED  BY <3>1, <3>2 DEF PreviewInv
  <2>2. CASE n # 6
    <3>1. ui'.task = "show" /\ ui'.next > 2
      BY <1>1, <1>3, <2>2
    <3> QED  BY <3>1 DEF PreviewInv
  <2> QED  BY <2>1, <2>2
<1>13. TornInv'
  <2>1. CASE n # 6
    <3>1. ui'.task = "show" /\ ui'.next > 2
      BY <1>1, <1>3, <2>1
    <3> QED  BY <3>1 DEF TornInv
  <2>2. CASE n = 6
    <3> SUFFICES ASSUME ~torn, ~clash, shown'.version = shown'.iso
                 PROVE  \/ Uniform(shown')
                        \/ /\ shown' = selected
                           /\ \E r \in Refresh : Refreshing(r) /\ refresh[r].next > 2
      BY <1>1, <1>6 DEF TornInv, Uniform
    <3>1. \A i \in 2..5 : shown'[Fields[i]] = selected[Fields[i]]
      BY <1>10, <2>2
    <3>2. shown'[Fields[1]] = selected[Fields[2]]
      BY <3>1, FieldNames
    <3>3. CASE \A i, j \in 2..5 : selected[Fields[i]] = selected[Fields[j]]
      <4>1. \A i \in 1..5 : shown'[Fields[i]] = selected[Fields[2]]
        BY <3>1, <3>2, <3>3
      <4> QED  BY <4>1, UniformAt
    <3>4. CASE \E i, j \in 2..5 : selected[Fields[i]] # selected[Fields[j]]
      <4>1. ~Uniform(selected)
        BY <3>4, UniformAt
      <4>2. PICK r \in Refresh : Refreshing(r)
        BY <1>6, <4>1 DEF CatalogInv, WriterInv
      <4>3. Written(selected, refresh[r].next, refresh[r].entry)
        BY <4>2 DEF CatalogInv, WriterInv
      <4>4. refresh[r].next \in 2..5
        BY <4>2, FieldNames DEF Refreshing, InWrites
      <4>5. refresh[r].next # 2
        BY <3>4, <4>3 DEF Written
      <4>6. refresh[r].next > 2
        BY <4>4, <4>5
      <4>7. selected[Fields[1]] = selected[Fields[2]]
        BY <4>3, <4>4, <4>6 DEF Written
      <4>8. \A i \in 1..5 : shown'[Fields[i]] = selected[Fields[i]]
        BY <3>1, <3>2, <4>7
      <4>9. shown' = selected
        BY <1>1, <1>4, <4>8, SameFields DEF CatalogTypes
      <4> QED  BY <4>2, <4>6, <4>9
    <3> QED  BY <3>3, <3>4
  <2> QED  BY <2>1, <2>2
<1> QED  BY <1>5, <1>7, <1>9, <1>11, <1>12, <1>13 DEF CatalogInv

LEMMA AnswerPreviewKeeps ==
    ASSUME CatalogInv, NEW url \in Release, AnswerPreview(url)
    PROVE  CatalogInv'
<1>1. /\ ui.task = "idle" /\ asked[url] > 0 /\ asked' = [asked EXCEPT ![url] = @ - 1]
      /\ preview' \in {url, None, preview}
      /\ url = selected.checksum => preview' \in {url, None}
      /\ url # selected.checksum => preview' = preview
      /\ UNCHANGED <<available, selected, refresh, ui, shown, request, downloading, selects,
                     dirty, during, clash, torn>>
      /\ CatalogTypes
  BY DEF AnswerPreview, UiIdle, UnderWay, StillSelected, selection, histories, CatalogInv,
         CatalogKinds
<1>2. CatalogKinds'
  <2>1. asked' \in [Release -> Nat] /\ preview' \in Release
    BY <1>1 DEF CatalogTypes, Release
  <2> QED  BY <1>1, <2>1 DEF CatalogInv, CatalogKinds, CatalogTypes
<1>3. ~Selecting /\ ~Selecting' /\ \A r \in Refresh : Refreshing(r)' <=> Refreshing(r)
  BY <1>1 DEF Selecting, Refreshing
<1>4. WriterInv' /\ CopyInv' /\ RequestInv'
  BY <1>1, <1>3 DEF CatalogInv, WriterInv, CopyInv, RequestInv
<1>5. ShownInv' /\ TornInv'
  BY <1>1, <1>3 DEF CatalogInv, ShownInv, TornInv, Uniform
<1>6. PreviewInv'
  <2> SUFFICES ASSUME ~dirty, ~clash
               PROVE  preview' \in {None, shown.checksum} \/ asked'[shown.checksum] > 0
    BY <1>1 DEF PreviewInv
  <2>1. shown = selected
    BY <1>1 DEF CatalogInv, ShownInv
  <2>2. CASE url = selected.checksum
    BY <1>1, <2>1, <2>2
  <2>3. CASE url # selected.checksum
    <3>1. preview \in {None, shown.checksum} \/ asked[shown.checksum] > 0
      BY <1>1 DEF CatalogInv, PreviewInv
    <3>2. shown.checksum \in Release
      BY <1>1, FieldNames DEF CatalogTypes
    <3> QED  BY <1>1, <2>1, <2>3, <3>1, <3>2 DEF CatalogTypes
  <2> QED  BY <2>2, <2>3
<1> QED  BY <1>2, <1>4, <1>5, <1>6 DEF CatalogInv

LEMMA ReadForRequestKeeps == ASSUME CatalogInv, ReadForRequest PROVE CatalogInv'
<1> DEFINE n == ui.next
           f == RequestOrder[n]
<1>1. /\ ui.task = "request" /\ n \in 1..4 /\ ui \in UiRecord /\ CatalogTypes
      /\ UNCHANGED <<available, selected, refresh, shown, preview, asked, selects, dirty, during,
                     clash, torn>>
      /\ downloading' = (n = 4)
  BY DEF ReadForRequest, selection, histories, CatalogInv, CatalogKinds, CatalogTypes,
         RequestOrder
<1>2. /\ \A i \in 1..4 : RequestOrder[i] \in Field
      /\ \A i, j \in 1..4 : i # j => RequestOrder[i] # RequestOrder[j]
  <2>1. 1..4 = {1, 2, 3, 4}
    OBVIOUS
  <2> QED  BY <2>1, FieldNames DEF RequestOrder
<1>3. \/ /\ ui' = [task |-> "idle", entry |-> None, next |-> 1] /\ request' = Empty
      \/ /\ n # 4 /\ ui' = [ui EXCEPT !.next = n + 1]
         /\ request' = [request EXCEPT ![f] = selected[f]]
  BY <1>1 DEF ReadForRequest, RequestOrder
<1>4. /\ ui' \in UiRecord /\ ui'.task \in {"idle", "request"}
      /\ ui'.task = "request" => n # 4 /\ ui'.next = n + 1
                                 /\ request' = [request EXCEPT ![f] = selected[f]]
  <2>1. CASE ui' = [task |-> "idle", entry |-> None, next |-> 1]
    BY <2>1 DEF UiRecord, Release
  <2>2. CASE n # 4 /\ ui' = [ui EXCEPT !.next = n + 1]
    <3>1. n + 1 \in 1..6
      BY <1>1
    <3>2. ui' \in UiRecord /\ ui'.task = "request" /\ ui'.next = n + 1
      BY <1>1, <2>2, <3>1, UiRecords
    <3> QED  BY <1>3, <2>2, <3>2
  <2> QED  BY <1>3, <2>1, <2>2
<1>5. CatalogKinds'
  <2>1. request' \in [Field -> Release]
    BY <1>1, <1>2, <1>3 DEF CatalogTypes, Empty, Release
  <2>2. downloading' \in BOOLEAN /\ (n # 4 => ~downloading')
    BY <1>1
  <2>3. CatalogTypes'
    BY <1>1, <1>4, <2>1, <2>2 DEF CatalogTypes
  <2> QED  BY <1>1, <1>4, <2>2, <2>3 DEF CatalogInv, CatalogKinds
<1>6. ~Selecting /\ ~Selecting' /\ \A r \in Refresh : Refreshing(r)' <=> Refreshing(r)
  BY <1>1, <1>4 DEF Selecting, Refreshing
<1>7. WriterInv' /\ CopyInv'
  BY <1>1, <1>4, <1>6 DEF CatalogInv, WriterInv, CopyInv
<1>8. RequestInv'
  <2> SUFFICES ASSUME ui'.task = "request", ~dirty, NEW i \in 1..4, i < n + 1
               PROVE  request'[RequestOrder[i]] = selected[RequestOrder[i]]
    BY <1>1, <1>4 DEF RequestInv
  <2>1. request' = [request EXCEPT ![f] = selected[f]]
    BY <1>4
  <2>2. CASE i = n
    BY <1>1, <1>2, <2>1, <2>2 DEF CatalogTypes
  <2>3. CASE i # n
    <3>1. request[RequestOrder[i]] = selected[RequestOrder[i]]
      BY <1>1, <2>3 DEF CatalogInv, RequestInv
    <3> QED  BY <1>1, <1>2, <2>1, <2>3, <3>1 DEF CatalogTypes
  <2> QED  BY <2>2, <2>3
<1>9. ShownInv' /\ PreviewInv' /\ TornInv'
  BY <1>1, <1>4, <1>6 DEF CatalogInv, ShownInv, PreviewInv, TornInv, Uniform
<1> QED  BY <1>5, <1>7, <1>8, <1>9 DEF CatalogInv

LEMMA StepCatalog == ASSUME CatalogInv, [CatalogNext]_catalogVars PROVE CatalogInv'
<1>1. ASSUME NEW r \in Refresh, SubmitRefresh(r) \/ Worker(r)
      PROVE  CatalogInv'
  <2>1. CASE SubmitRefresh(r) \/ FetchVersions(r) \/ TakeNewest(r)
    <3>1. RefreshAhead(r)
      BY <2>1, RefreshStarts DEF CatalogInv
    <3> QED  BY <3>1, RefreshStartsKeeps
  <2>2. CASE RefreshWrites(r)
    BY <2>2, RefreshWritesKeeps
  <2> QED  BY <1>1, <2>1, <2>2 DEF Worker
<1>2. CASE (\E v \in Version : SelectVersion(v)) \/ Tick \/ ClickDownload \/ DownloadEnds
  BY <1>2, UiStartsKeeps
<1>3. ASSUME NEW url \in Release, AnswerPreview(url)
      PROVE  CatalogInv'
  BY <1>3, AnswerPreviewKeeps
<1>4. CASE SelectWrites \/ ReadVersion \/ CompareShown \/ CopyField \/ ReadForRequest
  BY <1>4, SelectWritesKeeps, ReadVersionKeeps, CompareShownKeeps, CopyFieldKeeps,
     ReadForRequestKeeps
<1>5. CASE UNCHANGED catalogVars
  <2>1. CatalogKinds' /\ WriterInv'
    BY <1>5 DEF catalogVars, CatalogInv, CatalogKinds, CatalogTypes, WriterInv, Refreshing,
                Selecting, Written, Uniform
  <2>2. CopyInv' /\ ShownInv' /\ RequestInv' /\ PreviewInv' /\ TornInv'
    BY <1>5 DEF catalogVars, CatalogInv, CopyInv, ShownInv, RequestInv, PreviewInv, TornInv,
                Refreshing, Selecting, Uniform
  <2> QED  BY <2>1, <2>2 DEF CatalogInv
<1> QED  BY <1>1, <1>2, <1>3, <1>4, <1>5 DEF CatalogNext, UiThread

LEMMA CatalogAlways == CatalogSpec => []CatalogInv
  BY InitCatalog, StepCatalog, PTL DEF CatalogSpec

\* Every field is of a known release, and no thread reads past the last field.
THEOREM CatalogTyped == CatalogSpec => []CatalogTypeOK
<1>1. CatalogInv => CatalogTypeOK
  BY FieldNames DEF CatalogInv, CatalogKinds, CatalogTypes, CatalogTypeOK, RefreshRecord, UiRecord
<1> QED  BY <1>1, CatalogAlways, PTL

\* When all previews are answered, in whatever order, the suggested checksum
\* is of the selection, or empty, unless a refresh has changed it since the
\* window was filled or two writers overlapped.
THEOREM PreviewFollowsSelection == CatalogSpec => []PreviewOfSelection
<1>1. CatalogInv => PreviewOfSelection
  <2> SUFFICES ASSUME CatalogInv, UiIdle, \A url \in Release : asked[url] = 0, ~dirty, ~clash
               PROVE  preview \in {None, selected.checksum}
    BY DEF PreviewOfSelection
  <2>1. shown = selected /\ CatalogTypes
    BY DEF CatalogInv, CatalogKinds, ShownInv, UiIdle
  <2>2. asked[shown.checksum] = 0
    BY <2>1, FieldNames DEF CatalogTypes
  <2> QED  BY <2>1, <2>2 DEF CatalogInv, PreviewInv, UiIdle
<1> QED  BY <1>1, CatalogAlways, PTL

\* A tick that finds nothing to copy leaves a window that shows the selection,
\* unless a refresh changed a field in the middle of a copy or behind the two
\* fields that are compared.
THEOREM TickSettlesWindow == CatalogSpec => []WindowSettled
<1>1. CatalogInv => WindowSettled
  <2> SUFFICES ASSUME CatalogInv, UiIdle, AlreadyShown(selected.version),
                      \A r \in Refresh : ~Refreshing(r), ~torn, ~clash
               PROVE  shown = selected
    BY DEF WindowSettled
  <2>1. Uniform(selected) /\ CatalogTypes
    BY DEF CatalogInv, CatalogKinds, WriterInv, UiIdle, Selecting
  <2>2. shown.version = selected.version /\ shown.iso = selected.iso
    BY DEF AlreadyShown
  <2>3. shown.version = shown.iso
    BY <2>1, <2>2, FieldNames DEF Uniform
  <2>4. Uniform(shown)
    BY <2>3 DEF CatalogInv, TornInv, UiIdle
  <2>5. \A i \in 1..5 : shown[Fields[i]] = selected[Fields[i]]
    BY <2>1, <2>2, <2>4, FieldNames, FieldAt DEF Uniform
  <2> QED  BY <2>1, <2>5, SameFields DEF CatalogTypes
<1> QED  BY <1>1, CatalogAlways, PTL

\* What is submitted for download is of one release and of the one shown,
\* whatever refreshes ran, unless one is under way or has changed a field
\* since the window was filled, or two writers overlapped.
THEOREM RequestFollowsWindow == CatalogSpec => RequestAsShown
<1> DEFINE Submits == ui.task = "request" /\ downloading' =>
         \/ \A f \in {"version", "image", "signature", "checksum"} :
                Submitted[f] = shown.version /\ Submitted[f] = shown[f]
         \/ dirty \/ clash \/ \E r \in Refresh : Refreshing(r)
<1>1. CatalogInv /\ [CatalogNext]_catalogVars => [Submits]_catalogVars
  <2> SUFFICES ASSUME CatalogInv, CatalogNext, ui.task = "request", downloading',
                      ~dirty, ~clash, \A r \in Refresh : ~Refreshing(r)
               PROVE  \A f \in {"version", "image", "signature", "checksum"} :
                         Submitted[f] = shown.version /\ Submitted[f] = shown[f]
    OBVIOUS
  <2>1. ReadForRequest /\ ui.next = 4
    <3>1. ~downloading
      BY DEF CatalogInv, CatalogKinds
    <3>2. ReadForRequest
      BY <3>1 DEF CatalogNext, SubmitRefresh, Worker, FetchVersions, TakeNewest, RefreshWrites,
             SelectVersion, AnswerPreview, UiThread, SelectWrites, Tick, ReadVersion,
             CompareShown, CopyField, ClickDownload, DownloadEnds, UiIdle
    <3> QED  BY <3>2 DEF ReadForRequest, RequestOrder
  <2>2. CatalogTypes /\ shown = selected /\ Uniform(selected)
    BY DEF CatalogInv, CatalogKinds, ShownInv, WriterInv, Selecting
  <2>3. /\ request.image = selected.image /\ request.checksum = selected.checksum
        /\ request.signature = selected.signature
    <3>1. \A i \in 1..4 : i < 4 => request[RequestOrder[i]] = selected[RequestOrder[i]]
      BY <2>1 DEF CatalogInv, RequestInv
    <3>2. 1 \in 1..4 /\ 2 \in 1..4 /\ 3 \in 1..4
      OBVIOUS
    <3> QED  BY <3>1, <3>2 DEF RequestOrder
  <2>4. \A f \in {"version", "image", "signature", "checksum"} :
           Submitted[f] = selected[f] /\ selected[f] = selected.version
    <3>1. Submitted.version = selected.version
      BY <2>2, FieldNames DEF Submitted, CatalogTypes
    <3>2. \A f \in {"image", "signature", "checksum"} : Submitted[f] = request[f]
      BY <2>2, FieldNames DEF Submitted, CatalogTypes
    <3> QED  BY <2>2, <2>3, <3>1, <3>2, FieldNames DEF Uniform
  <2> QED  BY <2>2, <2>4
<1>2. RequestAsShown <=> [][Submits]_catalogVars
  BY DEF RequestAsShown
<1> QED  BY <1>1, <1>2, CatalogAlways, PTL DEF CatalogSpec
=============================================================================
