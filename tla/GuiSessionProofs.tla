-------------------------- MODULE GuiSessionProofs --------------------------
(***************************************************************************)
(* What the flags of the window guarantee for every number of writes,      *)
(* downloads, scans and workers, and every set of faults.                  *)
(***************************************************************************)
EXTENDS GuiSession, TLAPS

USE DEF settings, controls, history

Reported == Write \cup Download

Kinds ==
    /\ job \in [Job -> Stage]
    /\ queue \in Seq(Job) /\ events \in Seq(Reported)
    /\ tick \in Tick /\ dialog \in Write \cup {None}

Flags == /\ writing \in BOOLEAN /\ downloading \in BOOLEAN /\ redrawn \in BOOLEAN
         /\ verified \in BOOLEAN /\ overlap \in BOOLEAN /\ listed \in BOOLEAN /\ open \in BOOLEAN

Sources == /\ mode \in Source /\ drawn \in Source \cup {"never"}
           /\ attached \in Medium \cup {None} /\ stranded \subseteq Write

\* What waits in a queue has the stage of it, and waits once.
Waits(s, stage) ==
    /\ \A i \in 1..Len(s) : job[s[i]] = stage
    /\ \A i, k \in 1..Len(s) : s[i] = s[k] => i = k

\* What has the stage of a queue is in it: nothing is dropped on the way.
Found(j, s) == \E i \in 1..Len(s) : s[i] = j
NothingDropped ==
    /\ \A j \in Job : job[j] = "queued" => Found(j, queue)
    /\ \A j \in Reported : job[j] = "over" => Found(j, events)

Queues == Kinds /\ Waits(queue, "queued") /\ Waits(events, "over")

\* From the confirmation of a write, or the start of a download, to its callback.
Active(w) == job[w] \in {"queued", "working", "reporting", "over"}

DownloadsInv ==
    /\ \A d \in Download : Active(d) => downloading
    /\ \A d, e \in Download : Active(d) /\ Active(e) => d = e
    /\ dialog # None => ~downloading

WritesInv ==
    ~overlap =>
        /\ \A w \in Write : Active(w) => writing
        /\ \A v, w \in Write : Active(v) /\ Active(w) => v = w
        /\ \A w \in Write, d \in Download : ~(Active(w) /\ Active(d))

\* The controls that a tick has enabled again are open to the operator in no
\* write but those that were under way when a tick died.
ControlsInv ==
    redrawn => /\ tick = "waiting" => ~writing
               /\ tick = "dead" => \A w \in Write : UnderWay(w) => w \in stranded

SessionInv == /\ Queues /\ Flags /\ Sources
              /\ DownloadsInv /\ WritesInv /\ RefusalJustified /\ ControlsInv

-----------------------------------------------------------------------------
LEMMA AppendFacts ==
    ASSUME NEW S, NEW s \in Seq(S), NEW e \in S
    PROVE  /\ Append(s, e) \in Seq(S) /\ Len(Append(s, e)) = Len(s) + 1
           /\ \A i \in 1..Len(s) : Append(s, e)[i] = s[i]
           /\ Append(s, e)[Len(s) + 1] = e
OBVIOUS

LEMMA TailFacts ==
    ASSUME NEW S, NEW s \in Seq(S), s # <<>>
    PROVE  /\ Tail(s) \in Seq(S) /\ Len(Tail(s)) = Len(s) - 1
           /\ \A i \in 1..Len(Tail(s)) : Tail(s)[i] = s[i + 1]
           /\ Len(s) \in Nat /\ Len(s) > 0
           /\ Head(s) \in S /\ Head(s) = s[1]
OBVIOUS

\* A job that had another stage joins a queue; the first one leaves it.
LEMMA JoinQueue ==
    ASSUME NEW S \in SUBSET Job, NEW s \in Seq(S), NEW e \in S, NEW stage,
           job \in [Job -> Stage], job[e] # stage, Waits(s, stage),
           job' = [job EXCEPT ![e] = stage]
    PROVE  /\ \A i \in 1..Len(Append(s, e)) : job'[Append(s, e)[i]] = stage
           /\ \A i, k \in 1..Len(Append(s, e)) : Append(s, e)[i] = Append(s, e)[k] => i = k
<1>1. \A i \in 1..Len(s) : s[i] \in S /\ s[i] # e
  BY DEF Waits
<1>2. Len(s) \in Nat
  OBVIOUS
<1>3. QED BY <1>1, <1>2, AppendFacts DEF Waits

LEMMA LeaveQueue ==
    ASSUME NEW S \in SUBSET Job, NEW s \in Seq(S), s # <<>>, NEW stage, NEW to,
           job \in [Job -> Stage], Waits(s, stage),
           job' = [job EXCEPT ![Head(s)] = to]
    PROVE  /\ \A i \in 1..Len(Tail(s)) : job'[Tail(s)[i]] = stage
           /\ \A i, k \in 1..Len(Tail(s)) : Tail(s)[i] = Tail(s)[k] => i = k
<1>1. \A i \in 1..Len(Tail(s)) : /\ i + 1 \in 1..Len(s)
                                 /\ Tail(s)[i] = s[i + 1] /\ s[i + 1] \in S
                                 /\ s[i + 1] # Head(s)
  <2>1. /\ Len(Tail(s)) = Len(s) - 1 /\ Len(s) \in Nat /\ Len(s) > 0 /\ Head(s) = s[1]
        /\ \A i \in 1..Len(Tail(s)) : Tail(s)[i] = s[i + 1]
    BY TailFacts
  <2>2. QED BY <2>1 DEF Waits
<1>2. QED BY <1>1 DEF Waits

\* What waits elsewhere is not touched.
LEMMA StayInQueue ==
    ASSUME NEW s \in Seq(Job), NEW e \in Job, NEW stage, NEW to,
           job \in [Job -> Stage], Waits(s, stage), job[e] # stage,
           job' = [job EXCEPT ![e] = to]
    PROVE  \A i \in 1..Len(s) : job'[s[i]] = stage
<1>1. \A i \in 1..Len(s) : s[i] \in Job /\ job[s[i]] = stage
  BY DEF Waits
<1>2. QED BY <1>1

-----------------------------------------------------------------------------
(***************************************************************************)
(* The ways in which jobs and queues move.                                 *)
(***************************************************************************)

Rests == UNCHANGED <<job, queue, events>>
Joins(j) == Submit(j) /\ UNCHANGED events
Taken ==
    /\ queue # <<>>
    /\ job' = [job EXCEPT ![Head(queue)] = "working"]
    /\ queue' = Tail(queue) /\ UNCHANGED events
Ends(j) ==
    /\ job[j] \in {"working", "reporting"}
    /\ \E to \in {"reporting", "over", "lost"} :
          /\ job' = [job EXCEPT ![j] = to]
          /\ \/ ~(to = "over" /\ j \in Reported) /\ UNCHANGED events
             \/ to = "over" /\ j \in Reported /\ events' = Append(events, j)
    /\ UNCHANGED queue
Shows ==
    /\ events # <<>>
    /\ job' = [job EXCEPT ![Head(events)] = "shown"]
    /\ events' = Tail(events) /\ UNCHANGED queue

LEMMA Moves ==
    ASSUME Kinds, [Next]_vars
    PROVE  \/ Rests \/ Taken \/ Shows
           \/ \E j \in Job : Joins(j)
           \/ \E j \in Job : Ends(j)
<1>1. CASE Operator
  <2>1. CASE AnswerYes
    <3>1. dialog \in Job
      BY <2>1 DEF AnswerYes, Kinds, Job
    <3>2. QED BY <2>1, <3>1 DEF AnswerYes, Joins
  <2>2. CASE \E d \in Download : StartDownload(d)
    BY <2>2 DEF StartDownload, Joins, Job
  <2>3. CASE \E s \in Scan : Refresh(s)
    BY <2>3 DEF Refresh, Joins, Job
  <2>4. QED
    BY <1>1, <2>1, <2>2, <2>3 DEF Operator, AskToWrite, AnswerNo, ChooseSource,
                                     ForgetImage, Validate, Close, Rests
<1>2. CASE Take
  BY <1>2 DEF Take, Taken, WorkerRest
<1>3. ASSUME NEW j \in Job, Finish(j) PROVE Ends(j)
  BY <1>3, JobsAssumption
     DEF Finish, EndWrite, ReportWrite, EndDownload, EndScan, WorkerRest, Ends, Queued,
         Reported
<1>4. CASE TickStep \/ Dismiss
  BY <1>4
     DEF TickStep, TickBegin, FinishWrite, FinishDownload, Drained, RecordFails, LookUp,
         Plan, Dismiss, TickRest, Show, Rests, Shows
<1>5. CASE UNCHANGED vars
  BY <1>5 DEF vars, Rests
<1>6. QED BY <1>1, <1>2, <1>3, <1>4, <1>5 DEF Next

LEMMA QueuesStep ==
    ASSUME Queues, [Next]_vars
    PROVE  /\ job' \in [Job -> Stage] /\ queue' \in Seq(Job) /\ events' \in Seq(Reported)
           /\ Waits(queue, "queued")' /\ Waits(events, "over")'
<1> USE DEF Queues, Kinds
<1> DEFINE Goal == /\ job' \in [Job -> Stage] /\ queue' \in Seq(Job)
                   /\ events' \in Seq(Reported)
                   /\ Waits(queue, "queued")' /\ Waits(events, "over")'
<1>0. Reported \subseteq Job /\ events \in Seq(Job)
  BY DEF Reported, Job
<1>1. CASE Rests
  BY <1>1 DEF Rests, Waits
<1>2. ASSUME NEW j \in Job, Joins(j) PROVE Goal
  <2>1. /\ job[j] = "new" /\ job' = [job EXCEPT ![j] = "queued"]
        /\ queue' = Append(queue, j) /\ events' = events
    BY <1>2 DEF Joins, Submit
  <2>2. Waits(queue, "queued")'
    BY <2>1, JoinQueue DEF Waits
  <2>3. \A i \in 1..Len(events) : job'[events[i]] = "over"
    BY <2>1, <1>0, StayInQueue
  <2>4. Waits(events, "over")'
    BY <2>1, <2>3 DEF Waits
  <2>5. job' \in [Job -> Stage] /\ queue' \in Seq(Job)
    BY <2>1, AppendFacts DEF Stage
  <2>6. QED BY <2>1, <2>2, <2>4, <2>5
<1>3. CASE Taken
  <2>1. Head(queue) \in Job /\ job[Head(queue)] = "queued"
    <3>1. Head(queue) \in Job /\ Head(queue) = queue[1] /\ 1 \in 1..Len(queue)
      BY <1>3, TailFacts DEF Taken
    <3>2. QED BY <3>1 DEF Waits
  <2>2. Waits(queue, "queued")'
    BY <1>3, LeaveQueue DEF Taken, Waits
  <2>3. \A i \in 1..Len(events) : job'[events[i]] = "over"
    BY <1>0, <1>3, <2>1, StayInQueue DEF Taken
  <2>4. Waits(events, "over")'
    BY <1>3, <2>3 DEF Waits, Taken
  <2>5. job' \in [Job -> Stage] /\ queue' \in Seq(Job)
    BY <1>3, <2>1, TailFacts DEF Stage, Taken
  <2>6. QED BY <1>3, <2>2, <2>4, <2>5 DEF Taken
<1>4. ASSUME NEW j \in Job, Ends(j) PROVE Goal
  <2>1. PICK to \in {"reporting", "over", "lost"} :
            /\ job' = [job EXCEPT ![j] = to]
            /\ \/ ~(to = "over" /\ j \in Reported) /\ UNCHANGED events
               \/ to = "over" /\ j \in Reported /\ events' = Append(events, j)
    BY <1>4 DEF Ends
  <2>2. job[j] \in {"working", "reporting"} /\ queue' = queue
    BY <1>4 DEF Ends
  <2>3. \A i \in 1..Len(queue) : job'[queue[i]] = "queued"
    BY <2>1, <2>2, StayInQueue
  <2>4. Waits(queue, "queued")'
    BY <2>2, <2>3 DEF Waits
  <2>5. Waits(events, "over")'
    <3>1. CASE UNCHANGED events
      <4>1. \A i \in 1..Len(events) : job'[events[i]] = "over"
        BY <1>0, <2>1, <2>2, StayInQueue
      <4>2. QED BY <3>1, <4>1 DEF Waits
    <3>2. CASE to = "over" /\ j \in Reported /\ events' = Append(events, j)
      <4>1. j \in Reported /\ job[j] # "over" /\ job' = [job EXCEPT ![j] = "over"]
        BY <2>1, <2>2, <3>2
      <4>2. Reported \in SUBSET Job /\ events \in Seq(Reported)
        BY <1>0
      <4>3. QED BY <1>0, <3>2, <4>1, <4>2, JoinQueue DEF Waits
    <3>3. QED BY <2>1, <3>1, <3>2
  <2>6. job' \in [Job -> Stage] /\ events' \in Seq(Reported)
    BY <2>1, AppendFacts DEF Stage
  <2>7. QED BY <2>2, <2>4, <2>5, <2>6
<1>5. CASE Shows
  <2>1. Head(events) \in Job /\ job[Head(events)] = "over"
    <3>1. Head(events) \in Reported /\ Head(events) = events[1] /\ 1 \in 1..Len(events)
      BY <1>5, TailFacts DEF Shows
    <3>2. QED BY <1>0, <3>1 DEF Waits
  <2>2. Waits(events, "over")'
    BY <1>0, <1>5, LeaveQueue DEF Shows, Waits
  <2>3. \A i \in 1..Len(queue) : job'[queue[i]] = "queued"
    BY <1>5, <2>1, StayInQueue DEF Shows
  <2>4. Waits(queue, "queued")'
    BY <1>5, <2>3 DEF Waits, Shows
  <2>5. job' \in [Job -> Stage] /\ events' \in Seq(Reported)
    BY <1>5, <2>1, TailFacts DEF Stage, Shows
  <2>6. QED BY <1>5, <2>2, <2>4, <2>5 DEF Shows
<1>6. QED BY <1>1, <1>2, <1>3, <1>4, <1>5, Moves

LEMMA KindsStep ==
    ASSUME Kinds, [Next]_vars
    PROVE  tick' \in Tick /\ dialog' \in Write \cup {None}
<1> USE DEF Kinds, Tick
<1>1. CASE Operator
  BY <1>1
     DEF Operator, AskToWrite, AnswerYes, AnswerNo, StartDownload, ChooseSource, ForgetImage,
         Validate, Refresh, Close
<1>2. CASE Take
  BY <1>2 DEF Take, WorkerRest
<1>3. CASE \E j \in Job : Finish(j)
  BY <1>3 DEF Finish, EndWrite, ReportWrite, EndDownload, EndScan, WorkerRest
<1>4. CASE TickStep \/ Dismiss
  BY <1>4
     DEF TickStep, TickBegin, FinishWrite, FinishDownload, Drained, RecordFails, LookUp,
         Plan, Dismiss, Dies, TickRest
<1>5. CASE UNCHANGED vars
  BY <1>5 DEF vars
<1>6. QED BY <1>1, <1>2, <1>3, <1>4, <1>5 DEF Next

LEMMA FlagsStep ==
    ASSUME Flags, [Next]_vars
    PROVE  Flags'
<1> USE DEF Flags
<1>1. CASE Operator
  <2>1. CASE AnswerYes
    BY <2>1, Zenon DEF AnswerYes, FlagRaised
  <2>2. CASE \E d \in Download : StartDownload(d)
    BY <2>2, Zenon DEF StartDownload, FlagRaised
  <2>3. CASE \/ ForgetImage \/ \E m \in Source : ChooseSource(m)
             \/ \E medium \in Medium : Validate(medium)
    BY <2>3, Zenon DEF ChooseSource, ForgetImage, Validate
  <2>4. CASE Close
    BY <2>4, Zenon DEF Close
  <2>5. CASE \/ \E w \in Write : AskToWrite(w)
             \/ AnswerNo \/ \E s \in Scan : Refresh(s)
    BY <2>5, Zenon DEF AskToWrite, AnswerNo, Refresh
  <2>6. QED BY <1>1, <2>1, <2>2, <2>3, <2>4, <2>5, Zenon DEF Operator
<1>2. CASE Take
  BY <1>2, Zenon DEF Take, WorkerRest
<1>3. ASSUME NEW j \in Job, Finish(j) PROVE Flags'
  <2>1. listed' \in BOOLEAN
    <3>1. CASE EndScan(j)
      <4>1. CASE "vanish" \in Faults
        BY <3>1, <4>1, Zenon DEF EndScan
      <4>2. CASE "vanish" \notin Faults
        BY <3>1, <4>2, Zenon DEF EndScan
      <4>3. QED BY <4>1, <4>2, Zenon
    <3>2. CASE EndWrite(j) \/ ReportWrite(j) \/ EndDownload(j)
      BY <3>2, Zenon DEF EndWrite, ReportWrite, EndDownload
    <3>3. QED BY <1>3, <3>1, <3>2, Zenon DEF Finish
  <2>2. WorkerRest
    BY <1>3, Zenon DEF Finish, EndWrite, ReportWrite, EndDownload, EndScan
  <2>3. QED BY <2>1, <2>2, Zenon DEF WorkerRest
<1>4. CASE TickStep \/ Dismiss
  <2>1. CASE TickBegin \/ Drained \/ RecordFails \/ Dismiss
    BY <2>1, Zenon DEF TickBegin, Drained, RecordFails, Dismiss, SyncSourceMode, TickRest
  <2>2. CASE FinishWrite
    BY <2>2, Zenon DEF FinishWrite, FlagCleared, SyncSourceMode, TickRest
  <2>3. CASE FinishDownload
    BY <2>3, Zenon DEF FinishDownload, FlagCleared, TickRest
  <2>4. CASE LookUp \/ Plan
    <3>1. redrawn' \in {Relocked, redrawn}
      BY <2>4, Zenon DEF LookUp, Plan
    <3>2. QED BY <2>4, <3>1, Zenon DEF LookUp, Plan, TickRest, Relocked
  <2>5. QED BY <1>4, <2>1, <2>2, <2>3, <2>4, Zenon DEF TickStep
<1>5. CASE UNCHANGED vars
  BY <1>5, Zenon DEF vars
<1>6. QED BY <1>1, <1>2, <1>3, <1>4, <1>5, Zenon DEF Next

LEMMA SourcesStep ==
    ASSUME Sources, [Next]_vars
    PROVE  Sources'
<1> USE DEF Sources, Source
<1>1. CASE Operator
  BY <1>1
     DEF Operator, AskToWrite, AnswerYes, AnswerNo, StartDownload, ChooseSource, ForgetImage,
         Validate, Refresh, Close
<1>2. CASE Take \/ \E j \in Job : Finish(j)
  BY <1>2 DEF Take, Finish, EndWrite, ReportWrite, EndDownload, EndScan, WorkerRest
<1>3. CASE TickStep \/ Dismiss
  <2>1. CASE FinishWrite \/ FinishDownload \/ Drained
    BY <2>1 DEF FinishWrite, FinishDownload, Drained, SyncSourceMode, TickRest
  <2>2. CASE TickBegin \/ RecordFails \/ LookUp \/ Plan \/ Dismiss
    BY <2>2 DEF TickBegin, RecordFails, LookUp, Plan, Dismiss, Dies, TickRest
  <2>3. QED BY <1>3, <2>1, <2>2 DEF TickStep
<1>4. CASE UNCHANGED vars
  BY <1>4 DEF vars
<1>5. QED BY <1>1, <1>2, <1>3, <1>4 DEF Next

-----------------------------------------------------------------------------
(***************************************************************************)
(* The flags and the jobs.  Most steps start no job, take no flag away and *)
(* show no result; the four that do are treated one by one.                *)
(***************************************************************************)

FlagsInv == DownloadsInv /\ WritesInv /\ RefusalJustified

Steady ==
    /\ \A j \in Reported : (Active(j)' => Active(j)) /\ (Awaited(j) => Awaited(j)')
    /\ UNCHANGED <<writing, downloading, overlap>>
    /\ dialog' # None => dialog # None \/ ~downloading

LEMMA SteadyKeeps ==
    ASSUME FlagsInv, Steady
    PROVE  FlagsInv'
<1> USE DEF FlagsInv, Steady, Reported
<1>1. DownloadsInv'
  BY Zenon DEF DownloadsInv
<1>2. WritesInv'
  BY Zenon DEF WritesInv
<1>3. RefusalJustified'
  BY Zenon DEF RefusalJustified
<1>4. QED BY <1>1, <1>2, <1>3, Zenon

\* The steps of the four that are not steady.
Begun == AnswerYes \/ \E d \in Download : StartDownload(d)
Finished == FinishWrite \/ FinishDownload

LEMMA FirstEvent ==
    ASSUME Queues, events # <<>>
    PROVE  Head(events) \in Reported /\ job[Head(events)] = "over"
<1>1. Head(events) \in Reported /\ Head(events) = events[1] /\ 1 \in 1..Len(events)
  BY TailFacts DEF Queues, Kinds
<1>2. QED BY <1>1 DEF Queues, Waits

LEMMA FirstQueued ==
    ASSUME Queues, queue # <<>>
    PROVE  Head(queue) \in Job /\ job[Head(queue)] = "queued"
<1>1. Head(queue) \in Job /\ Head(queue) = queue[1] /\ 1 \in 1..Len(queue)
  BY TailFacts DEF Queues, Kinds
<1>2. QED BY <1>1 DEF Queues, Waits

LEMMA SteadyStep ==
    ASSUME Queues, Flags, [Next]_vars, ~Begun, ~Finished
    PROVE  Steady
<1> DEFINE Calm == \A j \in Reported : (Active(j)' => Active(j)) /\ (Awaited(j) => Awaited(j)')
<1>0. job \in [Job -> Stage] /\ Reported \subseteq Job
  BY DEF Queues, Kinds, Reported, Job
<1>a. UNCHANGED job => Calm
  BY DEF Active, Awaited
<1>1. CASE Operator
  <2>1. CASE \E s \in Scan : Refresh(s)
    <3>1. PICK s \in Scan : Refresh(s)
      BY <2>1
    <3>2. s \notin Reported /\ job' = [job EXCEPT ![s] = "queued"]
      BY <3>1, JobsAssumption DEF Refresh, Submit, Reported
    <3>3. Calm
      BY <1>0, <3>2 DEF Active, Awaited
    <3>4. QED BY <3>1, <3>3, Zenon DEF Refresh, Steady
  <2>2. CASE \E w \in Write : AskToWrite(w)
    <3>1. /\ UNCHANGED <<job, writing, downloading, overlap>> /\ ~downloading
      BY <2>2, Zenon DEF AskToWrite
    <3>2. QED BY <1>a, <3>1, Zenon DEF Steady
  <2>3. CASE \/ AnswerNo \/ Close \/ ForgetImage
             \/ \E m \in Source : ChooseSource(m)
             \/ \E medium \in Medium : Validate(medium)
    <3>1. /\ UNCHANGED <<job, writing, downloading, overlap>>
          /\ dialog' # None => dialog # None
      BY <2>3, Zenon DEF AnswerNo, Close, ForgetImage, ChooseSource, Validate
    <3>2. QED BY <1>a, <3>1, Zenon DEF Steady
  <2>4. QED BY <1>1, <2>1, <2>2, <2>3, Zenon DEF Operator, Begun
<1>2. CASE Take
  <2>1. job' = [job EXCEPT ![Head(queue)] = "working"]
    BY <1>2 DEF Take
  <2>2. Head(queue) \in Job /\ job[Head(queue)] = "queued"
    BY <1>2, FirstQueued DEF Take
  <2>3. Calm
    BY <1>0, <2>1, <2>2 DEF Active, Awaited
  <2>4. QED BY <1>2, <2>3, Zenon DEF Take, WorkerRest, Steady
<1>3. CASE \E j \in Job : Finish(j)
  <2>1. PICK j \in Job : Finish(j)
    BY <1>3
  <2>2. Ends(j) /\ WorkerRest
    BY <2>1, JobsAssumption DEF Finish, EndWrite, ReportWrite, EndDownload, EndScan, WorkerRest, Ends,
                Queued, Reported
  <2>3. Calm
    BY <1>0, <2>2 DEF Ends, Active, Awaited
  <2>4. QED BY <2>2, <2>3, Zenon DEF WorkerRest, Steady
<1>4. CASE TickBegin \/ Drained \/ RecordFails \/ LookUp \/ Plan \/ Dismiss
  <2>1. UNCHANGED <<job, writing, downloading, overlap, dialog>>
    BY <1>4, Zenon DEF TickBegin, Drained, RecordFails, LookUp, Plan, Dismiss, TickRest
  <2>2. QED BY <1>a, <2>1, Zenon DEF Steady
<1>5. CASE UNCHANGED vars
  BY <1>a, <1>5, Zenon DEF vars, Steady
<1>6. QED
  BY <1>1, <1>2, <1>3, <1>4, <1>5, Zenon DEF Next, TickStep, Finished

LEMMA BegunKeeps ==
    ASSUME Queues, Flags, FlagsInv, Begun
    PROVE  FlagsInv'
<1> DEFINE Started(j) == /\ Active(j)' /\ Awaited(j)'
                         /\ \A k \in Reported \ {j} : /\ Active(k)' => Active(k)
                                                      /\ Awaited(k) => Awaited(k)'
<1>0. job \in [Job -> Stage] /\ Reported \subseteq Job
  BY DEF Queues, Kinds, Reported, Job
<1>1. ASSUME NEW j \in Reported, Submit(j) PROVE Started(j)
  BY <1>0, <1>1 DEF Submit, Active, Awaited
<1>2. CASE AnswerYes
  <2>0. dialog \in Write /\ Submit(dialog) /\ ~downloading
    BY <1>2 DEF AnswerYes, Queues, Kinds, FlagsInv, DownloadsInv
  <2>1. PICK w \in Write : w \in Reported /\ Submit(w) /\ ~downloading
    BY <2>0 DEF Reported
  <2>2. Started(w)
    BY <1>1, <2>1
  <2>3. /\ dialog' = None /\ writing' /\ downloading' = downloading
        /\ ~overlap' => ~overlap /\ ~writing
    BY <1>2, Zenon DEF AnswerYes, FlagRaised
  <2>4. \A d \in Download : ~Active(d) /\ d \in Reported /\ d # w
    BY <2>1, JobsAssumption, Zenon DEF FlagsInv, DownloadsInv, Reported
  <2>5. \A d \in Download : ~Active(d)'
    BY <2>2, <2>4, Zenon
  <2>6. DownloadsInv'
    BY <2>3, <2>5, Zenon DEF DownloadsInv
  <2>7. ~overlap' => \A v \in Write : Active(v)' => v = w
    BY <2>2, <2>3, Zenon DEF FlagsInv, WritesInv, Reported
  <2>8. WritesInv'
    BY <2>3, <2>5, <2>7, Zenon DEF WritesInv
  <2>9. RefusalJustified'
    BY <2>1, <2>2, <2>3, Zenon DEF RefusalJustified
  <2>10. QED BY <2>6, <2>8, <2>9, Zenon DEF FlagsInv
<1>3. ASSUME NEW d \in Download, StartDownload(d) PROVE FlagsInv'
  <2>1. d \in Reported /\ Submit(d) /\ ~downloading /\ ~writing /\ dialog = None
    BY <1>3 DEF StartDownload, WindowInput, Reported
  <2>2. Started(d)
    BY <1>1, <2>1
  <2>3. /\ dialog' = dialog /\ downloading' /\ writing' = writing /\ overlap' = overlap
    BY <1>3, Zenon DEF StartDownload, FlagRaised
  <2>4. \A e \in Download : Active(e)' => e = d
    BY <2>1, <2>2, Zenon DEF FlagsInv, DownloadsInv, Reported
  <2>5. ~overlap => \A w \in Write : ~Active(w) /\ w \in Reported /\ w # d
    BY <2>1, JobsAssumption, Zenon DEF FlagsInv, WritesInv, Reported
  <2>6. DownloadsInv'
    BY <2>1, <2>3, <2>4, Zenon DEF DownloadsInv
  <2>7. WritesInv'
    BY <2>2, <2>3, <2>5, Zenon DEF WritesInv
  <2>8. RefusalJustified'
    BY <2>1, <2>2, <2>3, Zenon DEF RefusalJustified
  <2>9. QED BY <2>6, <2>7, <2>8, Zenon DEF FlagsInv
<1>4. QED BY <1>2, <1>3, Zenon DEF Begun

LEMMA FinishedKeeps ==
    ASSUME Queues, Flags, FlagsInv, Finished
    PROVE  FlagsInv'
<1>0. job \in [Job -> Stage] /\ Reported \subseteq Job
  BY DEF Queues, Kinds, Reported, Job
<1>1. PICK e \in Reported : e = Head(events) /\ Active(e)
  BY FirstEvent DEF Finished, FinishWrite, FinishDownload, Active
<1>2. job' = [job EXCEPT ![e] = "shown"]
  BY <1>1 DEF Finished, FinishWrite, FinishDownload, Show
<1>3. /\ ~Active(e)'
      /\ \A k \in Reported \ {e} : (Active(k)' => Active(k)) /\ (Awaited(k) => Awaited(k)')
  BY <1>0, <1>1, <1>2 DEF Active, Awaited
<1>4. CASE FinishWrite
  <2>1. e \in Write /\ e \notin Download
    BY <1>1, <1>4, JobsAssumption DEF FinishWrite
  <2>2. /\ ~writing' /\ downloading' = downloading /\ dialog' = dialog
        /\ overlap' = overlap
    BY <1>4, Zenon DEF FinishWrite, FlagCleared, TickRest
  <2>3. DownloadsInv'
    BY <1>3, <2>1, <2>2, Zenon DEF FlagsInv, DownloadsInv, Reported
  <2>4. ~overlap => \A w \in Write : ~Active(w)'
    BY <1>1, <1>3, <2>1, Zenon DEF FlagsInv, WritesInv, Reported
  <2>5. WritesInv'
    BY <2>2, <2>4, Zenon DEF WritesInv
  <2>6. RefusalJustified'
    BY <1>3, <2>1, <2>2, Zenon DEF FlagsInv, RefusalJustified, Reported
  <2>7. QED BY <2>3, <2>5, <2>6, Zenon DEF FlagsInv
<1>5. CASE FinishDownload
  <2>1. e \in Download /\ e \notin Write
    BY <1>1, <1>5, JobsAssumption DEF FinishDownload
  <2>2. /\ ~downloading' /\ writing' = writing /\ dialog' = dialog /\ overlap' = overlap
    BY <1>5, Zenon DEF FinishDownload, FlagCleared, TickRest
  <2>3. \A d \in Download : ~Active(d)'
    BY <1>1, <1>3, <2>1, Zenon DEF FlagsInv, DownloadsInv, Reported
  <2>4. DownloadsInv'
    BY <2>2, <2>3, Zenon DEF DownloadsInv
  <2>5. WritesInv'
    BY <1>3, <2>1, <2>2, <2>3, Zenon DEF FlagsInv, WritesInv, Reported
  <2>6. RefusalJustified'
    BY <1>3, <2>1, <2>2, Zenon DEF FlagsInv, RefusalJustified, Reported
  <2>7. QED BY <2>4, <2>5, <2>6, Zenon DEF FlagsInv
<1>6. QED BY <1>4, <1>5, Zenon DEF Finished

-----------------------------------------------------------------------------
(***************************************************************************)
(* The controls that a tick enables.                                       *)
(***************************************************************************)

\* Only the answer to a dialog brings a write under way.
LEMMA NoneBegun ==
    ASSUME Queues, [Next]_vars, ~AnswerYes
    PROVE  \A w \in Write : UnderWay(w)' => UnderWay(w)
<1>0. job \in [Job -> Stage] /\ Write \subseteq Job
  BY DEF Queues, Kinds, Job
<1>1. CASE Begun
  <2>1. PICK d \in Download : d \notin Write /\ job' = [job EXCEPT ![d] = "queued"]
    BY <1>1, JobsAssumption DEF Begun, StartDownload, Submit
  <2>2. QED BY <1>0, <2>1 DEF UnderWay
<1>2. CASE Operator /\ ~Begun
  <2>1. \/ UNCHANGED job
        \/ \E s \in Scan : s \notin Write /\ job' = [job EXCEPT ![s] = "queued"]
    BY <1>2, JobsAssumption
       DEF Operator, Begun, AskToWrite, AnswerNo, ChooseSource, ForgetImage, Validate,
           Refresh, Submit, Close
  <2>2. QED BY <1>0, <2>1 DEF UnderWay
<1>3. CASE Take
  <2>1. /\ Head(queue) \in Job /\ job[Head(queue)] = "queued"
        /\ job' = [job EXCEPT ![Head(queue)] = "working"]
    BY <1>3, FirstQueued DEF Take
  <2>2. QED BY <1>0, <2>1 DEF UnderWay
<1>4. CASE \E j \in Job : Finish(j)
  <2>1. PICK j \in Job, to \in {"reporting", "over", "lost"} :
            job' = [job EXCEPT ![j] = to]
    BY <1>4 DEF Finish, EndWrite, ReportWrite, EndDownload, EndScan
  <2>2. QED BY <1>0, <2>1 DEF UnderWay
<1>5. CASE Finished
  <2>1. job' = [job EXCEPT ![Head(events)] = "shown"]
    BY <1>5 DEF Finished, FinishWrite, FinishDownload, Show
  <2>2. QED BY <1>0, <2>1 DEF UnderWay
<1>6. CASE TickBegin \/ Drained \/ RecordFails \/ LookUp \/ Plan \/ Dismiss \/ UNCHANGED vars
  <2>1. UNCHANGED job
    BY <1>6 DEF TickBegin, Drained, RecordFails, LookUp, Plan, Dismiss, vars
  <2>2. QED BY <2>1 DEF UnderWay
<1>7. QED
  BY <1>1, <1>2, <1>3, <1>4, <1>5, <1>6 DEF Next, TickStep, Finished

LEMMA ControlsStep ==
    ASSUME Queues, ControlsInv, [Next]_vars
    PROVE  ControlsInv'
<1> DEFINE Fewer == \A w \in Write : UnderWay(w)' => UnderWay(w)
<1>0. Fewer \/ AnswerYes
  BY NoneBegun
<1>1. CASE Begun
  BY <1>1 DEF Begun, AnswerYes, StartDownload, ControlsInv
<1>2. ASSUME Fewer, UNCHANGED <<redrawn, tick, writing, stranded>> PROVE ControlsInv'
  BY <1>2 DEF ControlsInv
<1>3. CASE Operator /\ ~Begun
  <2>1. UNCHANGED <<redrawn, tick, writing, stranded>> /\ ~AnswerYes
    BY <1>3 DEF Operator, Begun, AskToWrite, AnswerNo, ChooseSource, ForgetImage, Validate,
                Refresh, Close
  <2>2. QED BY <1>0, <1>2, <2>1
<1>4. CASE Take \/ (\E j \in Job : Finish(j)) \/ UNCHANGED vars
  <2>1. UNCHANGED <<redrawn, tick, writing, stranded, dialog>>
    BY <1>4 DEF Take, Finish, EndWrite, ReportWrite, EndDownload, EndScan, WorkerRest, vars
  <2>2. ~AnswerYes
    BY <2>1, JobsAssumption DEF AnswerYes, Queues, Kinds, Job
  <2>3. QED BY <1>0, <1>2, <2>1, <2>2
<1>5. CASE TickBegin \/ FinishWrite \/ Finished \/ Drained \/ Dismiss
  <2>1. tick' \notin {"waiting", "dead"}
    BY <1>5 DEF TickBegin, FinishWrite, Finished, FinishDownload, Drained, Dismiss
  <2>2. QED BY <2>1 DEF ControlsInv
<1>6. CASE RecordFails \/ LookUp \/ Plan
  <2>1. UNCHANGED <<job, writing>>
    BY <1>6 DEF RecordFails, LookUp, Plan
  <2>2. \/ tick' = "waiting" /\ redrawn' = Relocked
        \/ tick' = "dead" /\ stranded' = {w \in Write : UnderWay(w)}
        \/ tick' \notin {"waiting", "dead"}
    BY <1>6 DEF RecordFails, LookUp, Plan, Dies
  <2>3. QED BY <2>1, <2>2 DEF ControlsInv, Relocked, UnderWay
<1>7. QED
  BY <1>1, <1>3, <1>4, <1>5, <1>6 DEF Next, TickStep, Finished

-----------------------------------------------------------------------------
LEMMA SessionInit == ASSUME Init PROVE SessionInv
<1>1. Queues
  BY DEF Init, Queues, Kinds, Waits, Stage, Tick, Reported
<1>2. Flags
  BY Zenon DEF Init, Flags
<1>2a. Sources /\ ControlsInv
  BY DEF Init, Sources, Source, ControlsInv
<1>3. \A j \in Job : ~Active(j)
  BY DEF Init, Active
<1>4. ~writing /\ ~downloading
  BY Zenon DEF Init
<1>5. DownloadsInv /\ WritesInv /\ RefusalJustified
  BY <1>3, <1>4, Zenon DEF DownloadsInv, WritesInv, RefusalJustified, Job
<1>6. QED BY <1>1, <1>2, <1>2a, <1>5, Zenon DEF SessionInv

LEMMA SessionStep == ASSUME SessionInv, [Next]_vars PROVE SessionInv'
<1> USE DEF SessionInv
<1>1. Queues' /\ Flags' /\ Sources' /\ ControlsInv'
  <2>1. Kinds'
    BY QueuesStep, KindsStep DEF Queues, Kinds
  <2>2. Queues'
    BY <2>1, QueuesStep DEF Queues
  <2>3. QED BY <2>2, FlagsStep, SourcesStep, ControlsStep, Zenon
<1>2. FlagsInv
  BY Zenon DEF FlagsInv
<1>3. FlagsInv'
  BY <1>2, SteadyStep, SteadyKeeps, BegunKeeps, FinishedKeeps, Zenon
<1>4. QED BY <1>1, <1>3, Zenon DEF FlagsInv

(* The flags, the jobs and the queues between the threads agree as the     *)
(* window assumes: what the callbacks of app.py clear is what is finished. *)
THEOREM SessionInvariant == Spec => []SessionInv
<1>1. QED BY SessionInit, SessionStep, PTL DEF Spec

\* A sequence whose members are all in a set is a sequence over the set.
LEMMA SeqOver ==
    ASSUME NEW S, NEW T, NEW s \in Seq(S), \A i \in 1..Len(s) : s[i] \in T
    PROVE  s \in Seq(T)
OBVIOUS

(* The queue of the pool holds confirmed jobs, _ui_events ended ones.      *)
THEOREM SessionTypeCorrect == Spec => []TypeOK
<1>1. ASSUME SessionInv PROVE TypeOK
  <2> USE <1>1 DEF SessionInv
  <2>1. queue \in Seq({j \in Job : job[j] = "queued"})
    <3>1. queue \in Seq(Job) /\ \A i \in 1..Len(queue) : queue[i] \in {j \in Job : job[j] = "queued"}
      BY DEF Queues, Kinds, Waits
    <3>2. QED BY <3>1, SeqOver
  <2>2. events \in Seq({j \in Write \cup Download : job[j] = "over"})
    <3>1. /\ events \in Seq(Reported)
          /\ \A i \in 1..Len(events) : events[i] \in {j \in Write \cup Download : job[j] = "over"}
      BY DEF Queues, Kinds, Waits, Reported
    <3>2. QED BY <3>1, SeqOver
  <2>3. job \in [Job -> Stage] /\ tick \in Tick /\ dialog \in Write \cup {None}
    BY DEF Queues, Kinds
  <2>4. /\ Sources
        /\ {verified, writing, downloading, redrawn, listed, open, overlap} \subseteq BOOLEAN
    BY Zenon DEF Flags
  <2>5. QED BY <2>1, <2>2, <2>3, <2>4, Zenon DEF TypeOK, Sources
<1>2. QED BY <1>1, SessionInvariant, PTL

(* No download is under way beside a write, unless a write was confirmed   *)
(* before another was finished.                                            *)
THEOREM SessionExclusive == Spec => []Exclusive
<1>1. ASSUME SessionInv PROVE Exclusive
  <2>1. \A j \in Job : UnderWay(j) => Active(j)
    BY DEF UnderWay, Active
  <2>2. QED BY <1>1, <2>1, Zenon DEF SessionInv, WritesInv, Exclusive, Job
<1>2. QED BY <1>1, SessionInvariant, PTL

(* A window that refuses to close has a job whose result is not shown.     *)
THEOREM RefusalsHaveCause == Spec => []RefusalJustified
<1>1. QED BY SessionInvariant, PTL DEF SessionInv

(* What the worker reads of the source stays as the dialog showed it from  *)
(* the question to the end of the write, unless a second write was         *)
(* confirmed before; under the writes that were under way when a tick      *)
(* died, whose controls that tick had enabled, it becomes the running      *)
(* system or a validated medium at the most, or the record of its          *)
(* verification is forgotten.                                              *)
THEOREM SessionKeepsSettings == Spec => SettingsKept
<1> DEFINE Chosen == \E m \in Source : ChooseSource(m)
           Validated == \E medium \in Medium : Validate(medium)
           Started == \E d \in Download : StartDownload(d)
           Allowed == \/ mode' \in {"RUNNING", "ATTACHED"} /\ UNCHANGED verified
                      \/ ~verified' /\ UNCHANGED <<mode, attached>>
<1>1. ASSUME SessionInv, [Next]_vars, settings' # settings
      PROVE  \/ overlap
             \/ dialog = None /\ \A w \in Write : UnderWay(w) => w \in stranded /\ Allowed
  <2>1. \A w \in Write : UnderWay(w) => Active(w)
    BY DEF UnderWay, Active
  <2>2. Chosen \/ Validated \/ ForgetImage \/ Started \/ FinishDownload
    <3>1. CASE Operator
      BY <1>1, <3>1, Zenon DEF Operator, AskToWrite, AnswerYes, AnswerNo, Refresh, Close
    <3>2. CASE Take \/ \E j \in Job : Finish(j)
      BY <1>1, <3>2, Zenon DEF Take, Finish, EndWrite, ReportWrite, EndDownload, EndScan,
                               WorkerRest
    <3>3. CASE TickStep \/ Dismiss
      BY <1>1, <3>3, Zenon DEF TickStep, TickBegin, FinishWrite, Drained, RecordFails,
                               LookUp, Plan, Dismiss, TickRest
    <3>4. CASE UNCHANGED vars
      BY <1>1, <3>4, Zenon DEF vars
    <3>5. QED BY <1>1, <3>1, <3>2, <3>3, <3>4, Zenon DEF Next
  <2>3. CASE Chosen \/ Validated \/ ForgetImage \/ Started
    <3>1. dialog = None /\ tick \in {"waiting", "dead"}
      BY <2>3 DEF ChooseSource, Validate, ForgetImage, StartDownload, WindowInput, Idle
    <3>2. ~writing \/ (redrawn /\ Allowed)
      BY <2>3 DEF ChooseSource, Validate, ForgetImage, StartDownload
    <3>3. CASE ~writing
      BY <1>1, <2>1, <3>1, <3>3, Zenon DEF SessionInv, WritesInv
    <3>4. CASE writing
      BY <1>1, <3>1, <3>2, <3>4 DEF SessionInv, ControlsInv
    <3>5. QED BY <3>3, <3>4, Zenon
  <2>4. CASE FinishDownload
    <3>1. PICK d \in Download : Active(d)
      BY <1>1, <2>4, FirstEvent DEF SessionInv, FinishDownload, Active
    <3>2. QED BY <1>1, <2>1, <3>1, Zenon DEF SessionInv, WritesInv, DownloadsInv
  <2>5. QED BY <2>2, <2>3, <2>4, Zenon
<1>2. SessionInv /\ [Next]_vars
      => [settings' # settings =>
             \/ overlap
             \/ /\ dialog = None
                /\ \A w \in Write : UnderWay(w) =>
                      /\ w \in stranded
                      /\ \/ mode' \in {"RUNNING", "ATTACHED"} /\ UNCHANGED verified
                         \/ ~verified' /\ UNCHANGED <<mode, attached>>]_vars
  BY <1>1, Zenon
<1>3. QED BY <1>2, SessionInvariant, PTL DEF Spec, SettingsKept

-----------------------------------------------------------------------------
(***************************************************************************)
(* Between the threads nothing is dropped: a job that awaits a worker or a *)
(* result that awaits the UI thread is in the queue that serves it.        *)
(***************************************************************************)

LEMMA FoundAppended ==
    ASSUME NEW S, NEW s \in Seq(S), NEW e \in S
    PROVE  Found(e, Append(s, e)) /\ \A j : Found(j, s) => Found(j, Append(s, e))
<1>1. Len(s) \in Nat
  OBVIOUS
<1>2. QED BY <1>1, AppendFacts DEF Found

\* Only the first leaves.
LEMMA FoundBehind ==
    ASSUME NEW S, NEW s \in Seq(S), s # <<>>, NEW j, Found(j, s), j # Head(s)
    PROVE  Found(j, Tail(s))
<1>1. PICK i \in 1..Len(s) : s[i] = j
  BY DEF Found
<1>2. /\ Len(Tail(s)) = Len(s) - 1 /\ Len(s) \in Nat /\ Head(s) = s[1]
      /\ \A k \in 1..Len(Tail(s)) : Tail(s)[k] = s[k + 1]
  BY TailFacts
<1>3. i - 1 \in 1..Len(Tail(s)) /\ Tail(s)[i - 1] = s[i]
  BY <1>1, <1>2
<1>4. QED BY <1>1, <1>3 DEF Found

LEMMA DroppedStep ==
    ASSUME Queues, NothingDropped, [Next]_vars
    PROVE  NothingDropped'
<1>0. /\ Reported \subseteq Job /\ job \in [Job -> Stage]
      /\ queue \in Seq(Job) /\ events \in Seq(Reported)
  BY DEF Queues, Kinds, Reported, Job
<1>1. CASE Rests
  BY <1>1 DEF Rests, NothingDropped, Found
<1>2. ASSUME NEW j \in Job, Joins(j) PROVE NothingDropped'
  <2>1. job' = [job EXCEPT ![j] = "queued"] /\ queue' = Append(queue, j) /\ events' = events
    BY <1>2 DEF Joins, Submit
  <2>2. \A k \in Job : job'[k] = "queued" => Found(k, queue)'
    BY <1>0, <2>1, FoundAppended DEF NothingDropped, Found
  <2>3. \A k \in Reported : job'[k] = "over" => Found(k, events)'
    BY <1>0, <2>1 DEF NothingDropped, Found
  <2>4. QED BY <2>2, <2>3 DEF NothingDropped
<1>3. CASE Taken
  <2>1. /\ Head(queue) \in Job /\ job' = [job EXCEPT ![Head(queue)] = "working"]
        /\ queue # <<>> /\ queue' = Tail(queue) /\ events' = events
    BY <1>3, FirstQueued DEF Taken
  <2>2. \A k \in Job : job'[k] = "queued" => Found(k, Tail(queue))
    BY <1>0, <2>1, FoundBehind DEF NothingDropped
  <2>3. \A k \in Reported : job'[k] = "over" => Found(k, events)
    BY <1>0, <2>1 DEF NothingDropped
  <2>4. QED BY <2>1, <2>2, <2>3 DEF NothingDropped, Found
<1>4. ASSUME NEW j \in Job, Ends(j) PROVE NothingDropped'
  <2>1. PICK to \in {"reporting", "over", "lost"} :
            /\ job' = [job EXCEPT ![j] = to]
            /\ \/ ~(to = "over" /\ j \in Reported) /\ UNCHANGED events
               \/ to = "over" /\ j \in Reported /\ events' = Append(events, j)
    BY <1>4 DEF Ends
  <2>2. queue' = queue
    BY <1>4 DEF Ends
  <2>3. \A k \in Job : job'[k] = "queued" => Found(k, queue)
    BY <1>0, <2>1 DEF NothingDropped
  <2>4. \A k \in Reported : job'[k] = "over" => Found(k, events)'
    <3>1. CASE ~(to = "over" /\ j \in Reported) /\ UNCHANGED events
      BY <1>0, <2>1, <3>1 DEF NothingDropped, Found
    <3>2. CASE j \in Reported /\ events' = Append(events, j)
      <4>1. ASSUME NEW k \in Reported, job'[k] = "over" PROVE Found(k, Append(events, j))
        <5>1. CASE k = j
          BY <1>0, <3>2, <5>1, FoundAppended
        <5>2. CASE k # j
          <6>1. Found(k, events)
            BY <1>0, <2>1, <4>1, <5>2 DEF NothingDropped
          <6>2. QED BY <1>0, <3>2, <6>1, FoundAppended
        <5>3. QED BY <5>1, <5>2
      <4>2. QED BY <3>2, <4>1 DEF Found
    <3>3. QED BY <2>1, <3>1, <3>2
  <2>5. QED BY <2>2, <2>3, <2>4 DEF NothingDropped, Found
<1>5. CASE Shows
  <2>1. /\ Head(events) \in Reported /\ job' = [job EXCEPT ![Head(events)] = "shown"]
        /\ events # <<>> /\ events' = Tail(events) /\ queue' = queue
    BY <1>5, FirstEvent DEF Shows
  <2>2. \A k \in Reported : job'[k] = "over" => Found(k, Tail(events))
    BY <1>0, <2>1, FoundBehind DEF NothingDropped
  <2>3. \A k \in Job : job'[k] = "queued" => Found(k, queue)
    BY <1>0, <2>1 DEF NothingDropped
  <2>4. QED BY <2>1, <2>2, <2>3 DEF NothingDropped, Found
<1>6. QED BY <1>1, <1>2, <1>3, <1>4, <1>5, Moves DEF Queues

(* A confirmed job waits for a worker, and an ended write or download for  *)
(* the UI thread, in the queue that serves it and once, until it is taken: *)
(* the handlers of app.py neither drop nor double a result, and one that   *)
(* is never shown was lost in its worker or is still waiting.              *)
THEOREM NoResultDropped ==
    Spec => [](NothingDropped /\ Waits(queue, "queued") /\ Waits(events, "over"))
<1>1. Init => NothingDropped
  BY DEF Init, NothingDropped, Reported, Job
<1>2. NothingDropped /\ SessionInv /\ [Next]_vars => NothingDropped'
  BY DroppedStep DEF SessionInv
<1>3. SessionInv => Waits(queue, "queued") /\ Waits(events, "over")
  BY DEF SessionInv, Queues
<1>4. QED BY <1>1, <1>2, <1>3, SessionInvariant, PTL DEF Spec
=============================================================================
