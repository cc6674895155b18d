----------------------- MODULE PipelineStreamsProofs -----------------------
(***************************************************************************)
(* What is proved of the log streams: StreamDeliversWholeLog and           *)
(* DoneStatusIsFinal of PipelineRuns, for any number of streams and runs.  *)
(* Neither is inductive: that a stream ends with the whole log rests on    *)
(* what the row and the log of a run may do between two reads of it.       *)
(***************************************************************************)
EXTENDS PipelineRunsProofs

\* A run that was never created has no log.
NoRunNoLog == \A r \in Runs : rStatus[r] = "absent" => logs[r] = << >>

(***************************************************************************)
(* A step of the system, as a stream on run r sees it: a final status      *)
(* stays until the run is deleted, a log only grows until then, and it     *)
(* does not grow once the status is final.                                 *)
(***************************************************************************)
GrowsUntilFinal(r) ==
    /\ rStatus[r] = "deleted" => rStatus'[r] = "deleted"
    /\ rStatus[r] \in Finals => rStatus'[r] \in {rStatus[r], "deleted"}
    /\ rStatus'[r] # "deleted" => Len(logs'[r]) >= Len(logs[r])
    /\ rStatus[r] \in Finals /\ rStatus'[r] # "deleted" => logs'[r] = logs[r]

\* What a stream has sent and read, where it is.
StreamTells(s) ==
    LET r == streams[s].run
    IN  /\ Open(s) /\ rStatus[r] # "deleted" => streams[s].sent <= Len(logs[r])
        /\ streams[s].pc \in {"draining", "ended"} /\ streams[s].status \in Finals
              => rStatus[r] \in {streams[s].status, "deleted"}
        /\ streams[s].pc = "ended" =>
              /\ streams[s].status \in Finals
              /\ ~ streams[s].lossy /\ rStatus[r] # "deleted" => streams[s].sent = Len(logs[r])

StreamsTell == NoRunNoLog /\ \A s \in Streams : StreamTells(s)

-----------------------------------------------------------------------------
\* Appending the line of a step makes the log longer.
LEMMA RecordGrows ==
    ASSUME TypeOK, StepsInBounds, NEW r \in Runs, RecordStep(r)
    PROVE  /\ rStatus' = rStatus
           /\ streams' = streams
           /\ \A q \in Runs : q # r => logs'[q] = logs[q]
           /\ Len(logs'[r]) >= Len(logs[r])
           /\ ~ RunExists(r) => logs'[r] = logs[r]
<1> DEFINE last == results[r][Len(results[r])]
<1>1. last \in StepResults
  BY LenProperties, ElementOfSeq DEF RecordStep, TypeOK, StepsInBounds
<1>2. logs[r] \in Seq(StepResults) /\ Len(logs[r]) \in Nat
  BY LenProperties DEF TypeOK
<1> HIDE DEF last
<1>3. \/ logs' = logs
      \/ RunExists(r) /\ logs' = [logs EXCEPT ![r] = Append(logs[r], last)]
  BY DEF RecordStep, last
<1>4. Len(Append(logs[r], last)) >= Len(logs[r])
  BY <1>1, <1>2, AppendProperties
<1>5. rStatus' = rStatus /\ streams' = streams
  BY DEF RecordStep
<1>6. QED
  BY <1>2, <1>3, <1>4, <1>5 DEF TypeOK

LEMMA TablesGrow ==
    ASSUME TypeOK, StepsInBounds, RowsFollowExecutors, NoRunNoLog, [Next]_vars
    PROVE  NoRunNoLog' /\ \A r \in Runs : GrowsUntilFinal(r)
<1>1. \A r \in Runs : Len(logs[r]) \in Nat
  BY LenProperties DEF TypeOK
<1>2. ASSUME UNCHANGED <<rStatus, logs>>
      PROVE  NoRunNoLog' /\ \A r \in Runs : GrowsUntilFinal(r)
  BY <1>1, <1>2 DEF NoRunNoLog, GrowsUntilFinal
<1>3. ASSUME NEW p \in Pipelines, DeletePipeline(p)
      PROVE  NoRunNoLog' /\ \A r \in Runs : GrowsUntilFinal(r)
  <2>1. \A r \in Runs : /\ rStatus'[r] \in {rStatus[r], "deleted"}
                        /\ logs'[r] \in {logs[r], << >>}
                        /\ logs'[r] # logs[r] /\ rStatus[r] # "absent" => rStatus'[r] = "deleted"
    BY <1>3 DEF DeletePipeline, RunExists, TypeOK
  <2>2. QED
    BY <1>1, <2>1 DEF NoRunNoLog, GrowsUntilFinal, Finals
<1>4. ASSUME NEW q \in Runs, CreateRun(q)
      PROVE  NoRunNoLog' /\ \A r \in Runs : GrowsUntilFinal(r)
  <2>1. rStatus[q] = "absent" /\ logs' = logs
    BY <1>4 DEF CreateRun, InsertRun, RowsFollowExecutors, RowFollowsExecutor
  <2>2. \A r \in Runs : rStatus'[r] = rStatus[r] \/ (r = q /\ rStatus'[r] = "running")
    BY <1>4 DEF CreateRun, InsertRun, TypeOK
  <2>3. QED
    BY <1>1, <2>1, <2>2 DEF NoRunNoLog, GrowsUntilFinal, Finals
<1>5. ASSUME NEW q \in Runs, PersistRun(q)
      PROVE  NoRunNoLog' /\ \A r \in Runs : GrowsUntilFinal(r)
  <2>1. rStatus[q] \in {"running", "deleted"} /\ logs' = logs
    BY <1>5 DEF PersistRun, RowsFollowExecutors, RowFollowsExecutor, Owing
  <2>2. \A r \in Runs : \/ rStatus'[r] = rStatus[r]
                        \/ r = q /\ rStatus[r] = "running" /\ rStatus'[r] \in Finals
    BY <1>5, <2>1 DEF PersistRun, RunExists, TypeOK
  <2>3. QED
    BY <1>1, <2>1, <2>2 DEF NoRunNoLog, GrowsUntilFinal, Finals
<1>6. ASSUME NEW q \in Runs, RecordStep(q)
      PROVE  NoRunNoLog' /\ \A r \in Runs : GrowsUntilFinal(r)
  <2>1. rStatus[q] \in {"running", "deleted"}
    BY <1>6 DEF RecordStep, RowsFollowExecutors, RowFollowsExecutor, Owing
  <2>2. QED
    BY <1>1, <1>6, <2>1, RecordGrows DEF NoRunNoLog, GrowsUntilFinal, Finals
<1>7. QED
  BY <1>2, <1>3, <1>4, <1>5, <1>6
     DEF Next, ExecutorStep, Progress, Tick, CreatePipeline, UpdatePipeline, LoadPipeline,
         MarkPipelineRunning, CloneSucceeds, SetupFails, StartStep, StepNotStarted,
         StepTimesOut, StepExits, StepWaitFails, StepEnds, AllStepsDone, PublishPipeline,
         PublishIf, Cleanup, RunTimeout, OpenStream, PollStatus, ReadStatus, SendLines,
         SendAndEndOn, Disconnect, Crash, vars, tables

\* A stream that does not move keeps what it tells.
LEMMA StillTells ==
    ASSUME TypeOK, TypeOK', NEW s \in Streams, StreamTells(s), GrowsUntilFinal(streams[s].run),
           streams'[s].pc = streams[s].pc, streams'[s].run = streams[s].run,
           streams'[s].status = streams[s].status, streams'[s].sent = streams[s].sent,
           streams'[s].lossy = streams[s].lossy
    PROVE  StreamTells(s)'
<1>1. /\ streams[s].run \in Runs
      /\ streams[s].sent \in Nat
      /\ Len(logs[streams[s].run]) \in Nat
      /\ Len(logs'[streams[s].run]) \in Nat
  BY LenProperties DEF TypeOK, StreamStates
<1>2. QED
  BY <1>1 DEF StreamTells, GrowsUntilFinal, Open, Finals

\* The second read of a tick: all lines there are, unless it fails.
LEMMA SendTells ==
    ASSUME TypeOK, NEW s \in Streams, StreamTells(s), SendLines(s)
    PROVE  StreamTells(s)'
<1> DEFINE r == streams[s].run
           len == Len(logs[r])
           new == (streams[s].sent + 1) .. len
<1>1. /\ r \in Runs
      /\ streams[s] \in StreamStates
      /\ streams[s].sent \in Nat
      /\ len \in Nat
  BY LenProperties DEF TypeOK, StreamStates
<1>2. PICK ok \in BOOLEAN, upTo \in new \cup {streams[s].sent} :
          /\ ok => \A k \in new : k <= upTo
          /\ streams' = [streams EXCEPT ![s] =
                           [streams[s] EXCEPT !.sent = upTo,
                                              !.lossy = ~ ok,
                                              !.pc = IF streams[s].status \in Finals
                                                     THEN "ended" ELSE "polling"]]
  BY Zenon DEF SendLines, SendAndEndOn
<1>3. /\ streams[s].pc = "draining"
      /\ UNCHANGED <<rStatus, logs>>
  BY DEF SendLines, SendAndEndOn, tables
<1>4. /\ streams'[s].run = r
      /\ streams'[s].status = streams[s].status
      /\ streams'[s].sent = upTo
      /\ streams'[s].lossy = ~ ok
      /\ streams'[s].pc = IF streams[s].status \in Finals THEN "ended" ELSE "polling"
  BY <1>1, <1>2 DEF TypeOK, StreamStates
<1>5. rStatus[r] # "deleted" => upTo <= len /\ (ok => upTo = len)
  <2> SUFFICES ASSUME rStatus[r] # "deleted" PROVE upTo <= len /\ (ok => upTo = len)
    OBVIOUS
  <2>1. streams[s].sent <= len
    BY <1>3 DEF StreamTells, Open
  <2>2. CASE streams[s].sent = len
    <3>1. upTo = len
      BY <1>1, <1>2, <2>2
    <3>2. QED
      BY <1>1, <3>1
  <2>3. CASE streams[s].sent < len
    <3>1. len \in new /\ upTo <= len
      BY <1>1, <1>2, <2>3
    <3>2. ok => len <= upTo
      BY <1>2, <3>1
    <3>3. upTo \in Nat
      BY <1>1, <1>2
    <3>4. QED
      BY <1>1, <3>1, <3>2, <3>3
  <2>4. QED
    BY <1>1, <2>1, <2>2, <2>3
<1>6. streams[s].status \in Finals => rStatus[r] \in {streams[s].status, "deleted"}
  BY <1>3 DEF StreamTells
<1> HIDE DEF new
<1>7. QED
  BY <1>3, <1>4, <1>5, <1>6 DEF StreamTells, Open

LEMMA StreamsStep ==
    ASSUME TypeOK, TypeOK', StepsInBounds, RowsFollowExecutors, StreamsTell, [Next]_vars
    PROVE  StreamsTell'
<1>1. NoRunNoLog' /\ \A r \in Runs : GrowsUntilFinal(r)
  BY TablesGrow DEF StreamsTell
<1> SUFFICES ASSUME NEW s \in Streams PROVE StreamTells(s)'
  BY <1>1 DEF StreamsTell
<1>2. StreamTells(s) /\ streams[s] \in StreamStates /\ streams[s].run \in Runs
  BY DEF StreamsTell, TypeOK, StreamStates
<1>3. GrowsUntilFinal(streams[s].run)
  BY <1>1, <1>2
<1>4. ASSUME streams'[s] = streams[s]
      PROVE  StreamTells(s)'
  BY <1>2, <1>3, <1>4, StillTells
<1>5. ASSUME NEW t \in Streams, SendLines(t)
      PROVE  StreamTells(s)'
  <2>1. CASE t = s
    BY <1>2, <1>5, <2>1, SendTells
  <2>2. CASE t # s
    <3>1. streams'[s] = streams[s]
      BY <1>5, <2>2 DEF SendLines, SendAndEndOn, TypeOK
    <3>2. QED
      BY <1>4, <3>1
  <2>3. QED
    BY <2>1, <2>2
<1>6. ASSUME NEW t \in Streams, PollStatus(t)
      PROVE  StreamTells(s)'
  <2>1. CASE t = s
    <3>1. PICK status : /\ status = "absent" \/ status = rStatus[streams[s].run]
                        /\ streams' = [streams EXCEPT ![s] =
                              [streams[s] EXCEPT !.status = status, !.pc = "draining"]]
      BY <1>6, <2>1, Zenon DEF PollStatus, ReadStatus
    <3>2. /\ streams[s].pc = "polling"
          /\ UNCHANGED <<rStatus, logs>>
      BY <1>6, <2>1 DEF PollStatus, ReadStatus, tables
    <3>3. /\ streams'[s].run = streams[s].run
          /\ streams'[s].status = status
          /\ streams'[s].sent = streams[s].sent
          /\ streams'[s].pc = "draining"
      BY <1>2, <3>1 DEF TypeOK, StreamStates
    <3>4. QED
      BY <1>2, <3>1, <3>2, <3>3 DEF StreamTells, Open, Finals
  <2>2. CASE t # s
    <3>1. streams'[s] = streams[s]
      BY <1>6, <2>2 DEF PollStatus, ReadStatus, TypeOK
    <3>2. QED
      BY <1>4, <3>1
  <2>3. QED
    BY <2>1, <2>2
<1>7. ASSUME NEW t \in Streams, NEW q \in Runs, OpenStream(t, q)
      PROVE  StreamTells(s)'
  <2>1. CASE t = s
    <3>1. streams'[s] = NewStream(q) /\ UNCHANGED <<rStatus, logs>>
      BY <1>7, <2>1 DEF OpenStream, TypeOK, tables
    <3>2. Len(logs[q]) \in Nat
      BY LenProperties DEF TypeOK
    <3>3. QED
      BY <3>1, <3>2 DEF NewStream, StreamTells, Open
  <2>2. CASE t # s
    BY <1>4, <1>7, <2>2 DEF OpenStream, TypeOK
  <2>3. QED
    BY <2>1, <2>2
<1>8. ASSUME NEW t \in Streams, Disconnect(t)
      PROVE  StreamTells(s)'
  <2>1. /\ streams'[s].pc = streams[s].pc
        /\ streams'[s].run = streams[s].run
        /\ streams'[s].status = streams[s].status
        /\ streams'[s].sent = streams[s].sent
        /\ streams'[s].lossy = streams[s].lossy
    BY <1>2, <1>8 DEF Disconnect, TypeOK, StreamStates
  <2>2. QED
    BY <1>2, <1>3, <2>1, StillTells
<1>9. CASE Crash
  <2>1. \/ streams'[s] = streams[s]
        \/ Open(s) /\ streams'[s] = [streams[s] EXCEPT !.pc = "closed"]
    BY <1>9, Zenon DEF Crash
  <2>2. CASE streams'[s] = [streams[s] EXCEPT !.pc = "closed"]
    <3>1. streams'[s].pc = "closed"
      BY <1>2, <2>2 DEF StreamStates
    <3>2. QED
      BY <3>1 DEF StreamTells, Open
  <2>3. QED
    BY <1>4, <2>1, <2>2
<1>10. ASSUME UNCHANGED streams
       PROVE  StreamTells(s)'
  BY <1>4, <1>10
<1>11. QED
  BY <1>5, <1>6, <1>7, <1>8, <1>9, <1>10
     DEF Next, ExecutorStep, Progress, Tick, CreatePipeline, UpdatePipeline, DeletePipeline,
         LoadPipeline, CreateRun, InsertRun, MarkPipelineRunning, CloneSucceeds, SetupFails,
         StartStep, StepNotStarted, StepTimesOut, StepExits, StepWaitFails, StepEnds,
         RecordStep, AllStepsDone, PersistRun, PublishPipeline, PublishIf, Cleanup,
         RunTimeout, vars

\* The inductive invariant holds in every state (handler/pipeline.go:183-224).
THEOREM StreamsTold == Spec => []StreamsTell
<1>1. Init => RowsFollowExecutors /\ StreamsTell
  BY DEF Init, RowsFollowExecutors, RowFollowsExecutor, Owing, Finals, StreamsTell,
         NoRunNoLog, StreamTells, Open, NewStream
<1>2. /\ TypeOK /\ StepsInBounds /\ TypeOK'
      /\ RowsFollowExecutors /\ StreamsTell
      /\ [Next]_vars
      => (RowsFollowExecutors /\ StreamsTell)'
  BY RowsStep, StreamsStep
<1>3. QED
  BY <1>1, <1>2, Typing, PTL DEF Spec

-----------------------------------------------------------------------------
(***************************************************************************)
(* A stream ends with the whole log, for any number of streams on any      *)
(* runs, and however the reads of a tick fall between the writes of the    *)
(* executor (handler/pipeline.go:199, pipeline_service.go:114).            *)
(***************************************************************************)
THEOREM WholeLogDelivered == Spec => []StreamDeliversWholeLog
<1>1. StreamsTell => StreamDeliversWholeLog
  BY DEF StreamsTell, StreamTells, StreamDeliversWholeLog, RunExists
<1>2. QED
  BY <1>1, StreamsTold, PTL

\* And with the status the run keeps (handler/pipeline.go:219).
THEOREM DoneIsFinal == Spec => []DoneStatusIsFinal
<1>1. StreamsTell => DoneStatusIsFinal
  BY DEF StreamsTell, StreamTells, DoneStatusIsFinal
<1>2. QED
  BY <1>1, StreamsTold, PTL
=============================================================================
