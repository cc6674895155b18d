------------------------- MODULE PipelineRunsProofs -------------------------
(***************************************************************************)
(* Proofs about PipelineRuns, for any sets of pipelines, runs, streams and *)
(* step lists and any number of failing statements.                        *)
(***************************************************************************)
EXTENDS PipelineRuns, SequenceTheorems, TLAPS

-----------------------------------------------------------------------------
(***************************************************************************)
(* An executor that waits for a container has a step left to record, and   *)
(* one that logs has just recorded one: NextStep and the last result are   *)
(* never read past the end of their sequence.                              *)
(***************************************************************************)
StepsInBounds ==
    \A r \in Runs :
        /\ pc[r] = "waiting" => MoreSteps(r)
        /\ pc[r] = "logging" => Len(results[r]) \in 1..Len(order[r])

\* A function on 1..n is a sequence of length n.
LEMMA FunctionIsSequence ==
    ASSUME NEW S, NEW n \in Nat, NEW f \in [1..n -> S]
    PROVE  /\ f \in Seq(S)
           /\ Len(f) = n
           /\ DOMAIN f = 1..n
<1>1. f \in Seq(S)
  BY SeqDef
<1>2. DOMAIN f = 1..n
  OBVIOUS
<1>3. /\ Len(f) \in Nat
      /\ DOMAIN f = 1..Len(f)
  BY <1>1, LenProperties
<1>4. Len(f) = n
  <2>1. \A i \in Nat : i \in 1..n <=> i \in 1..Len(f)
    BY <1>2, <1>3
  <2>2. CASE Len(f) < n
    <3>1. n \in 1..n /\ n \notin 1..Len(f)
      BY <1>3, <2>2
    <3>2. QED
      BY <2>1, <3>1
  <2>3. CASE Len(f) > n
    <3>1. Len(f) \in 1..Len(f) /\ Len(f) \notin 1..n
      BY <1>3, <2>3
    <3>2. QED
      BY <1>3, <2>1, <3>1
  <2>4. QED
    BY <1>3, <2>2, <2>3
<1>5. QED
  BY <1>1, <1>2, <1>4

\* An execution order of a step list is a sequence of positions, as long as the list.
LEMMA OrderIsSequence ==
    ASSUME NEW list \in StepLists, NEW o \in ExecutionOrders(list)
    PROVE  /\ o \in Seq(Nat)
           /\ Len(o) = Len(list)
           /\ DOMAIN o = DOMAIN list
<1>1. list \in Seq([name : StepNames, dependsOn : Seq(StepNames)])
  BY StepListsAssumption DEF StepsOver
<1>2. /\ Len(list) \in Nat
      /\ DOMAIN list = 1..Len(list)
  BY <1>1, LenProperties
<1>3. o \in [1..Len(list) -> 1..Len(list)]
  BY <1>2 DEF ExecutionOrders
<1>4. o \in [1..Len(list) -> Nat]
  BY <1>2, <1>3
<1>5. QED
  BY <1>2, <1>4, FunctionIsSequence

\* The skipped results complete the list of results to one per step.
LEMMA SkippedCompletes ==
    ASSUME NEW r \in Runs, TypeOK, Len(results[r]) \in 1..Len(order[r])
    PROVE  /\ Skipped(r) \in Seq(StepResults)
           /\ Len(Skipped(r)) = Len(order[r]) - Len(results[r])
           /\ DOMAIN Skipped(r) = 1..(Len(order[r]) - Len(results[r]))
<1> DEFINE n == Len(order[r]) - Len(results[r])
<1>1. /\ order[r] \in Seq(Nat)
      /\ results[r] \in Seq(StepResults)
  BY DEF TypeOK
<1>2. /\ Len(order[r]) \in Nat
      /\ Len(results[r]) \in Nat
      /\ n \in Nat
  BY <1>1, LenProperties
<1>3. ASSUME NEW k \in 1..n
      PROVE  Result(order[r][Len(results[r]) + k], "skipped", "none") \in StepResults
  <2>1. Len(results[r]) + k \in 1..Len(order[r])
    BY <1>2
  <2>2. order[r][Len(results[r]) + k] \in Nat
    BY <1>1, <2>1, ElementOfSeq
  <2>3. QED
    BY <2>2 DEF Result, StepResults
<1>4. Skipped(r) \in [1..n -> StepResults]
  BY <1>3 DEF Skipped
<1>5. QED
  <2> HIDE DEF n
  <2>1. /\ Skipped(r) \in Seq(StepResults)
        /\ Len(Skipped(r)) = n
        /\ DOMAIN Skipped(r) = 1..n
    BY <1>2, <1>4, FunctionIsSequence
  <2>2. QED
    BY <2>1 DEF n

-----------------------------------------------------------------------------
\* The first state is well typed: every CHOOSE of Init has something to choose.
LEMMA InitTyping == Init => TypeOK /\ StepsInBounds
<1> SUFFICES ASSUME Init PROVE TypeOK /\ StepsInBounds
  OBVIOUS
<1>1. /\ (CHOOSE list \in StepLists : TRUE) \in StepLists
      /\ (CHOOSE p \in Pipelines : TRUE) \in Pipelines
      /\ (CHOOSE r \in Runs : TRUE) \in Runs
  BY NonEmptyAssumption
<1>2. streams \in [Streams -> StreamStates]
  BY <1>1 DEF Init, NewStream, StreamStates, RunStates
<1>3. TypeOK
  BY <1>1, <1>2, MaxFaultsAssumption
     DEF Init, TypeOK, PipelineStates, RunStates, PCs, Finals
<1>4. StepsInBounds
  BY DEF Init, StepsInBounds
<1>5. QED
  BY <1>3, <1>4

\* The bound on failing statements is kept.
LEMMA StatementTyping ==
    ASSUME TypeOK, NEW ok \in BOOLEAN, Statement(ok)
    PROVE  faults' \in 0..MaxFaults
BY MaxFaultsAssumption DEF TypeOK, Statement

\* However a step ends, its result is a StepResult for a step of the list.
LEMMA StepEndsTyping ==
    ASSUME TypeOK, StepsInBounds, NEW r \in Runs, MoreSteps(r),
           NEW status \in Finals, NEW exit \in {"zero", "nonzero", "none"},
           StepEnds(r, status, exit)
    PROVE  TypeOK' /\ StepsInBounds'
<1> DEFINE new == Result(NextStep(r), status, exit)
<1>1. /\ results[r] \in Seq(StepResults)
      /\ order[r] \in Seq(Nat)
      /\ Len(results[r]) \in Nat
      /\ Len(order[r]) \in Nat
  BY LenProperties DEF TypeOK
<1>2. Len(results[r]) + 1 \in 1..Len(order[r])
  BY <1>1 DEF MoreSteps
<1>3. NextStep(r) \in Nat
  BY <1>1, <1>2, ElementOfSeq DEF NextStep
<1>4. new \in StepResults
  BY <1>3 DEF Result, StepResults
<1>5. /\ Append(results[r], new) \in Seq(StepResults)
      /\ Len(Append(results[r], new)) = Len(results[r]) + 1
  BY <1>1, <1>4, AppendProperties
<1> HIDE DEF new
<1>6. results' = [results EXCEPT ![r] = Append(results[r], new)]
  BY DEF StepEnds, new
<1>7. TypeOK'
  BY <1>5, <1>6 DEF StepEnds, TypeOK, tables, PCs, AtWork, Owing
<1>8. StepsInBounds'
  BY <1>2, <1>5, <1>6 DEF StepEnds, TypeOK, StepsInBounds, MoreSteps
<1>9. QED
  BY <1>7, <1>8

\* No action writes a value outside its type or past the end of a list.
LEMMA TypingStep ==
    ASSUME TypeOK, StepsInBounds, [Next]_vars
    PROVE  TypeOK' /\ StepsInBounds'
<1> USE DEF TypeOK, StepsInBounds, MoreSteps, tables, executors
<1>1. ASSUME NEW p \in Pipelines, NEW list \in StepLists, CreatePipeline(p, list)
      PROVE  TypeOK' /\ StepsInBounds'
  BY <1>1 DEF CreatePipeline, PipelineStates
<1>2. ASSUME NEW p \in Pipelines, NEW list \in StepLists, UpdatePipeline(p, list)
      PROVE  TypeOK' /\ StepsInBounds'
  BY <1>2 DEF UpdatePipeline
<1>3. ASSUME NEW p \in Pipelines, DeletePipeline(p)
      PROVE  TypeOK' /\ StepsInBounds'
  BY <1>3, EmptySeq DEF DeletePipeline, PipelineStates, RunStates
<1>4. ASSUME NEW p \in Pipelines, NEW r \in Runs, LoadPipeline(r, p)
      PROVE  TypeOK' /\ StepsInBounds'
  <2>1. pSteps[p] \in StepLists
    OBVIOUS
  <2>2. PICK o \in ExecutionOrders(pSteps[p]) : order' = [order EXCEPT ![r] = o]
    BY <1>4 DEF LoadPipeline
  <2>3. o \in Seq(Nat)
    BY <2>1, <2>2, OrderIsSequence
  <2>4. QED
    BY <1>4, <2>1, <2>2, <2>3 DEF LoadPipeline, PCs, AtWork
<1>5. ASSUME NEW r \in Runs, CreateRun(r)
      PROVE  TypeOK' /\ StepsInBounds'
  BY <1>5, StatementTyping DEF CreateRun, InsertRun, RunStates, PCs, AtWork, Owing
<1>6. ASSUME NEW r \in Runs, MarkPipelineRunning(r)
      PROVE  TypeOK' /\ StepsInBounds'
  BY <1>6, StatementTyping
     DEF MarkPipelineRunning, SetPipeline, PipelineStates, PCs, AtWork, Owing
<1>7. ASSUME NEW r \in Runs, CloneSucceeds(r)
      PROVE  TypeOK' /\ StepsInBounds'
  BY <1>7 DEF CloneSucceeds, WorkspaceOf, PCs, AtWork, Owing
<1>8. ASSUME NEW r \in Runs, SetupFails(r)
      PROVE  TypeOK' /\ StepsInBounds'
  <2>1. <<Result(0, "failed", "none")>> \in Seq(StepResults)
    BY DEF Result, StepResults, Finals
  <2>2. QED
    BY <1>8, <2>1 DEF SetupFails, WorkspaceOf, Finals, PCs, AtWork, Owing
<1>9. ASSUME NEW r \in Runs, StartStep(r)
      PROVE  TypeOK' /\ StepsInBounds'
  BY <1>9 DEF StartStep, PCs, AtWork, Owing
<1>10. ASSUME NEW r \in Runs, StepNotStarted(r)
       PROVE  TypeOK' /\ StepsInBounds'
  BY <1>10, StepEndsTyping DEF StepNotStarted, Finals
<1>11. ASSUME NEW r \in Runs, StepTimesOut(r)
       PROVE  TypeOK' /\ StepsInBounds'
  BY <1>11, StepEndsTyping DEF StepTimesOut, Finals
<1>12. ASSUME NEW r \in Runs, StepExits(r)
       PROVE  TypeOK' /\ StepsInBounds'
  BY <1>12, StepEndsTyping DEF StepExits, Finals
<1>13. ASSUME NEW r \in Runs, StepWaitFails(r)
       PROVE  TypeOK' /\ StepsInBounds'
  BY <1>13, StepEndsTyping DEF StepWaitFails, Finals
<1>14. ASSUME NEW r \in Runs, RecordStep(r)
       PROVE  TypeOK' /\ StepsInBounds'
  <2> DEFINE last == results[r][Len(results[r])]
  <2>1. /\ pc[r] = "logging"
        /\ Len(results[r]) \in 1..Len(order[r])
    BY <1>14 DEF RecordStep
  <2>2. last \in StepResults
    <3>1. Len(results[r]) \in 1..Len(results[r])
      BY <2>1
    <3>2. QED
      BY <3>1, ElementOfSeq
  <2>3. Append(logs[r], last) \in Seq(StepResults)
    BY <2>2, AppendProperties
  <2>4. results[r] \o Skipped(r) \in Seq(StepResults)
    BY <2>1, SkippedCompletes, ConcatProperties
  <2> HIDE DEF last
  <2>5. /\ logs' \in [Runs -> Seq(StepResults)]
        /\ faults' \in 0..MaxFaults
    BY <1>14, <2>3, StatementTyping DEF RecordStep, last
  <2>6. CASE last.status \in Stopping
    <3> HIDE DEF Skipped
    <3>1. /\ results' = [results EXCEPT ![r] = results[r] \o Skipped(r)]
          /\ final' = [final EXCEPT ![r] = last.status]
          /\ pc' = [pc EXCEPT ![r] = "finishing"]
          /\ UNCHANGED <<pStatus, pSteps, rStatus, pipelineOf, steps, order, expired,
                         workspaces, streams, broken>>
      BY <1>14, <2>6 DEF RecordStep, last
    <3>2. last.status \in Finals
      BY <2>6 DEF Stopping, Finals
    <3>3. TypeOK'
      BY <2>4, <2>5, <3>1, <3>2 DEF PCs, AtWork, Owing
    <3>4. StepsInBounds'
      BY <3>1
    <3>5. QED
      BY <3>3, <3>4
  <2>7. CASE last.status \notin Stopping
    BY <1>14, <2>5, <2>7 DEF RecordStep, PCs, AtWork, Owing, last
  <2>8. QED
    BY <2>6, <2>7
<1>15. ASSUME NEW r \in Runs, AllStepsDone(r)
       PROVE  TypeOK' /\ StepsInBounds'
  BY <1>15 DEF AllStepsDone, PCs, AtWork, Owing
<1>16. ASSUME NEW r \in Runs, PersistRun(r)
       PROVE  TypeOK' /\ StepsInBounds'
  BY <1>16, StatementTyping DEF PersistRun, RunStates, PCs, AtWork, Owing
<1>17. ASSUME NEW r \in Runs, PublishPipeline(r)
       PROVE  TypeOK' /\ StepsInBounds'
  BY <1>17, StatementTyping
     DEF PublishPipeline, PublishIf, SetPipeline, PipelineStates, PCs, AtWork
<1>18. ASSUME NEW r \in Runs, Cleanup(r)
       PROVE  TypeOK' /\ StepsInBounds'
  BY <1>18 DEF Cleanup, PCs, AtWork
<1>19. ASSUME NEW r \in Runs, RunTimeout(r)
       PROVE  TypeOK' /\ StepsInBounds'
  BY <1>19 DEF RunTimeout
<1>20. ASSUME NEW s \in Streams, NEW r \in Runs, OpenStream(s, r)
       PROVE  TypeOK' /\ StepsInBounds'
  BY <1>20 DEF OpenStream, NewStream, StreamStates, RunStates
<1>21. ASSUME NEW s \in Streams, PollStatus(s)
       PROVE  TypeOK' /\ StepsInBounds'
  <2>1. streams[s] \in StreamStates
    OBVIOUS
  <2>2. PICK ok \in BOOLEAN, status \in RunStates :
            /\ Statement(ok)
            /\ streams' = [streams EXCEPT ![s] =
                             [streams[s] EXCEPT !.status = status, !.pc = "draining"]]
    BY <1>21, <2>1, Zenon DEF PollStatus, ReadStatus, RunStates, StreamStates
  <2>3. [streams[s] EXCEPT !.status = status, !.pc = "draining"] \in StreamStates
    BY <2>1, <2>2, Zenon DEF StreamStates
  <2>4. streams' \in [Streams -> StreamStates]
    BY <2>2, <2>3
  <2>5. QED
    BY <1>21, <2>2, <2>4, StatementTyping DEF PollStatus, ReadStatus
<1>22. ASSUME NEW s \in Streams, SendLines(s)
       PROVE  TypeOK' /\ StepsInBounds'
  <2> DEFINE new == (streams[s].sent + 1) .. Len(logs[streams[s].run])
  <2>1. /\ streams[s] \in StreamStates
        /\ Len(logs[streams[s].run]) \in Nat
        /\ streams[s].sent \in Nat
    BY LenProperties DEF StreamStates
  <2>2. PICK ok \in BOOLEAN, upTo \in new \cup {streams[s].sent}, end \in {"ended", "polling"} :
            /\ Statement(ok)
            /\ streams' = [streams EXCEPT ![s] =
                             [streams[s] EXCEPT !.sent = upTo, !.lossy = ~ ok, !.pc = end]]
    BY <1>22, Zenon DEF SendLines, SendAndEndOn
  <2>3. upTo \in Nat
    BY <2>1
  <2>4. [streams[s] EXCEPT !.sent = upTo, !.lossy = ~ ok, !.pc = end] \in StreamStates
    BY <2>1, <2>2, <2>3, Zenon DEF StreamStates
  <2>5. streams' \in [Streams -> StreamStates]
    BY <2>2, <2>4
  <2>6. QED
    BY <1>22, <2>2, <2>5, StatementTyping DEF SendLines, SendAndEndOn
<1>23. ASSUME NEW s \in Streams, Disconnect(s)
       PROVE  TypeOK' /\ StepsInBounds'
  BY <1>23 DEF Disconnect, StreamStates
<1>24. ASSUME Crash
       PROVE  TypeOK' /\ StepsInBounds'
  <2>1. PICK dead \in SUBSET {r \in Runs : pc[r] \in AtWork},
             cut \in SUBSET {s \in Streams : Open(s)} :
            /\ pc' = [r \in Runs |-> IF r \in dead THEN "crashed" ELSE pc[r]]
            /\ broken' = broken \cup {r \in dead : pc[r] \in Owing}
            /\ streams' = [s \in Streams |-> IF s \in cut
                                             THEN [streams[s] EXCEPT !.pc = "closed"]
                                             ELSE streams[s]]
    BY <1>24, Zenon DEF Crash
  <2>2. pc' \in [Runs -> PCs] /\ broken' \subseteq Runs
    BY <2>1 DEF PCs
  <2>3. streams' \in [Streams -> StreamStates]
    BY <2>1 DEF StreamStates
  <2>4. results' = results /\ order' = order
    BY <1>24 DEF Crash
  <2>5. StepsInBounds'
    BY <2>1, <2>4 DEF MoreSteps
  <2>6. TypeOK'
    BY <1>24, <2>2, <2>3 DEF Crash, tables
  <2> QED
    BY <2>5, <2>6
<1>25. CASE UNCHANGED vars
  BY <1>25 DEF vars
<1>26. QED
  BY <1>1, <1>2, <1>3, <1>4, <1>5, <1>6, <1>7, <1>8, <1>9, <1>10, <1>11, <1>12, <1>13,
     <1>14, <1>15, <1>16, <1>17, <1>18, <1>19, <1>20, <1>21, <1>22, <1>23, <1>24, <1>25
     DEF Next, ExecutorStep, Progress, Tick

(***************************************************************************)
(* Every variable keeps its type: no row ever holds a status the CHECK     *)
(* constraints of migrations/001_create_pipelines.sql refuse, and no       *)
(* result is read past the end of a list.                                  *)
(***************************************************************************)
THEOREM Typing == Spec => [](TypeOK /\ StepsInBounds)
<1>1. Init => TypeOK /\ StepsInBounds
  BY InitTyping
<1>2. TypeOK /\ StepsInBounds /\ [Next]_vars => (TypeOK /\ StepsInBounds)'
  BY TypingStep
<1>3. QED
  BY <1>1, <1>2, PTL DEF Spec

\* The part of Typing the runs check, for any number of runs and streams.
THEOREM TypeCorrect == Spec => []TypeOK
BY Typing, PTL

-----------------------------------------------------------------------------
(***************************************************************************)
(* Nobody removes the workspace of a run whose steps still use it, for any *)
(* number of runs at work in the same workRoot.                            *)
(***************************************************************************)
THEOREM WorkspacesStay == Spec => []StepsHaveWorkspace
<1>1. Init => StepsHaveWorkspace
  BY DEF Init, StepsHaveWorkspace
<1>2. ASSUME TypeOK, StepsHaveWorkspace, [Next]_vars
      PROVE  StepsHaveWorkspace'
  <2> USE <1>2 DEF TypeOK, StepsHaveWorkspace, WorkspaceOf, tables, executors
  <2>1. ASSUME NEW r \in Runs, CloneSucceeds(r)
        PROVE  StepsHaveWorkspace'
    BY <2>1 DEF CloneSucceeds
  <2>2. ASSUME NEW r \in Runs, Cleanup(r)
        PROVE  StepsHaveWorkspace'
    BY <2>2 DEF Cleanup
  <2>3. ASSUME NEW r \in Runs, SetupFails(r)
        PROVE  StepsHaveWorkspace'
    BY <2>3 DEF SetupFails
  <2>4. ASSUME NEW r \in Runs,
               \/ StartStep(r) \/ StepNotStarted(r) \/ StepTimesOut(r)
               \/ StepExits(r) \/ StepWaitFails(r)
        PROVE  StepsHaveWorkspace'
    BY <2>4 DEF StartStep, StepNotStarted, StepTimesOut, StepExits, StepWaitFails, StepEnds
  <2>5. ASSUME NEW r \in Runs, RecordStep(r) \/ AllStepsDone(r)
        PROVE  StepsHaveWorkspace'
    BY <2>5 DEF RecordStep, AllStepsDone
  <2>6. ASSUME NEW r \in Runs,
               \/ \E p \in Pipelines : LoadPipeline(r, p)
               \/ CreateRun(r) \/ MarkPipelineRunning(r)
               \/ PersistRun(r) \/ PublishPipeline(r)
        PROVE  StepsHaveWorkspace'
    BY <2>6 DEF LoadPipeline, CreateRun, InsertRun, MarkPipelineRunning, PersistRun,
                PublishPipeline, PublishIf
  <2>7. CASE UNCHANGED <<pc, workspaces>>
    BY <2>7
  <2>8. CASE Crash
    BY <2>8 DEF Crash, AtWork, Owing
  <2>9. QED
    BY <2>1, <2>2, <2>3, <2>4, <2>5, <2>6, <2>7, <2>8
       DEF Next, ExecutorStep, Progress, Tick, CreatePipeline, UpdatePipeline,
           DeletePipeline, RunTimeout, OpenStream, PollStatus, ReadStatus, SendLines,
           SendAndEndOn, Disconnect, vars
<1>3. QED
  BY <1>1, <1>2, TypeCorrect, PTL DEF Spec

-----------------------------------------------------------------------------
(***************************************************************************)
(* PipelineStatusJustified is not inductive: what a pipeline shows after   *)
(* PublishPipeline depends on the row of the run, and that row on where    *)
(* the executor is.                                                        *)
(***************************************************************************)
RowFollowsExecutor(r) ==
    /\ pc[r] \in {"idle", "loaded"} => rStatus[r] = "absent" /\ r \notin broken
    /\ pc[r] \in Owing \ {"publishing"} => rStatus[r] \in {"running", "deleted"}
    /\ pc[r] = "publishing" /\ r \notin broken => rStatus[r] \in {final[r], "deleted"}
    /\ rStatus[r] = "deleted" => pStatus[pipelineOf[r]] = "deleted"

RowsFollowExecutors == \A r \in Runs : RowFollowsExecutor(r)

\* What the executor does between MarkPipelineRunning and PersistRun.
StepWork(r) ==
    \/ CloneSucceeds(r) \/ SetupFails(r) \/ RunTimeout(r)
    \/ StartStep(r) \/ StepNotStarted(r) \/ StepTimesOut(r) \/ StepExits(r) \/ StepWaitFails(r)
    \/ RecordStep(r) \/ AllStepsDone(r)

\* It leaves the run owing its updates and the two statuses alone.
LEMMA StepWorkFrame ==
    ASSUME TypeOK, NEW r \in Runs, StepWork(r)
    PROVE  /\ pc[r] \in Owing \ {"publishing"}
           /\ \E q \in Owing \ {"publishing"} : pc' = [pc EXCEPT ![r] = q]
           /\ UNCHANGED <<pStatus, rStatus, pipelineOf, broken>>
           /\ \A x \in Runs \ {r} : final'[x] = final[x]
<1> USE DEF Owing, tables, executors
<1>1. CASE CloneSucceeds(r)
  BY <1>1 DEF CloneSucceeds
<1>2. CASE SetupFails(r)
  BY <1>2 DEF SetupFails, TypeOK
<1>3. CASE RunTimeout(r)
  <2>1. pc = [pc EXCEPT ![r] = pc[r]]
    BY DEF TypeOK
  <2>2. QED
    BY <1>3, <2>1 DEF RunTimeout
<1>4. CASE StartStep(r) \/ AllStepsDone(r)
  BY <1>4 DEF StartStep, AllStepsDone
<1>5. CASE StepNotStarted(r) \/ StepTimesOut(r) \/ StepExits(r) \/ StepWaitFails(r)
  BY <1>5 DEF StepNotStarted, StepTimesOut, StepExits, StepWaitFails, StepEnds
<1>6. CASE RecordStep(r)
  <2> DEFINE last == results[r][Len(results[r])]
  <2>1. CASE last.status \in Stopping
    <3> HIDE DEF last
    <3>1. /\ pc[r] = "logging"
          /\ pc' = [pc EXCEPT ![r] = "finishing"]
          /\ final' = [final EXCEPT ![r] = last.status]
          /\ UNCHANGED <<pStatus, rStatus, pipelineOf, broken>>
      BY <1>6, <2>1 DEF RecordStep, last
    <3>2. QED
      BY <3>1 DEF TypeOK
  <2>2. CASE last.status \notin Stopping
    BY <1>6, <2>2 DEF RecordStep
  <2>3. QED
    BY <2>1, <2>2
<1>7. QED
  BY <1>1, <1>2, <1>3, <1>4, <1>5, <1>6 DEF StepWork

\* Row and executor move together, whatever the handlers do to the row meanwhile.
LEMMA RowsStep ==
    ASSUME TypeOK, RowsFollowExecutors, [Next]_vars
    PROVE  RowsFollowExecutors'
<1>0. /\ pStatus \in [Pipelines -> PipelineStates]
      /\ rStatus \in [Runs -> RunStates]
      /\ pc \in [Runs -> PCs]
      /\ pipelineOf \in [Runs -> Pipelines]
      /\ final \in [Runs -> Finals]
  BY DEF TypeOK
<1> USE <1>0 DEF RowsFollowExecutors, RowFollowsExecutor, Owing, tables, executors
<1>1. ASSUME NEW p \in Pipelines, NEW list \in StepLists, CreatePipeline(p, list)
      PROVE  RowsFollowExecutors'
  BY <1>1 DEF CreatePipeline
<1>2. ASSUME NEW p \in Pipelines, DeletePipeline(p)
      PROVE  RowsFollowExecutors'
  BY <1>2 DEF DeletePipeline, RunExists, PipelineExists
<1>3. ASSUME NEW r \in Runs, NEW p \in Pipelines, LoadPipeline(r, p)
      PROVE  RowsFollowExecutors'
  BY <1>3 DEF LoadPipeline
<1>4. ASSUME NEW r \in Runs, CreateRun(r)
      PROVE  RowsFollowExecutors'
  BY <1>4 DEF CreateRun, InsertRun
<1>5. ASSUME NEW r \in Runs, MarkPipelineRunning(r)
      PROVE  RowsFollowExecutors'
  BY <1>5 DEF MarkPipelineRunning, SetPipeline, PipelineExists
<1>6. ASSUME NEW r \in Runs, StepWork(r)
      PROVE  RowsFollowExecutors'
  BY <1>6, StepWorkFrame
<1>7. ASSUME NEW r \in Runs, PersistRun(r)
      PROVE  RowsFollowExecutors'
  BY <1>7 DEF PersistRun, RunExists, Finals
<1>8. ASSUME NEW r \in Runs, PublishPipeline(r)
      PROVE  RowsFollowExecutors'
  BY <1>8 DEF PublishPipeline, PublishIf, SetPipeline, PipelineExists
<1>9. ASSUME NEW r \in Runs, Cleanup(r)
       PROVE  RowsFollowExecutors'
  BY <1>9 DEF Cleanup
<1>10. CASE Crash
  BY <1>10 DEF Crash, AtWork
<1>11. CASE UNCHANGED <<pStatus, rStatus, pc, pipelineOf, final, broken>>
  BY <1>11
<1>12. QED
  BY <1>1, <1>2, <1>3, <1>4, <1>5, <1>6, <1>7, <1>8, <1>9, <1>10, <1>11
     DEF Next, ExecutorStep, Progress, StepWork, Tick, UpdatePipeline, OpenStream, PollStatus,
         ReadStatus, SendLines, SendAndEndOn, Disconnect, vars

\* No step takes the run away that justifies the status of a pipeline.
LEMMA JustifiedStep ==
    ASSUME TypeOK, RowsFollowExecutors, PipelineStatusJustified, [Next]_vars
    PROVE  PipelineStatusJustified'
<1>0. /\ pStatus \in [Pipelines -> PipelineStates]
      /\ rStatus \in [Runs -> RunStates]
      /\ pc \in [Runs -> PCs]
      /\ pipelineOf \in [Runs -> Pipelines]
      /\ final \in [Runs -> Finals]
  BY DEF TypeOK
<1> USE <1>0 DEF RowsFollowExecutors, RowFollowsExecutor, Owing, tables, executors,
                 PipelineStatusJustified, RunningJustified, FinalJustified, Finals
<1>1. ASSUME NEW p \in Pipelines, NEW list \in StepLists, CreatePipeline(p, list)
      PROVE  PipelineStatusJustified'
  BY <1>1 DEF CreatePipeline
<1>2. ASSUME NEW p \in Pipelines, DeletePipeline(p)
      PROVE  PipelineStatusJustified'
  BY <1>2 DEF DeletePipeline, RunExists, PipelineExists
<1>3. ASSUME NEW r \in Runs, NEW p \in Pipelines, LoadPipeline(r, p)
      PROVE  PipelineStatusJustified'
  BY <1>3 DEF LoadPipeline
<1>4. ASSUME NEW r \in Runs, CreateRun(r)
      PROVE  PipelineStatusJustified'
  BY <1>4 DEF CreateRun, InsertRun
<1>5. ASSUME NEW r \in Runs, MarkPipelineRunning(r)
      PROVE  PipelineStatusJustified'
  BY <1>5 DEF MarkPipelineRunning, SetPipeline, PipelineExists
<1>6. ASSUME NEW r \in Runs, StepWork(r)
      PROVE  PipelineStatusJustified'
  BY <1>6, StepWorkFrame
<1>7. ASSUME NEW r \in Runs, PersistRun(r)
      PROVE  PipelineStatusJustified'
  BY <1>7 DEF PersistRun, RunExists
<1>8. ASSUME NEW r \in Runs, PublishPipeline(r)
      PROVE  PipelineStatusJustified'
  BY <1>8 DEF PublishPipeline, PublishIf, SetPipeline, PipelineExists
<1>9. ASSUME NEW r \in Runs, Cleanup(r)
       PROVE  PipelineStatusJustified'
  BY <1>9 DEF Cleanup
<1>10. CASE Crash
  BY <1>10 DEF Crash, AtWork
<1>11. CASE UNCHANGED <<pStatus, rStatus, pc, pipelineOf, broken>>
  BY <1>11
<1>12. QED
  BY <1>1, <1>2, <1>3, <1>4, <1>5, <1>6, <1>7, <1>8, <1>9, <1>10, <1>11
     DEF Next, ExecutorStep, Progress, StepWork, Tick, UpdatePipeline, OpenStream, PollStatus,
         ReadStatus, SendLines, SendAndEndOn, Disconnect, vars

(***************************************************************************)
(* The status of a pipeline has a run behind it, for any number of         *)
(* pipelines and overlapping runs.                                         *)
(***************************************************************************)
THEOREM StatusJustified == Spec => []PipelineStatusJustified
<1>1. Init => RowsFollowExecutors /\ PipelineStatusJustified
  BY NonEmptyAssumption
     DEF Init, RowsFollowExecutors, RowFollowsExecutor, PipelineStatusJustified,
         RunningJustified, FinalJustified, Finals, Owing
<1>2. /\ TypeOK
      /\ RowsFollowExecutors /\ PipelineStatusJustified
      /\ [Next]_vars
      => (RowsFollowExecutors /\ PipelineStatusJustified)'
  BY RowsStep, JustifiedStep
<1>3. QED
  BY <1>1, <1>2, TypeCorrect, PTL DEF Spec

=============================================================================
