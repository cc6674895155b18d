----------------------- MODULE PipelineResultsProofs -----------------------
(***************************************************************************)
(* What is proved of the results of a run: DependenciesSucceedFirst and    *)
(* OutcomeMatchesResults of PipelineRuns, for any step lists, and any      *)
(* number of runs, edits, deletions, crashes and failing statements.       *)
(***************************************************************************)
EXTENDS PipelineRunsProofs

SetupFailure == <<Result(0, "failed", "none")>>

AllSucceeded(list) == \A k \in DOMAIN list : list[k].status = "success"

(***************************************************************************)
(* The results of a run whose setup went well: one per step, in the order  *)
(* of execution; and where one is not skipped, all before are successes.   *)
(***************************************************************************)
FollowsOrder(list, o) ==
    /\ Len(list) <= Len(o)
    /\ \A k \in DOMAIN list :
          /\ list[k].step = o[k]
          /\ list[k].status # "skipped" =>
                \A a \in DOMAIN list : a < k => list[a].status = "success"

\* What the row of a run may say of its results.
Explains(list, o, status) ==
    \/ list = SetupFailure /\ status = "failed"
    \/ StepsExplain(list, o, status)

(***************************************************************************)
(* The inductive invariant, of one run: what its results are where its     *)
(* executor is.  Neither property is inductive, for both look at the run   *)
(* when the results are complete.                                          *)
(***************************************************************************)
Preparing == {"idle", "loaded", "created", "cloning"}
BeforeStep == {"stepping", "waiting"}
Stepping == BeforeStep \cup {"logging"}
Decided == {"finishing", "publishing", "cleaning"}

ResultsTell(r) ==
    /\ pc[r] # "idle" => order[r] \in ExecutionOrders(steps[r])
    /\ pc[r] \in Preparing => results[r] = << >>
    /\ pc[r] \in Preparing \cup Stepping => final[r] = "success" /\ rStatus[r] \notin Finals
    /\ pc[r] \in BeforeStep => AllSucceeded(results[r])
    /\ pc[r] = "logging" => results[r][Len(results[r])].status # "skipped"
    /\ results[r] = SetupFailure \/ FollowsOrder(results[r], order[r])
    /\ pc[r] \in Stepping => FollowsOrder(results[r], order[r])
    /\ pc[r] \in Decided => Explains(results[r], order[r], final[r])
    /\ rStatus[r] \in Finals => Explains(results[r], order[r], rStatus[r])

ResultsTellAll == \A r \in Runs : ResultsTell(r)

-----------------------------------------------------------------------------
(* What the three ways of extending the results do.                        *)

\* A step that ended adds its result.
LEMMA AppendFollows ==
    ASSUME NEW list \in Seq(StepResults), NEW o \in Seq(Nat), NEW new \in StepResults,
           Len(list) < Len(o), FollowsOrder(list, o), AllSucceeded(list),
           new.step = o[Len(list) + 1]
    PROVE  FollowsOrder(Append(list, new), o)
<1> DEFINE longer == Append(list, new)
<1>1. /\ Len(list) \in Nat
      /\ Len(o) \in Nat
      /\ DOMAIN list = 1..Len(list)
  BY LenProperties
<1>2. /\ Len(longer) = Len(list) + 1
      /\ DOMAIN longer = 1..(Len(list) + 1)
      /\ \A k \in 1..Len(list) : longer[k] = list[k]
      /\ longer[Len(list) + 1] = new
  BY AppendProperties, LenProperties
<1> HIDE DEF longer
<1>3. Len(longer) <= Len(o)
  BY <1>1, <1>2
<1>4. ASSUME NEW k \in DOMAIN longer
      PROVE  /\ longer[k].step = o[k]
             /\ longer[k].status # "skipped" =>
                   \A a \in DOMAIN longer : a < k => longer[a].status = "success"
  <2>1. \A a \in DOMAIN longer : a < k => a \in DOMAIN list /\ longer[a] = list[a]
    BY <1>1, <1>2
  <2>2. CASE k \in DOMAIN list
    BY <1>1, <1>2, <2>1, <2>2 DEF FollowsOrder
  <2>3. CASE k = Len(list) + 1
    BY <1>2, <2>1, <2>3 DEF AllSucceeded
  <2>4. QED
    BY <1>1, <1>2, <2>2, <2>3
<1>5. QED
  BY <1>3, <1>4 DEF FollowsOrder, longer

\* The last step succeeded: so did all.
LEMMA LastExplains ==
    ASSUME NEW list \in Seq(StepResults), NEW o \in Seq(Nat),
           Len(list) >= Len(o), FollowsOrder(list, o), AllSucceeded(list)
    PROVE  StepsExplain(list, o, "success")
<1>1. /\ Len(list) \in Nat
      /\ Len(o) \in Nat
  BY LenProperties
<1>2. QED
  BY <1>1 DEF FollowsOrder, AllSucceeded, StepsExplain

\* A step stopped the run: it explains the status, and the rest is skipped.
LEMMA SkippedExplains ==
    ASSUME TypeOK, NEW r \in Runs, Len(results[r]) \in 1..Len(order[r]),
           FollowsOrder(results[r], order[r]),
           results[r][Len(results[r])].status \in Stopping
    PROVE  LET all == results[r] \o Skipped(r)
           IN  /\ StepsExplain(all, order[r], results[r][Len(results[r])].status)
               /\ FollowsOrder(all, order[r])
<1> DEFINE done == results[r]
           rest == Skipped(r)
           all == done \o rest
           m == Len(done)
           n == Len(order[r])
<1>1. /\ done \in Seq(StepResults)
      /\ order[r] \in Seq(Nat)
      /\ m \in Nat
      /\ n \in Nat
      /\ m \in 1..n
      /\ DOMAIN done = 1..m
  BY LenProperties DEF TypeOK
<1>2. /\ rest \in Seq(StepResults)
      /\ Len(rest) = n - m
      /\ DOMAIN rest = 1..(n - m)
  BY SkippedCompletes
<1>3. \A k \in 1..(n - m) : rest[k] = Result(order[r][m + k], "skipped", "none")
  BY <1>1 DEF Skipped
<1>4. /\ all \in Seq(StepResults)
      /\ Len(all) = m + (n - m)
      /\ \A k \in 1..(m + (n - m)) : all[k] = IF k <= m THEN done[k] ELSE rest[k - m]
  <2> HIDE DEF done, rest
  <2>1. QED
    BY <1>1, <1>2, ConcatProperties
<1> HIDE DEF done, rest, all, m, n
<1>5. /\ Len(all) = n
      /\ DOMAIN all = 1..n
  BY <1>1, <1>4, LenProperties
<1>6. \A k \in 1..m : all[k] = done[k]
  BY <1>1, <1>4
<1>7. \A k \in (m + 1)..n : all[k].step = order[r][k] /\ all[k].status = "skipped"
  <2> SUFFICES ASSUME NEW k \in (m + 1)..n
               PROVE  all[k].step = order[r][k] /\ all[k].status = "skipped"
    OBVIOUS
  <2>1. /\ k \in 1..(m + (n - m))
        /\ ~ (k <= m)
        /\ k - m \in 1..(n - m)
        /\ m + (k - m) = k
    BY <1>1
  <2>2. all[k] = Result(order[r][k], "skipped", "none")
    BY <1>3, <1>4, <2>1
  <2>3. QED
    BY <2>2 DEF Result
<1>8. /\ \A k \in 1..m : done[k].step = order[r][k]
      /\ \A a \in 1..m : a < m => done[a].status = "success"
      /\ \A k, a \in 1..m : done[k].status # "skipped" /\ a < k => done[a].status = "success"
      /\ done[m].status \in {"failed", "cancelled"}
  <2>1. FollowsOrder(done, order[r]) /\ done[m].status \in Stopping
    BY DEF done, m
  <2>2. done[m].status \in {"failed", "cancelled"}
    BY <2>1 DEF Stopping
  <2>3. m \in DOMAIN done
    BY <1>1
  <2>4. QED
    BY <1>1, <2>1, <2>2, <2>3 DEF FollowsOrder
<1>9. \A k \in DOMAIN all : all[k].step = order[r][k]
  BY <1>1, <1>5, <1>6, <1>7, <1>8
<1>10. StepsExplain(all, order[r], done[m].status)
  <2>1. /\ m \in DOMAIN all
        /\ all[m].status = done[m].status
        /\ done[m].status # "success"
    BY <1>1, <1>5, <1>6, <1>8
  <2>2. \A a \in 1..(m - 1) : all[a].status = "success"
    BY <1>1, <1>6, <1>8
  <2>3. \A b \in (m + 1)..Len(all) : all[b].status = "skipped"
    BY <1>5, <1>7
  <2>4. Len(all) = Len(order[r])
    BY <1>5 DEF n
  <2>5. QED
    BY <1>9, <2>1, <2>2, <2>3, <2>4 DEF StepsExplain
<1>11. FollowsOrder(all, order[r])
  <2>1. ASSUME NEW k \in DOMAIN all, all[k].status # "skipped", NEW a \in DOMAIN all, a < k
        PROVE  all[a].status = "success"
    <3>1. k \in 1..m /\ a \in 1..m
      BY <1>1, <1>5, <1>7, <2>1
    <3>2. QED
      BY <1>6, <1>8, <2>1, <3>1
  <2>2. Len(all) <= Len(order[r])
    BY <1>1, <1>5 DEF n
  <2>3. QED
    BY <1>9, <2>1, <2>2 DEF FollowsOrder
<1>12. QED
  BY <1>10, <1>11 DEF all, done, rest, m

-----------------------------------------------------------------------------
\* No run has a result at first.
LEMMA InitTells == Init => ResultsTellAll
<1> SUFFICES ASSUME Init, NEW r \in Runs PROVE ResultsTell(r)
  BY DEF ResultsTellAll
<1>1. FollowsOrder(results[r], order[r])
  BY DEF Init, FollowsOrder
<1>2. QED
  BY <1>1 DEF Init, ResultsTell, Preparing, BeforeStep, Stepping, Decided, Finals

\* What a run does not touch it does not disturb; its row may be deleted.
Untouched(r) ==
    /\ pc'[r] = pc[r]
    /\ steps'[r] = steps[r]
    /\ order'[r] = order[r]
    /\ results'[r] = results[r]
    /\ final'[r] = final[r]
    /\ rStatus'[r] = rStatus[r] \/ rStatus'[r] \notin Finals

LEMMA UntouchedTells ==
    ASSUME NEW r \in Runs, ResultsTell(r), Untouched(r)
    PROVE  ResultsTell(r)'
BY DEF Untouched, ResultsTell

\* A step of this run that ends.
LEMMA StepEndsTells ==
    ASSUME TypeOK, StepsInBounds, NEW r \in Runs, ResultsTell(r),
           pc[r] \in BeforeStep, MoreSteps(r),
           NEW status \in Finals, NEW exit \in {"zero", "nonzero", "none"},
           StepEnds(r, status, exit)
    PROVE  ResultsTell(r)'
<1> DEFINE new == Result(NextStep(r), status, exit)
<1>1. /\ results[r] \in Seq(StepResults)
      /\ order[r] \in Seq(Nat)
      /\ Len(results[r]) \in Nat
      /\ Len(order[r]) \in Nat
      /\ Len(results[r]) < Len(order[r])
  BY LenProperties DEF TypeOK, MoreSteps
<1>2. NextStep(r) \in Nat
  BY <1>1, ElementOfSeq DEF NextStep
<1>3. /\ new \in StepResults
      /\ new.step = order[r][Len(results[r]) + 1]
      /\ new.status = status
  BY <1>2 DEF Result, StepResults, NextStep
<1>4. /\ results'[r] = Append(results[r], new)
      /\ pc'[r] = "logging"
      /\ UNCHANGED <<steps, order, final, rStatus>>
  BY DEF StepEnds, TypeOK, tables
<1> HIDE DEF new
<1>5. /\ FollowsOrder(results[r], order[r])
      /\ AllSucceeded(results[r])
  BY DEF ResultsTell, Stepping
<1>6. FollowsOrder(results'[r], order[r])
  BY <1>1, <1>3, <1>4, <1>5, AppendFollows
<1>7. results'[r][Len(results'[r])].status # "skipped"
  <2>1. results'[r][Len(results'[r])] = new
    BY <1>1, <1>3, <1>4, AppendProperties
  <2>2. QED
    BY <1>3, <2>1 DEF Finals
<1>8. QED
  BY <1>4, <1>6, <1>7 DEF ResultsTell, Preparing, BeforeStep, Stepping, Decided

\* The branch on the result of a step.
LEMMA RecordStepTells ==
    ASSUME TypeOK, StepsInBounds, NEW r \in Runs, ResultsTell(r), RecordStep(r)
    PROVE  ResultsTell(r)'
<1> DEFINE last == results[r][Len(results[r])]
<1>1. /\ pc[r] = "logging"
      /\ Len(results[r]) \in 1..Len(order[r])
      /\ FollowsOrder(results[r], order[r])
      /\ last.status # "skipped"
      /\ final[r] = "success"
      /\ rStatus[r] \notin Finals
  BY DEF RecordStep, ResultsTell, StepsInBounds, Stepping
<1>2. UNCHANGED <<rStatus, steps, order>>
  BY DEF RecordStep
<1>3. CASE last.status \in Stopping
  <2> DEFINE all == results[r] \o Skipped(r)
  <2>1. /\ StepsExplain(all, order[r], last.status)
        /\ FollowsOrder(all, order[r])
    BY <1>1, <1>3, SkippedExplains
  <2> HIDE DEF last, Skipped
  <2>2. /\ results' = [results EXCEPT ![r] = all]
        /\ final' = [final EXCEPT ![r] = last.status]
        /\ pc' = [pc EXCEPT ![r] = "finishing"]
    BY <1>3, Zenon DEF RecordStep, last
  <2> HIDE DEF all
  <2>3. results'[r] = all /\ final'[r] = last.status /\ pc'[r] = "finishing"
    BY <2>2 DEF TypeOK
  <2>4. QED
    BY <1>1, <1>2, <2>1, <2>3
       DEF ResultsTell, Explains, Preparing, BeforeStep, Stepping, Decided
<1>4. CASE last.status \notin Stopping
  <2>1. results' = results /\ final' = final /\ pc'[r] = "stepping"
    BY <1>4 DEF RecordStep, TypeOK
  <2>2. /\ DOMAIN results[r] = 1..Len(results[r])
        /\ Len(results[r]) \in Nat
        /\ last \in StepResults
    BY <1>1, LenProperties, ElementOfSeq DEF TypeOK
  <2>3. last.status = "success"
    BY <1>1, <1>4, <2>2 DEF StepResults, Stopping, Finals
  <2>4. AllSucceeded(results[r])
    BY <1>1, <2>2, <2>3 DEF FollowsOrder, AllSucceeded
  <2>5. QED
    BY <1>1, <1>2, <2>1, <2>4 DEF ResultsTell, Preparing, BeforeStep, Stepping, Decided
<1>5. QED
  BY <1>3, <1>4

\* Whatever the executor of this run does.
LEMMA OwnStepTells ==
    ASSUME TypeOK, StepsInBounds, NEW r \in Runs, ResultsTell(r), ExecutorStep(r)
    PROVE  ResultsTell(r)'
<1> USE DEF Preparing, BeforeStep, Stepping, Decided
<1>1. CASE CreateRun(r)
  <2>1. pc[r] = "loaded" /\ pc'[r] \in {"created", "ended"}
    BY <1>1 DEF CreateRun, InsertRun, TypeOK
  <2>2. rStatus'[r] = rStatus[r] \/ rStatus'[r] \notin Finals
    BY <1>1 DEF CreateRun, InsertRun, TypeOK, Finals
  <2>3. UNCHANGED <<steps, order, results, final>>
    BY <1>1 DEF CreateRun, InsertRun
  <2>4. QED
    BY <2>1, <2>2, <2>3 DEF ResultsTell
<1>2. CASE MarkPipelineRunning(r)
  BY <1>2 DEF MarkPipelineRunning, ResultsTell, TypeOK
<1>3. CASE CloneSucceeds(r)
  <2>1. /\ pc[r] = "cloning"
        /\ pc'[r] = "stepping"
        /\ UNCHANGED <<rStatus, steps, order, results, final>>
    BY <1>3 DEF CloneSucceeds, TypeOK, tables
  <2>2. results[r] = << >> /\ order[r] \in Seq(Nat)
    BY <2>1 DEF ResultsTell, TypeOK
  <2>3. FollowsOrder(results[r], order[r]) /\ AllSucceeded(results[r])
    BY <2>2, LenProperties DEF FollowsOrder, AllSucceeded
  <2>4. QED
    BY <2>1, <2>3 DEF ResultsTell
<1>4. CASE SetupFails(r)
  <2>1. /\ pc[r] = "cloning"
        /\ pc'[r] = "finishing"
        /\ results'[r] = SetupFailure
        /\ final'[r] = "failed"
        /\ UNCHANGED <<rStatus, steps, order>>
    BY <1>4 DEF SetupFails, TypeOK, SetupFailure, tables
  <2>2. QED
    BY <2>1 DEF ResultsTell, Explains
<1>5. CASE StartStep(r)
  BY <1>5 DEF StartStep, ResultsTell, TypeOK, tables
<1>6. CASE StepNotStarted(r)
  BY <1>6, StepEndsTells DEF StepNotStarted, Finals
<1>7. CASE StepTimesOut(r) \/ StepExits(r) \/ StepWaitFails(r)
  <2>1. /\ pc[r] \in BeforeStep
        /\ MoreSteps(r)
        /\ \E status \in Finals, exit \in {"zero", "nonzero", "none"} :
              StepEnds(r, status, exit)
    BY <1>7 DEF StepTimesOut, StepExits, StepWaitFails, StepsInBounds, Finals
  <2>2. QED
    BY <2>1, StepEndsTells
<1>8. CASE RecordStep(r)
  BY <1>8, RecordStepTells
<1>9. CASE AllStepsDone(r)
  <2>1. /\ pc[r] = "stepping"
        /\ pc'[r] = "finishing"
        /\ ~ MoreSteps(r)
        /\ UNCHANGED <<rStatus, steps, order, results, final>>
    BY <1>9 DEF AllStepsDone, TypeOK, tables
  <2>2. /\ results[r] \in Seq(StepResults)
        /\ order[r] \in Seq(Nat)
        /\ Len(results[r]) >= Len(order[r])
    BY <2>1, LenProperties DEF TypeOK, MoreSteps
  <2>3. StepsExplain(results[r], order[r], "success")
    BY <2>1, <2>2, LastExplains DEF ResultsTell
  <2>4. QED
    BY <2>1, <2>3 DEF ResultsTell, Explains
<1>10. CASE PersistRun(r)
  <2>1. /\ pc[r] = "finishing"
        /\ pc'[r] = "publishing"
        /\ rStatus'[r] \in {rStatus[r], final[r]}
        /\ UNCHANGED <<steps, order, results, final>>
    BY <1>10 DEF PersistRun, TypeOK
  <2>2. QED
    BY <2>1 DEF ResultsTell
<1>11. CASE PublishPipeline(r)
  BY <1>11 DEF PublishPipeline, PublishIf, ResultsTell, TypeOK
<1>12. CASE Cleanup(r)
  BY <1>12 DEF Cleanup, ResultsTell, TypeOK, tables
<1>13. CASE RunTimeout(r)
  BY <1>13 DEF RunTimeout, ResultsTell, TypeOK, tables
<1>14. QED
  BY <1>1, <1>2, <1>3, <1>4, <1>5, <1>6, <1>7, <1>8, <1>9, <1>10, <1>11, <1>12, <1>13
     DEF ExecutorStep, Progress

\* An executor touches the variables of its own run only.
LEMMA OtherStepTells ==
    ASSUME TypeOK, NEW r \in Runs, NEW q \in Runs, q # r, ResultsTell(r), ExecutorStep(q)
    PROVE  ResultsTell(r)'
<1>1. Untouched(r)
  BY DEF Untouched, TypeOK, tables, ExecutorStep, Progress, CreateRun, InsertRun,
         MarkPipelineRunning, CloneSucceeds, SetupFails, StartStep, StepNotStarted,
         StepTimesOut, StepExits, StepWaitFails, StepEnds, RecordStep, AllStepsDone,
         PersistRun, PublishPipeline, PublishIf, Cleanup, RunTimeout
<1>2. QED
  BY <1>1, UntouchedTells

LEMMA TellsStep ==
    ASSUME TypeOK, StepsInBounds, ResultsTellAll, [Next]_vars
    PROVE  ResultsTellAll'
<1> SUFFICES ASSUME NEW r \in Runs PROVE ResultsTell(r)'
  BY DEF ResultsTellAll
<1>1. ResultsTell(r)
  BY DEF ResultsTellAll
<1>2. ASSUME NEW q \in Runs, ExecutorStep(q)
      PROVE  ResultsTell(r)'
  BY <1>1, <1>2, OwnStepTells, OtherStepTells
<1>3. ASSUME NEW p \in Pipelines, NEW q \in Runs, LoadPipeline(q, p)
      PROVE  ResultsTell(r)'
  <2>1. CASE q = r
    <3>1. /\ pc[r] = "idle"
          /\ pc'[r] = "loaded"
          /\ steps'[r] = pSteps[p]
          /\ order'[r] \in ExecutionOrders(pSteps[p])
          /\ UNCHANGED <<rStatus, results, final>>
      BY <1>3, <2>1 DEF LoadPipeline, TypeOK, tables
    <3>2. results[r] = << >> /\ Len(order'[r]) \in Nat
      BY <1>1, <3>1, OrderIsSequence, LenProperties DEF ResultsTell, Preparing, TypeOK
    <3>3. FollowsOrder(results'[r], order'[r])
      BY <3>1, <3>2 DEF FollowsOrder
    <3>4. QED
      BY <1>1, <3>1, <3>3 DEF ResultsTell, Preparing, BeforeStep, Stepping, Decided
  <2>2. CASE q # r
    BY <1>1, <1>3, <2>2, UntouchedTells DEF LoadPipeline, Untouched, TypeOK, tables
  <2>3. QED
    BY <2>1, <2>2
<1>4. ASSUME NEW p \in Pipelines,
             \/ \E list \in StepLists : CreatePipeline(p, list) \/ UpdatePipeline(p, list)
             \/ DeletePipeline(p)
      PROVE  ResultsTell(r)'
  BY <1>1, <1>4, UntouchedTells
     DEF CreatePipeline, UpdatePipeline, DeletePipeline, Untouched, executors, Finals, TypeOK
<1>5. ASSUME NEW s \in Streams,
             (\E q \in Runs : OpenStream(s, q)) \/ Tick(s) \/ Disconnect(s)
      PROVE  ResultsTell(r)'
  BY <1>1, <1>5, UntouchedTells
     DEF OpenStream, Tick, PollStatus, ReadStatus, SendLines, SendAndEndOn, Disconnect,
         Untouched, executors, tables
<1>6. CASE Crash
  <2>1. /\ pc'[r] \in {pc[r], "crashed"}
        /\ UNCHANGED <<rStatus, steps, order, results, final>>
    BY <1>6 DEF Crash, tables
  <2>2. pc'[r] = "crashed" => pc[r] # "idle"
    BY <1>6, <1>1 DEF Crash, AtWork, Owing
  <2>3. QED
    BY <1>1, <2>1, <2>2 DEF ResultsTell, Preparing, BeforeStep, Stepping, Decided
<1>7. CASE UNCHANGED vars
  BY <1>1, <1>7, UntouchedTells DEF Untouched, vars, executors, tables
<1>8. QED
  BY <1>2, <1>3, <1>4, <1>5, <1>6, <1>7 DEF Next

\* The inductive invariant holds in every state (pipeline_service.go:77-159).
THEOREM ResultsTold == Spec => []ResultsTellAll
<1>1. Init => ResultsTellAll
  BY InitTells
<1>2. TypeOK /\ StepsInBounds /\ ResultsTellAll /\ [Next]_vars => ResultsTellAll'
  BY TellsStep
<1>3. QED
  BY <1>1, <1>2, Typing, PTL DEF Spec

-----------------------------------------------------------------------------
(***************************************************************************)
(* The row of a finished run agrees with its results, whatever failed or   *)
(* expired and whoever else was at work (pipeline_service.go:105-139).     *)
(***************************************************************************)
THEOREM OutcomeExplained == Spec => []OutcomeMatchesResults
<1>1. ResultsTellAll => OutcomeMatchesResults
  BY DEF ResultsTellAll, ResultsTell, Explains, SetupFailure, OutcomeMatchesResults
<1>2. QED
  BY <1>1, ResultsTold, PTL

\* In an execution order, a dependency has a position before its dependent.
LEMMA DependencyIsBefore ==
    ASSUME NEW list \in StepLists, NEW o \in ExecutionOrders(list),
           NEW a \in DOMAIN o, NEW j \in DOMAIN list, DependsOn(list, o[a], j)
    PROVE  \E b \in DOMAIN o : b < a /\ o[b] = j
<1>1. DOMAIN o = DOMAIN list /\ o[a] \in DOMAIN list
  BY DEF ExecutionOrders
<1>2. HasDeps(list)
  <2>1. list \in Seq([name : StepNames, dependsOn : Seq(StepNames)])
    BY StepListsAssumption DEF StepsOver
  <2>2. list[o[a]].dependsOn # << >>
    BY <1>1, <2>1 DEF DependsOn
  <2>3. QED
    BY <1>1, <2>2 DEF HasDeps
<1>3. EveryStepOnce(list, o) /\ DependenciesFirst(list, o)
  BY <1>2 DEF ExecutionOrders
<1>4. PICK b \in DOMAIN o : o[b] = j
  BY <1>3 DEF EveryStepOnce
<1>5. QED
  BY <1>3, <1>4 DEF DependenciesFirst

(***************************************************************************)
(* No step runs, or is reported on, before all it depends on succeeded:    *)
(* for any step lists and any order TopoSort may return for them, and      *)
(* whatever the pipeline is edited to (pipeline_service.go:109-128).       *)
(***************************************************************************)
THEOREM DependenciesRespected == Spec => []DependenciesSucceedFirst
<1>1. ASSUME TypeOK, StepsInBounds, ResultsTellAll, NEW r \in Runs
      PROVE  /\ \A k \in DOMAIN results[r] : \A j \in DOMAIN steps[r] :
                   /\ results[r][k].step # 0
                   /\ results[r][k].status # "skipped"
                   /\ DependsOn(steps[r], results[r][k].step, j)
                   => SucceededBefore(r, j, k)
             /\ pc[r] = "waiting" =>
                   \A j \in DOMAIN steps[r] :
                       DependsOn(steps[r], NextStep(r), j)
                       => SucceededBefore(r, j, Len(results[r]) + 1)
  <2>1. ResultsTell(r)
    BY <1>1 DEF ResultsTellAll
  <2>2. /\ steps[r] \in StepLists
        /\ results[r] \in Seq(StepResults)
        /\ order[r] \in Seq(Nat)
        /\ Len(results[r]) \in Nat
        /\ Len(order[r]) \in Nat
        /\ DOMAIN results[r] = 1..Len(results[r])
        /\ DOMAIN order[r] = 1..Len(order[r])
    BY <1>1, LenProperties DEF TypeOK
  <2>3. CASE pc[r] = "idle"
    BY <2>1, <2>3 DEF ResultsTell, Preparing
  <2>4. CASE pc[r] # "idle"
    <3>1. order[r] \in ExecutionOrders(steps[r])
      BY <2>1, <2>4 DEF ResultsTell
    <3>2. ASSUME NEW k \in DOMAIN results[r], NEW j \in DOMAIN steps[r],
                 results[r][k].step # 0,
                 results[r][k].status # "skipped",
                 DependsOn(steps[r], results[r][k].step, j)
          PROVE  SucceededBefore(r, j, k)
      <4>1. FollowsOrder(results[r], order[r])
        <5>1. CASE results[r] = SetupFailure
          BY <3>2, <5>1 DEF SetupFailure, Result
        <5>2. QED
          BY <2>1, <5>1 DEF ResultsTell
      <4>2. k \in DOMAIN order[r] /\ results[r][k].step = order[r][k]
        BY <2>2, <4>1 DEF FollowsOrder
      <4>3. PICK b \in DOMAIN order[r] : b < k /\ order[r][b] = j
        BY <2>2, <3>1, <3>2, <4>2, DependencyIsBefore
      <4>4. b \in DOMAIN results[r]
        BY <2>2, <4>3
      <4>5. QED
        BY <3>2, <4>1, <4>3, <4>4 DEF FollowsOrder, SucceededBefore
    <3>3. ASSUME pc[r] = "waiting", NEW j \in DOMAIN steps[r],
                 DependsOn(steps[r], NextStep(r), j)
          PROVE  SucceededBefore(r, j, Len(results[r]) + 1)
      <4>1. /\ FollowsOrder(results[r], order[r])
            /\ AllSucceeded(results[r])
            /\ Len(results[r]) + 1 \in DOMAIN order[r]
        BY <1>1, <2>1, <2>2, <3>3
           DEF ResultsTell, BeforeStep, Stepping, StepsInBounds, MoreSteps
      <4> DEFINE next == Len(results[r]) + 1
      <4>2. next \in DOMAIN order[r] /\ DependsOn(steps[r], order[r][next], j)
        BY <3>3, <4>1 DEF NextStep
      <4> HIDE DEF next
      <4>3. PICK b \in DOMAIN order[r] : b < next /\ order[r][b] = j
        <5>1. steps[r] \in StepLists /\ j \in DOMAIN steps[r]
          BY <2>2, <3>3
        <5>2. QED
          BY <3>1, <4>2, <5>1, DependencyIsBefore
      <4>4. b \in DOMAIN results[r]
        BY <2>2, <4>3 DEF next
      <4>5. QED
        BY <4>1, <4>3, <4>4 DEF FollowsOrder, AllSucceeded, SucceededBefore, next
    <3>4. QED
      BY <3>2, <3>3
  <2>5. QED
    BY <2>3, <2>4
<1>2. TypeOK /\ StepsInBounds /\ ResultsTellAll => DependenciesSucceedFirst
  BY <1>1 DEF DependenciesSucceedFirst
<1>3. QED
  BY <1>2, Typing, ResultsTold, PTL
=============================================================================
