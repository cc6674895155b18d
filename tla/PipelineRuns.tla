---------------------------- MODULE PipelineRuns ----------------------------
(***************************************************************************)
(* The CI/CD engine of services/devops: the pipelines and their runs in    *)
(* PostgreSQL, one executor goroutine per triggered run                    *)
(* (internal/service/pipeline_service.go, internal/executor), and the SSE  *)
(* streams that follow the log of a run (internal/handler/pipeline.go).    *)
(*                                                                         *)
(* The service may have several instances.  An executor is a goroutine of  *)
(* the instance that took the request: a crash of the instance ends all it *)
(* hosts at once, and nothing in the code looks for their runs again.  A   *)
(* database statement may fail; the executors drop the error of each of    *)
(* theirs.                                                                 *)
(***************************************************************************)
EXTENDS StepGraph

CONSTANTS
    Pipelines,    \* pipeline ids
    Runs,         \* run ids
    Streams,      \* SSE connections
    StepNames,    \* step names
    StepLists,    \* the step lists users define
    MaxFaults     \* bound on the database statements that fail

ASSUME StepListsAssumption == StepLists \subseteq StepsOver(StepNames)
ASSUME MaxFaultsAssumption == MaxFaults \in Nat
ASSUME NonEmptyAssumption == Pipelines # {} /\ Runs # {} /\ StepLists # {}

VARIABLES
    (* the tables *)
    pStatus,      \* pipelines.status
    pSteps,       \* pipelines.steps
    rStatus,      \* pipeline_runs.status
    logs,         \* pipeline_run_logs of each run, in id order
    (* what TriggerRun and executeRun hold for a run *)
    pc,           \* where they are
    pipelineOf,   \* pipelineID, and pipeline_runs.pipeline_id
    steps,        \* the step list TriggerRun read
    order,        \* the order TopoSort gave it
    results,      \* results, which becomes pipeline_runs.step_results
    final,        \* finalStatus
    expired,      \* runTimeout is over
    workspaces,   \* the directories under workRoot
    (* the log streams *)
    streams,
    (* bookkeeping of the model *)
    broken,       \* runs cut short by a crash or by a write that failed
    faults        \* statements that failed so far

tables    == <<pStatus, pSteps, rStatus, logs>>
executors == <<pc, pipelineOf, steps, order, results, final, expired, workspaces>>
vars      == <<tables, executors, streams, broken, faults>>

Finals == {"success", "failed", "cancelled"}
PipelineStates == {"absent", "idle", "running", "deleted"} \cup Finals
RunStates == {"absent", "running", "deleted"} \cup Finals

\* The steps between the INSERT of the run and the last UPDATE it owes.
Owing == {"created", "cloning", "stepping", "waiting", "logging", "finishing", "publishing"}
AtWork == Owing \cup {"loaded", "cleaning"}
PCs == AtWork \cup {"idle", "ended", "crashed"}

(***************************************************************************)
(* A StepResult: the position of the step in its list (0 for the "setup"   *)
(* of failRun), the status reported, and what its container did: its       *)
(* command exited with zero or not, or it did not exit ("none").           *)
(***************************************************************************)
Result(pos, status, exit) == [step |-> pos, status |-> status, exit |-> exit]
StepResults == [step : Nat,
                status : Finals \cup {"skipped"},
                exit : {"zero", "nonzero", "none"}]

\* A stream: status is what this tick read, sent is lastID, lossy holds
\* while the last query of log lines had failed.
StreamStates == [pc : {"closed", "polling", "draining", "ended"},
                 run : Runs,
                 status : RunStates,
                 sent : Nat,
                 lossy : BOOLEAN,
                 connected : BOOLEAN]
NewStream(r) == [pc |-> "polling", run |-> r, status |-> "absent", sent |-> 0,
                 lossy |-> FALSE, connected |-> TRUE]
Open(s) == streams[s].pc \in {"polling", "draining"}

PipelineExists(p) == pStatus[p] \notin {"absent", "deleted"}
RunExists(r) == rStatus[r] \notin {"absent", "deleted"}

TypeOK ==
    /\ pStatus \in [Pipelines -> PipelineStates]
    /\ pSteps \in [Pipelines -> StepLists]
    /\ rStatus \in [Runs -> RunStates]
    /\ logs \in [Runs -> Seq(StepResults)]
    /\ pc \in [Runs -> PCs]
    /\ pipelineOf \in [Runs -> Pipelines]
    /\ steps \in [Runs -> StepLists]
    /\ order \in [Runs -> Seq(Nat)]
    /\ results \in [Runs -> Seq(StepResults)]
    /\ final \in [Runs -> Finals]
    /\ expired \in [Runs -> BOOLEAN]
    /\ workspaces \subseteq Runs
    /\ streams \in [Streams -> StreamStates]
    /\ broken \subseteq Runs
    /\ faults \in 0..MaxFaults

\* The values of a row or a local that does not exist yet are not looked at.
Init ==
    /\ pStatus = [p \in Pipelines |-> "absent"]
    /\ pSteps = [p \in Pipelines |-> CHOOSE list \in StepLists : TRUE]
    /\ rStatus = [r \in Runs |-> "absent"]
    /\ logs = [r \in Runs |-> << >>]
    /\ pc = [r \in Runs |-> "idle"]
    /\ pipelineOf = [r \in Runs |-> CHOOSE p \in Pipelines : TRUE]
    /\ steps = [r \in Runs |-> CHOOSE list \in StepLists : TRUE]
    /\ order = [r \in Runs |-> << >>]
    /\ results = [r \in Runs |-> << >>]
    /\ final = [r \in Runs |-> "success"]
    /\ expired = [r \in Runs |-> FALSE]
    /\ workspaces = {}
    /\ streams = [s \in Streams |-> [NewStream(CHOOSE r \in Runs : TRUE) EXCEPT !.pc = "closed"]]
    /\ broken = {}
    /\ faults = 0

-----------------------------------------------------------------------------
(* The database.                                                           *)

\* One statement succeeds, or fails within the bound.
Statement(ok) ==
    /\ ok \/ faults < MaxFaults
    /\ faults' = IF ok THEN faults ELSE faults + 1

\* UPDATE pipelines SET status, which touches no row once the pipeline is gone.
SetPipeline(p, status, ok) ==
    pStatus' = IF ok /\ PipelineExists(p) THEN [pStatus EXCEPT ![p] = status] ELSE pStatus

(***************************************************************************)
(* The handlers of a pipeline.                                             *)
(***************************************************************************)
CreatePipeline(p, list) ==
    /\ pStatus[p] = "absent"
    /\ pStatus' = [pStatus EXCEPT ![p] = "idle"]
    /\ pSteps' = [pSteps EXCEPT ![p] = list]
    /\ UNCHANGED <<rStatus, logs, executors, streams, broken, faults>>

\* The runs at work keep the list they were triggered with.
UpdatePipeline(p, list) ==
    /\ PipelineExists(p)
    /\ pSteps' = [pSteps EXCEPT ![p] = list]
    /\ UNCHANGED <<pStatus, rStatus, logs, executors, streams, broken, faults>>

\* ON DELETE CASCADE takes the runs and their log lines with the pipeline.
DeletePipeline(p) ==
    /\ PipelineExists(p)
    /\ pStatus' = [pStatus EXCEPT ![p] = "deleted"]
    /\ rStatus' = [r \in Runs |-> IF pipelineOf[r] = p /\ RunExists(r)
                                  THEN "deleted" ELSE rStatus[r]]
    /\ logs' = [r \in Runs |-> IF pipelineOf[r] = p THEN << >> ELSE logs[r]]
    /\ UNCHANGED <<pSteps, executors, streams, broken, faults>>

-----------------------------------------------------------------------------
(* TriggerRun.                                                             *)

\* The pipeline is read and its steps are sorted; a list without an order
\* is answered with an error.
LoadPipeline(r, p) ==
    /\ pc[r] = "idle"
    /\ PipelineExists(p)
    /\ \E o \in ExecutionOrders(pSteps[p]) : order' = [order EXCEPT ![r] = o]
    /\ pipelineOf' = [pipelineOf EXCEPT ![r] = p]
    /\ steps' = [steps EXCEPT ![r] = pSteps[p]]
    /\ pc' = [pc EXCEPT ![r] = "loaded"]
    /\ UNCHANGED <<tables, results, final, expired, workspaces, streams, broken, faults>>

InsertRun(r, status) ==
    /\ pc[r] = "loaded"
    /\ \E ok \in BOOLEAN :
        /\ Statement(ok)
        /\ IF ok /\ PipelineExists(pipelineOf[r])
           THEN /\ rStatus' = [rStatus EXCEPT ![r] = status]
                /\ pc' = [pc EXCEPT ![r] = "created"]
           ELSE /\ pc' = [pc EXCEPT ![r] = "ended"]
                /\ UNCHANGED rStatus
    /\ UNCHANGED <<pStatus, pSteps, logs, pipelineOf, steps, order, results, final,
                   expired, workspaces, streams, broken>>

\* The INSERT of the run: refused by the foreign key when the pipeline was
\* deleted since it was read.
CreatePendingRun(r) == InsertRun(r, "pending")   \* mutation: a status of the webhooks
CreateRun(r) == InsertRun(r, "running")

\* The pipeline is marked, and only then is the executor started.
MarkPipelineRunning(r) ==
    /\ pc[r] = "created"
    /\ \E ok \in BOOLEAN :
        /\ Statement(ok)
        /\ SetPipeline(pipelineOf[r], "running", ok)
    /\ pc' = [pc EXCEPT ![r] = "cloning"]
    /\ UNCHANGED <<pSteps, rStatus, logs, pipelineOf, steps, order, results, final,
                   expired, workspaces, streams, broken>>

-----------------------------------------------------------------------------
(* executeRun.                                                             *)

\* The directory a run works in, by the name CloneOrPull and Cleanup give it.
WorkspaceOfPipeline(r) == pipelineOf[r]   \* mutation: one directory per pipeline
WorkspaceOf(r) == r

\* The context of the run expires, whatever its executor is doing.
RunTimeout(r) ==
    /\ pc[r] \in {"cloning", "stepping", "waiting", "logging"}
    /\ ~ expired[r]
    /\ expired' = [expired EXCEPT ![r] = TRUE]
    /\ UNCHANGED <<tables, pc, pipelineOf, steps, order, results, final, workspaces,
                   streams, broken, faults>>

CloneSucceeds(r) ==
    /\ pc[r] = "cloning"
    /\ ~ expired[r]
    /\ workspaces' = workspaces \cup {WorkspaceOf(r)}
    /\ pc' = [pc EXCEPT ![r] = "stepping"]
    /\ UNCHANGED <<tables, pipelineOf, steps, order, results, final, expired,
                   streams, broken, faults>>

\* The workspace, the clone or the Docker client failed: failRun.
SetupFails(r) ==
    /\ pc[r] = "cloning"
    /\ \E made \in SUBSET {WorkspaceOf(r)} : workspaces' = workspaces \cup made
    /\ results' = [results EXCEPT ![r] = <<Result(0, "failed", "none")>>]
    /\ final' = [final EXCEPT ![r] = "failed"]
    /\ pc' = [pc EXCEPT ![r] = "finishing"]
    /\ UNCHANGED <<tables, pipelineOf, steps, order, expired, streams, broken, faults>>

MoreSteps(r) == Len(results[r]) < Len(order[r])
NextStep(r) == order[r][Len(results[r]) + 1]

AllStepsDone(r) ==
    /\ pc[r] = "stepping"
    /\ ~ MoreSteps(r)
    /\ pc' = [pc EXCEPT ![r] = "finishing"]
    /\ UNCHANGED <<tables, pipelineOf, steps, order, results, final, expired, workspaces,
                   streams, broken, faults>>

-----------------------------------------------------------------------------
(* RunStep: one container per step.                                        *)

StepEnds(r, status, exit) ==
    /\ results' = [results EXCEPT ![r] = Append(@, Result(NextStep(r), status, exit))]
    /\ pc' = [pc EXCEPT ![r] = "logging"]
    /\ UNCHANGED <<tables, pipelineOf, steps, order, final, expired, workspaces,
                   streams, broken, faults>>

StartStep(r) ==
    /\ pc[r] = "stepping"
    /\ MoreSteps(r)
    /\ ~ expired[r]
    /\ pc' = [pc EXCEPT ![r] = "waiting"]
    /\ UNCHANGED <<tables, pipelineOf, steps, order, results, final, expired, workspaces,
                   streams, broken, faults>>

\* The container is not created or not started; always so once the context is over.
StepNotStarted(r) ==
    /\ pc[r] = "stepping"
    /\ MoreSteps(r)
    /\ StepEnds(r, "failed", "none")

StepExits(r) ==
    /\ pc[r] = "waiting"
    /\ \E exit \in {"zero", "nonzero"} :
        StepEnds(r, IF exit = "zero" THEN "success" ELSE "failed", exit)

\* Docker lost the wait while the context was still good: exit code -1.
StepWaitFails(r) ==
    /\ pc[r] = "waiting"
    /\ ~ expired[r]
    /\ StepEnds(r, "failed", "none")

(***************************************************************************)
(* The context of the step or of the run expired.  Both ctx.Done() and the *)
(* error ContainerWait reports for it are ready, and select takes either:  *)
(* the first is "cancelled", the second leaves exitCode 0.                 *)
(***************************************************************************)
StepNeverTimesOut(r) == FALSE   \* mutation: no deadline on a step
StepTimesOut(r) ==
    /\ pc[r] = "waiting"
    /\ \E status \in {"cancelled", "success"} : StepEnds(r, status, "none")

-----------------------------------------------------------------------------
(* executeRun, after a step and after the last one.                        *)

\* The results after which no further step runs.
StoppingOnCancel == {"cancelled"}   \* mutation: a failed step does not stop the run
Stopping == {"failed", "cancelled"}

\* The steps not run, as "skipped" results.
SkippedForgotten(r) == << >>   \* mutation: the remaining steps not filled in
Skipped(r) ==
    [k \in 1..(Len(order[r]) - Len(results[r])) |->
        Result(order[r][Len(results[r]) + k], "skipped", "none")]

\* appendStepLog, best effort, and the branch on the result.
RecordStep(r) ==
    LET last == results[r][Len(results[r])]
    IN  /\ pc[r] = "logging"
        /\ \E ok \in BOOLEAN :
            /\ Statement(ok)
            /\ logs' = IF ok /\ RunExists(r) THEN [logs EXCEPT ![r] = Append(@, last)] ELSE logs
        /\ IF last.status \in Stopping
           THEN /\ results' = [results EXCEPT ![r] = @ \o Skipped(r)]
                /\ final' = [final EXCEPT ![r] = last.status]
                /\ pc' = [pc EXCEPT ![r] = "finishing"]
           ELSE /\ pc' = [pc EXCEPT ![r] = "stepping"]
                /\ UNCHANGED <<results, final>>
        /\ UNCHANGED <<pStatus, pSteps, rStatus, pipelineOf, steps, order, expired,
                       workspaces, streams, broken>>

\* The UPDATE of the run: its status and, in the same row, its results.
PersistRun(r) ==
    /\ pc[r] = "finishing"
    /\ \E ok \in BOOLEAN :
        /\ Statement(ok)
        /\ rStatus' = IF ok /\ RunExists(r) THEN [rStatus EXCEPT ![r] = final[r]] ELSE rStatus
        /\ broken' = IF ok THEN broken ELSE broken \cup {r}
    /\ pc' = [pc EXCEPT ![r] = "publishing"]
    /\ UNCHANGED <<pStatus, pSteps, logs, pipelineOf, steps, order, results, final,
                   expired, workspaces, streams>>

PublishIf(r, wanted) ==
    /\ pc[r] = "publishing"
    /\ \E ok \in BOOLEAN :
        /\ Statement(ok)
        /\ SetPipeline(pipelineOf[r], final[r], ok /\ wanted)
        /\ broken' = IF ok THEN broken ELSE broken \cup {r}
    /\ pc' = [pc EXCEPT ![r] = "cleaning"]
    /\ UNCHANGED <<pSteps, rStatus, logs, pipelineOf, steps, order, results, final,
                   expired, workspaces, streams>>

\* The UPDATE of the pipeline that follows that of the run, in executeRun
\* and in failRun.
PublishAfterSteps(r) ==   \* mutation: failRun leaves the pipeline alone
    PublishIf(r, \A k \in DOMAIN results[r] : results[r][k].step # 0)
PublishPipeline(r) == PublishIf(r, TRUE)

\* The deferred Cleanup.
Cleanup(r) ==
    /\ pc[r] = "cleaning"
    /\ workspaces' = workspaces \ {WorkspaceOf(r)}
    /\ pc' = [pc EXCEPT ![r] = "ended"]
    /\ UNCHANGED <<tables, pipelineOf, steps, order, results, final, expired, streams,
                   broken, faults>>

-----------------------------------------------------------------------------
(* StreamRunLogs: every tick reads the status of the run first and the new *)
(* log lines second.                                                       *)

OpenStream(s, r) ==
    /\ streams[s].pc = "closed"
    /\ streams' = [streams EXCEPT ![s] = NewStream(r)]
    /\ UNCHANGED <<tables, executors, broken, faults>>

ReadStatus(s, next(_)) ==
    LET r == streams[s].run
    IN  /\ streams[s].pc = "polling"
        /\ \E ok \in BOOLEAN :
            LET status == IF ok /\ RunExists(r) THEN rStatus[r] ELSE "absent"
            IN  /\ Statement(ok)
                /\ streams' = [streams EXCEPT ![s] =
                                   [@ EXCEPT !.status = status, !.pc = next(status)]]
        /\ UNCHANGED <<tables, executors, broken>>

\* The status stays empty when there is no such run or the query fails.
PollAndEnd(s) ==   \* mutation: a final status ends the stream before the lines are read
    ReadStatus(s, LAMBDA status : IF status \in Finals THEN "ended" ELSE "draining")
PollStatus(s) == ReadStatus(s, LAMBDA status : "draining")

SendAndEndOn(s, ending) ==
    LET new == (streams[s].sent + 1) .. Len(logs[streams[s].run])
    IN  /\ streams[s].pc = "draining"
        /\ \E ok \in BOOLEAN, upTo \in new \cup {streams[s].sent} :
            /\ Statement(ok)
            /\ ok => \A k \in new : k <= upTo
            /\ streams' = [streams EXCEPT ![s] =
                             [@ EXCEPT !.sent = upTo,
                                       !.lossy = ~ ok,
                                       !.pc = IF streams[s].status \in ending
                                              THEN "ended" ELSE "polling"]]
        /\ UNCHANGED <<tables, executors, broken>>

(***************************************************************************)
(* The lines after lastID are written, all of them or, when the query      *)
(* fails, those it had returned; errors of the writes to a client that     *)
(* left are not looked at.  The stream ends on a final status.             *)
(***************************************************************************)
SendUnlessRunning(s) ==   \* mutation: an unknown status ends the stream, too
    SendAndEndOn(s, RunStates \ {"running"})
SendUnlessCancelled(s) == SendAndEndOn(s, {"success", "failed"})   \* mutation
SendLines(s) == SendAndEndOn(s, Finals)

\* The client goes, or the server's write deadline cuts the connection.
Disconnect(s) ==
    /\ Open(s)
    /\ streams[s].connected
    /\ streams' = [streams EXCEPT ![s].connected = FALSE]
    /\ UNCHANGED <<tables, executors, broken, faults>>

-----------------------------------------------------------------------------
(* An instance of the service dies and is started again: the executors and *)
(* streams it hosted, any of those there are, and nothing else are gone.   *)

Crash ==
    \E dead \in SUBSET {r \in Runs : pc[r] \in AtWork},
       cut \in SUBSET {s \in Streams : Open(s)} :
        /\ dead # {} \/ cut # {}
        /\ pc' = [r \in Runs |-> IF r \in dead THEN "crashed" ELSE pc[r]]
        /\ broken' = broken \cup {r \in dead : pc[r] \in Owing}
        /\ streams' = [s \in Streams |-> IF s \in cut THEN [streams[s] EXCEPT !.pc = "closed"]
                                         ELSE streams[s]]
        /\ UNCHANGED <<tables, pipelineOf, steps, order, results, final, expired, workspaces,
                       faults>>

-----------------------------------------------------------------------------
\* The steps of a run that its executor, or a timeout in it, is bound to take.
Progress(r) ==
    \/ CreateRun(r)
    \/ MarkPipelineRunning(r)
    \/ CloneSucceeds(r)
    \/ SetupFails(r)
    \/ StartStep(r)
    \/ StepNotStarted(r)
    \/ StepTimesOut(r)
    \/ RecordStep(r)
    \/ AllStepsDone(r)
    \/ PersistRun(r)
    \/ PublishPipeline(r)
    \/ Cleanup(r)

ExecutorStep(r) ==
    \/ Progress(r)
    \/ RunTimeout(r)
    \/ StepExits(r)
    \/ StepWaitFails(r)

Tick(s) == PollStatus(s) \/ SendLines(s)

Next ==
    \/ \E p \in Pipelines :
        \/ \E list \in StepLists : CreatePipeline(p, list) \/ UpdatePipeline(p, list)
        \/ DeletePipeline(p)
        \/ \E r \in Runs : LoadPipeline(r, p)
    \/ \E r \in Runs : ExecutorStep(r)
    \/ \E s \in Streams :
        \/ \E r \in Runs : OpenStream(s, r)
        \/ Tick(s)
        \/ Disconnect(s)
    \/ Crash

Spec == Init /\ [][Next]_vars

(***************************************************************************)
(* Goroutines are scheduled, PostgreSQL answers, and every wait in RunStep *)
(* ends with its context; that a command of a step exits by itself is not  *)
(* assumed.                                                                *)
(***************************************************************************)
Fairness ==
    /\ \A r \in Runs : WF_vars(Progress(r))
    /\ \A s \in Streams : WF_vars(Tick(s))

FairSpec == Spec /\ Fairness

-----------------------------------------------------------------------------
(***************************************************************************)
(* A step runs only after every step it depends on was reported a success, *)
(* by the list the run was triggered with and whatever the pipeline is     *)
(* edited to meanwhile (pipeline_service.go:109-128, dag.go:9-10: "step    *)
(* names it waits for").                                                   *)
(***************************************************************************)
SucceededBefore(r, j, k) ==
    \E b \in DOMAIN results[r] :
        b < k /\ results[r][b].step = j /\ results[r][b].status = "success"

DependenciesSucceedFirst ==
    \A r \in Runs :
        /\ \A k \in DOMAIN results[r] : \A j \in DOMAIN steps[r] :
              /\ results[r][k].step # 0
              /\ results[r][k].status # "skipped"
              /\ DependsOn(steps[r], results[r][k].step, j)
              => SucceededBefore(r, j, k)
        /\ pc[r] = "waiting" =>
              \A j \in DOMAIN steps[r] :
                  DependsOn(steps[r], NextStep(r), j)
                  => SucceededBefore(r, j, Len(results[r]) + 1)

(***************************************************************************)
(* The row of a finished run tells one story: either the setup failed and  *)
(* is its only result, or step_results names every step once, in the order *)
(* of execution, and the status is "success" when all of them succeeded    *)
(* and otherwise that of the one step after which all are skipped          *)
(* (pipeline_service.go:105-139 and failRun).                              *)
(***************************************************************************)
StepsExplain(list, o, status) ==
    /\ Len(list) = Len(o)
    /\ \A k \in DOMAIN list : list[k].step = o[k]
    /\ \/ /\ status = "success"
          /\ \A k \in DOMAIN list : list[k].status = "success"
       \/ /\ status # "success"
          /\ \E k \in DOMAIN list :
                /\ list[k].status = status
                /\ \A a \in 1..(k - 1) : list[a].status = "success"
                /\ \A b \in (k + 1)..Len(list) : list[b].status = "skipped"

OutcomeMatchesResults ==
    \A r \in Runs :
        rStatus[r] \in Finals =>
            \/ results[r] = <<Result(0, "failed", "none")>> /\ rStatus[r] = "failed"
            \/ StepsExplain(results[r], order[r], rStatus[r])

(***************************************************************************)
(* The status a pipeline shows has a run behind it, however many of its    *)
(* runs overlap: "running" an executor that still owes it an update, and   *)
(* a final status a run that ended so; a crash or a failed write excuses   *)
(* it.  This holds because TriggerRun marks the pipeline before it starts  *)
(* the goroutine (pipeline_service.go:68-72), and because executeRun and   *)
(* failRun update the run before the pipeline on every path.               *)
(***************************************************************************)
RunningJustified(p) ==
    pStatus[p] = "running" =>
        \E r \in Runs : pipelineOf[r] = p /\ (pc[r] \in Owing \/ r \in broken)

FinalJustified(p) ==
    pStatus[p] \in Finals =>
        \E r \in Runs : pipelineOf[r] = p /\ (rStatus[r] = pStatus[p] \/ r \in broken)

PipelineStatusJustified == \A p \in Pipelines : RunningJustified(p) /\ FinalJustified(p)

(***************************************************************************)
(* A step never runs in a workspace another run has removed, although all  *)
(* runs share workRoot and each removes its own on the way out (git.go:16, *)
(* git.go:57, pipeline_service.go:85).                                     *)
(***************************************************************************)
StepsHaveWorkspace ==
    \A r \in Runs : pc[r] \in {"stepping", "waiting", "logging"} => WorkspaceOf(r) \in workspaces

(***************************************************************************)
(* A stream that sends {"done":true} has sent every line of the log, unless*)
(* the last query failed: the executor writes its lines before the status, *)
(* and a tick reads the status before the lines (handler/pipeline.go:199). *)
(***************************************************************************)
StreamDeliversWholeLog ==
    \A s \in Streams :
        LET r == streams[s].run
        IN  streams[s].pc = "ended" /\ ~ streams[s].lossy /\ RunExists(r)
            => streams[s].sent = Len(logs[r])

\* The status sent with it is the one the run keeps (handler/pipeline.go:219).
DoneStatusIsFinal ==
    \A s \in Streams :
        streams[s].pc = "ended" =>
            /\ streams[s].status \in Finals
            /\ rStatus[streams[s].run] \in {streams[s].status, "deleted"}

(***************************************************************************)
(* A run does not stay "running": whatever its steps do, the timeouts end  *)
(* it (pipeline_service.go:18-19).  A crash, or a failed UPDATE, is the    *)
(* exception.                                                              *)
(***************************************************************************)
RunSettles ==
    \A r \in Runs : rStatus[r] = "running" ~> (rStatus[r] # "running" \/ r \in broken)

\* A stream on a run that finished ends, connected or not (handler/pipeline.go:219).
StreamEndsWithRun ==
    \A s \in Streams :
        (Open(s) /\ rStatus[streams[s].run] \in Finals)
            ~> (~ Open(s) \/ rStatus[streams[s].run] = "deleted")

-----------------------------------------------------------------------------
(***************************************************************************)
(* What runner.go:35 says of RunStep, "Returns the combined output and     *)
(* exit code": a step is reported a success when its command exited with 0.*)
(* The code does not keep this, see StepTimesOut.                          *)
(***************************************************************************)
SuccessMeansExitZero ==
    \A r \in Runs : \A k \in DOMAIN results[r] :
        results[r][k].status = "success" => results[r][k].exit = "zero"

(***************************************************************************)
(* What handler/pipeline.go:182 says: "The stream ends when the run leaves *)
(* 'running' state or the client disconnects."  The code does not keep     *)
(* this: no write error is looked at, and the status of a run that was     *)
(* deleted with its pipeline reads as empty, which counts as running.      *)
(***************************************************************************)
StreamEndsAsDocumented ==
    \A s \in Streams :
        (/\ Open(s)
         /\ rStatus[streams[s].run] \in Finals \cup {"deleted"} \/ ~ streams[s].connected)
            ~> ~ Open(s)
=============================================================================
